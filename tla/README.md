# A verified model of user-intelligence

`user-intelligence` is a Go library that a host embeds. It takes messages of
users from the web, from Twilio (SMS and email) and from Discord, stores them
in Postgres, and lets a language model answer them. Several instances of a host
may run against one database. This directory holds TLA+ models of the parts
where that is hard, configurations that check them with TLC, and theorems about
them that TLAPS proves.

All paths below are relative to the root of the repository.

## The system

| Part | Code | State | Operations |
|---|---|---|---|
| message store | `internal/db/store.go`, `discord.go` | tables `conversations`, `messages`, `conversation_participants` | `Receive`, `RecordOutbound` |
| reads | `internal/db/read.go`, `discord.go` | none | `ListMessagesByConversation`, `LatestInboundByConversationAndChannel`, `LatestDiscordReplyTarget` |
| lock and runs | `internal/db/agent.go` | advisory locks, table `agent_runs` | `WithConversationLock`, `StartAgentRun`, `CompleteAgentRun` |
| issues and memory | `internal/db/agent.go` | tables `agent_issues`, `user_memory` | `UpsertAgentIssue`, `UpsertUserMemory` |
| reply agent | `internal/agent/service.go` | locals of each call | `ProcessAsync`, `ProcessSync`, its tools |
| Responses client | `internal/agent/client.go` | none | one HTTP request |
| shard leases | `internal/db/discord_leases.go` | table `discord_shard_leases` | `AcquireOrRenewDiscordShard`, `ReleaseDiscordShard` |
| Discord runtime | `internal/providers/discord/runtime.go` | sessions, send queue, context | `Start`, `Stop`, reconciler, send loop, `handleMessageCreate`, `EnqueueReply` |
| Discord limits | `internal/providers/discord/policy.go` | a counter and a window per user and per guild | `Allow` |
| Twilio | `internal/providers/twilio/` | none | parse, verify a signature, one HTTP request |
| HTTP handlers | `internal/httpapi/handlers.go` | none | web, SMS, email |
| ingest | `internal/ingest/`, `user_resolver.go` | none | types, classification, a lookup |
| app | `app.go`, `config.go` | `discordRuntime` | `New`, `StartDiscord`, `StopDiscord` |

How they interact:

    web request / Twilio webhook / Discord event
        -> normalise, resolve the user
        -> Store.Receive (one transaction)
        -> agent.ProcessAsync: a goroutine with a timeout, per delivery
             -> advisory lock of the conversation (a session of Postgres)
             -> INSERT into agent_runs, unique per inbound message
             -> read the conversation; skip, pong, or ask the model in steps
             -> tools: send (provider, then RecordOutbound), issues, memory
             -> close the run, unlock
    Discord send: EnqueueReply -> queue of the instance -> send loop -> RecordOutbound
    Discord connection: per shard, a lease row decides which instance connects

The calls of the agent share nothing but Postgres and, in one instance, the
Discord send queue and runtime.

### What is hard about it

* **Deliveries repeat and overlap.** Webhooks are retried, also while the first
  delivery is still being stored, also in another instance. The store must
  recognise a duplicate; the agent must answer a message once.
* **Every statement and request can fail, and can fail after it took effect.**
  A reply is given to a provider and then recorded: two steps, no transaction
  around them.
* **Contexts end** at any moment: by a timeout, a request that returned, a stop.
* **Instances crash**, Postgres drops sessions, and advisory locks go with the
  session, not with the work.
* **Transactions wait** for keys and rows of each other under READ COMMITTED,
  and a statement that fails aborts the transaction it is in.
* **Leases run on time**, while goroutines and statements take as long as they
  take.
* **A full queue blocks** its callers, who hold the lock of a conversation.
* **Connections run out.** A call keeps one for its lock while it needs another
  for its statements; a transaction that met a duplicate does the same.
* **A webhook's context ends with its handler**, while the call of the agent it
  started goes on under it.
* **Events race** on counters, with clocks they read before, and the target of a
  Discord reply is looked up when it is sent, not when it was asked for.

### What makes each part correct

* store: one row per provider id; every caller is told about that row; one
  conversation per key; no wait in a circle; a user who wrote is a participant.
* agent: one call answers a message; a closed run is closed; the transcript
  claims no reply that was not given out, and has the replies a run counts as
  given out (Discord excepted); runs of a conversation do not overlap; no call
  goes in circles or leaves with a lock, and every call returns.
* leases: no two owners; two connections only after a lease without a renewal; in
  the end one connection, and not none.
* requests: what was acknowledged with 200 is stored; no path loses a connection
  or keeps a lock; requests are answered and calls of the agent end.
* limits: what a window lets through, and what that means for a minute; what is
  dropped was over the limit.
* sends: a reply is aimed at its conversation, posted once but for lost answers,
  taken in queue order, recorded only if it was posted, and settled in the end.
* issues: one open issue per bug; every report counted once; what was closed is
  not opened again.

`PROJECT.json` lists the hazards line by line with the properties that watch
them, and those that no property watches, with the reason.

## The modules

### RunLedger and AgentRun: the reply agent

`RunLedger` is the promise: a message is claimed at most once, replies are made
only on behalf of the claimant while its run is open, a closed run stays as it
is. (A claim may be an *orphan*: the row was inserted, its caller never heard.)

`AgentRun` is the code. One call of `ProcessSync` is a `p \in Call` with a place
`pc[p]`, locals `loc[p]`, and a context that may be done, `ctxDone[p]`. The
tables are `rows` (messages, as committed, with the time their transaction
began) and `run` (the status column of `agent_runs`); `lock` is the session that
holds an advisory lock. `owner` and `sends` are history: which call was told
that it started a run, and how many replies of a call the channel took.

| Action | Code |
|---|---|
| `Arrive`, `Commit` | `Store.Receive`, seen from here: `created_at` is the time of BEGIN, the row is visible after COMMIT |
| `Begin` | a handler calls `ProcessAsync`, for each delivery, duplicates too |
| `AcquireLock`, `LockFails`, `Unlock` | `WithConversationLock` |
| `StartRun`, `AlreadyStarted`, `StartRunFails` | `StartAgentRun` and the branch on `AlreadyStarted` |
| `ListMessages` | the read, `eligibleInbound`, the ping |
| `CallModel`, `StepFails` | one turn of the loop over steps |
| `RunTool` | `executeTool` on the first function call left |
| `ProviderAccepts`, `ProviderFails`, `Record`, `RecordFails` | `toolSend` on Twilio and the web |
| `Enqueue`, `EnqueueFails`, `NoRuntime`, `DeliverJob` | `toolSend` on Discord and the send loop |
| `Finish` | `completeRun`: its own failure is only logged |
| `ContextDone`, `Die`, `LoseSession` | the environment |

What follows `toolSend` depends on who called it; `SendOk` and `SendFailed` say
how: a pong that fails is followed by the model, an unavailable provider counts
as success for the run, other errors fail the run.

Kept apart in the model because the code keeps them apart: the provider taking
a reply and the row being written. A failing action may have had its effect.

### ShardLease: the election on a shard

The row (`owner`, `left`: time to expiry) and, per instance, the reconciler's
place, the session, the host's state, the timers. `Owned`, `NotOwned` and
`RenewFails` are `AcquireOrRenewDiscordShard` as `reconcileShards` calls it,
`Open` and `Close` what follows; `Start`, `StartFails`, `Started`, `GiveUp`,
`Stop`, `Stopped` are `Runtime.Start` and `Runtime.Stop` under
`App.StartDiscord` and `App.StopDiscord`. `StartFails` is an early return of
`Start`, before its loops. `Cut` is the end of the context that `StartDiscord`
was given, without `StopDiscord`: the loops leave, the session stays. Time is
what is left of every interval, counted down by `Tick`, so no clock grows. Time
passes while somebody has something to do only `MaxPauses` times (and crashes
and pauses are at most `MaxFaults`): these ticks stand for stopped processes,
slow statements and slow gateways. Three variables are history: `held[i]`, how
long the lease lasts that `i` was told of; `missed[i]`, the renewals in a row that failed while `i`
was connected; and `overdue[i]`, the ticks since `i` was last told of the lease
that passed while its reconciler was late, or had left.

### Mailbox and Store: the message store

`Mailbox` is the promise, without tables: a message is taken at once or not at
all, never two with one provider id, one thread per key, and a duplicate is
told of the message it duplicates. A caller may hear of a failure although its
message was taken.

`Store` runs `Receive` and `RecordOutbound` statement by statement. A call has
one transaction (`state`, `tx`); the tables are what committed transactions
inserted, so `Conversations` and `Messages` are operators, not variables. An
INSERT waits for an open transaction with its key (`ConversationPending`,
`MessagePending`), an UPDATE for one that holds the row (`RowLocked`). A
constraint violation aborts the transaction; the statement after it fails. This
makes visible what the code looks like it handles and does not: the SELECT in
`getOrCreateConversation` after a unique violation runs in an aborted
transaction, and so does the COMMIT after the foreign-key error that
`linkParticipant` drops. `Refind` is the lookup after a duplicate provider id,
which the code does outside the transaction and which works.

Read from the code and taken as it is: `created_at` is read as text into a
time, as the integration tests do; the provider id is looked up untrimmed and
inserted trimmed (one `Pid` here); `last_message_at` is the time of the
transaction that updated the row last, so it may go back.

### Requests: handlers, pool and contexts

Store and AgentRun take connections and contexts for granted; `Requests` is
about these and keeps of the two only what needs them. A request `r` has a
handler, `place[r]`, and perhaps a call of the agent, `agent[r]`. `busy` holds
the requests that keep a connection; a statement that keeps none needs `Free`.
`reply` holds those whose call keeps a second one, for the transaction of
`RecordOutbound`. `met[r]` is history: the requests that were handled while `r`
was.

| Action | Code |
|---|---|
| `Accept`, `Reject` | the checks of `Web` and `twilioInboundHandler` |
| `Resolve`, `Find`, `Begin`, `Insert`, `Commit`, `Refind` | `ResolveBySourceIdentity` and `Receive`, as far as connections go |
| `Fails` | status 500, and the deferred Rollback |
| `Ack`, `AckOnly`, `Answer`, `Return` | `ProcessAsync` and 200, or `ProcessSync`, or no agent; the handler returns and its context ends |
| `Hangup`, `Timeout` | the client leaves; `Config.Timeout` of a call |
| `Connect`, `Lock`, `Start`, `Work`, `Close`, `Unlock` | `WithConversationLock` around a run |
| `BeginReply`, `CommitReply`, `LookupReply` | `RecordOutbound`: its transaction, and the lookup after a duplicate, through the pool |
| `AgentFails` | an error, or the context, ends a wait or a statement |

`ended[r]` is the context of the request, which the call of the agent inherits;
`late[r]` the timeout of that call. A COMMIT or the INSERT of a run may have
taken effect although it failed.

### Outbox and DiscordMessages: events in, replies out

`Outbox` is the promise of the send queue: accepted replies are taken one at a
time and in order, the transcript shows a reply only if Discord has it, and
nothing happens to a reply once it was given up or left behind.

`DiscordMessages` has a goroutine per event (`place[h]`), the two limiters
(`bucket[k]`, a window and its count), the rows of inbound messages in the order
of their `created_at` (`begun`, `rows`), the send queue and the send loop
(`job`), and the host. `Accepted` and `ConversationKey` are the normaliser.
`at[h]` is the time a handler read before it reached the mutex of a limiter;
`Tick` waits for no handler, so it may reach the mutex any number of ticks later.
`EnqueueFails` is the end of the call's context, by its timeout or a stop, or a
runtime that is not there.
`ReadTarget` is `LatestDiscordReplyTarget`; `SendOk`, `SendFails` and `Backoff`
are the attempts of `processSendJob`, with the second post of a direct message;
`Exit` and `TakeJob` are both possible when the context is done and the queue is
not empty, as in the code's `select`. `passed` (who passed which limit in which
window), `posted` and `lost` are history. The agent is reduced to one reply for
a message, which `AgentRun` refines in other respects.

### Issues: reports of bugs

`Issues` has the rows of `agent_issues`, named by the report that inserted them,
and a place for each report. One action is the INSERT with its ON CONFLICT
clause, which is atomic thanks to the partial unique index; where the database
cannot infer that index (error 42P10) a SELECT and an UPDATE follow, and issues
are closed and counted in between. `infers` may turn false at any time: the
database is moved. `counted` is history: the issue a report counts in, whether
or not it was told.

### Configuration modules

`MCAgentRun`, `MCStore`, `MCRequests`, `MCDiscordMessages` and `MCIssues` give
the instances for TLC their constants; the cfg files choose among them.
`ShardLease` needs no such module. The definitions marked `mutant` in the
modules are wrong variants of the definition next to them, which no
specification uses: each shows that a property notices a plausible bug.

## The runs

`x` marks runs that end in a counterexample: the property is what a line of the
repository says, and the code does otherwise.

| Run | Shows |
|---|---|
| `agent_safe` | on Twilio, the web and Discord, with a ping and sessions that lose the lock: `RunInv`, `SingleSender`, `OutboundBacked`, `AckedReplyStored`, `SkipJustified`, `NoLockLeaks`, `ClosedRunsStay`, `CallsWindDown`, `ImplementsLedger` |
| `agent_live` | on Discord with a queue of one place: `ConversationSerial`, `EveryCallReturns` |
| `agent_skip` x | `SkippedSuperseded`: a message that arrived during a run is skipped because the reply of that run is newer |
| `lease_safe` | with failures, stops, restarts, contexts that end, a crash or a pause, and fairness: `LeaseInv`, `LeaseExclusive`, `OverlapNeedsMisses`, `OverlapEnds`, `SomeoneConnects` |
| `lease_none` x | `StarterServed`: after a crash the replacement gives up before the lease expires |
| `store_safe` | `StoreInv`, `AnswersAgree`, `UserLinked`, `NoCircularWait`, `ImplementsMailbox`, `EveryReceiveReturns` |
| `store_race` x | `DuplicateDeduped`: of two overlapping first deliveries one gets an error |
| `requests_pool` | with pools of one to three connections, failures, hangups and deadlines: `RequestInv`, `AckedStored`, `JamNeedsMore`, `RequestsAnswered`, `AgentCallsEnd` |
| `requests_ack` x | `AckedAnswered`: a webhook is answered with 200 and no run is ever started for its message |
| `discord_all` | with handlers late at the mutex, lost answers and stops: `MessageInv`, `TargetFits`, `DuplicatesLost`, `WindowCap`, `NothingAfterStop`, `ImplementsOutbox`, `EveryReplySettled`, `StopReturns` |
| `discord_cap` x | `CapPerMinute` with four events of one author: a minute sees more messages than the cap |
| `issues_all` | `IssueInv`, `OneOpen`, `ReportsCounted`, `CountsTold`, `ClosedStays` |

Deadlock is not checked: a system whose deliveries were all handled has nothing
left to do. What must not stop is stated by the liveness properties.

### Bounds, and why they are enough

* Agent: one conversation, two messages, two calls. Two calls are two
  deliveries of one message, or the runs of two messages that compete for the
  lock; both the repetition and the race with a newer message occur. The model
  is asked up to two times (`agent_safe`) with at most one function call in a
  response, so a second step, the limit of steps and a send before the last
  text all occur. The queue has one place, so it is full while a second call
  waits. Two conversations share nothing but the queue and the pool, and the
  theorems hold for any number of them. A conversation has one channel; the
  initial states of `agent_safe` differ in it. Email behaves like SMS.
* Leases: two instances; stops and starts are not bounded, and one thing more
  may happen, a crash or a tick in which a step was due (`MaxFaults` is one). The
  lease of `lease_safe` lasts 3 units and is renewed every 2, so that renewals do
  not divide the lease and a miss weighs more than a tick. Overlaps follow a miss
  or a cut; a single late tick must not lead to one, as the interval and the tick
  are just `TTL`. `Start` waits for no tick there, so it gives up wherever its
  first pass has not connected. In `lease_none` a unit is 15 s, the default renewal; the lease lasts 3 (45 s),
  `Start` waits 2 (30 s). The theorems hold for every lease, interval and bound.
* Store: three calls, two keys, one provider id (or none), a known and an
  unknown user, and a reply recorded under the same id as a message, since the
  index does not tell directions apart. Three calls are the least in which one
  waits for the key of another that waits for the id of a third, and in which
  two meet in a conversation that a third committed before.
* Requests: two requests, for one webhook's message (a delivery and its retry),
  for one of the web, or for both. One connection is too few for any call of the
  agent, with two a call can go on, or both are kept by calls that need a third;
  with one, a lookup in a transaction jams the pool; with three nobody waits for
  a connection but to record a reply. Or three requests and two connections
  without an agent: the pool may be jammed by two lookups, and has served more
  requests than it has connections while it is not. `requests_ack` needs none of
  this: it has connections enough, no failures, no hangups and no deadlines.
* Discord: three handlers; two messages of one author and two of one channel, so
  that a replayed event, a direct message and a reply redirected to another
  author occur. A configuration has limits, two messages of an author and one of
  a guild, and no agent (three events; the window is two ticks, the clock goes up
  to two: windows end, and a handler is late by a window), or an agent and no
  limits (two events, stops): what comes in and what goes out share only the
  rows. `discord_cap` has the limits alone, with four handlers and events of one
  author: one opens a window, one passes late in it, and two in the next exceed
  the cap of two within a minute. The queue has one place, for the full queue. Attempts are three,
  as in the code.
* Issues: four reports, two hashes, three texts of which two fold to one hash.
  Four reports are the least for two that took the fallback against two that did
  not.
* Symmetry: calls in `agent_safe`, reports and conversations in `issues_all`;
  both check safety only, and the configuration does not tell these apart.

### Fairness

* `AgentRun`: `WF(Step(p))` for every call, `WF(DeliverJob)`. The Go scheduler
  runs every goroutine; a statement or a request ends with an answer or an
  error, which are both disjuncts of `Step`. Nothing is assumed of deadlines,
  crashes or `NoRuntime`, nor of a lock that fails before the context is done,
  so calls return without them. A call that waits for
  the lock returns because each call before it does, and because a call once
  started is not started again: the number of waiters is finite.
* `ShardLease`: weak fairness of the goroutines, strong fairness of time, of a
  statement's success and of the connection: these may fail again and again but
  not for ever, for an error or because the context ends too early, and a host
  cannot start and stop for ever within one instant. `StartDiscord` is called
  again if the run says so (`Retry`), and a host that ended the context of
  `StartDiscord` calls `StopDiscord` sooner or later, which the example in
  `README.md:65` defers. No host need ever stop or end a context otherwise.
* `Store`: `WF(Step(p))`; failures are left out of fairness.
* `Requests`: weak fairness of the handler and of the call of the agent, where
  an error is a step they must take only once their context is done; and of the
  timer of a call, which `context.WithTimeout` always sets. That a connection is
  free again and again is not assumed: a waiting call may starve until its
  deadline. Clients need not leave.
* `DiscordMessages`: weak fairness of the send loop, of `EnqueueReply` and of
  the end of `Stop`. `EnqueueReply` must fail only if there is no runtime or it
  was stopped: that replies are settled needs no timeout. Handlers, clock and
  host owe nothing.
* `Issues`: none; its properties are safety.

## What is proved

TLAPS proves these for every value of the constants that the modules' `ASSUME`s
allow: any number of messages, calls, instances and conversations. Every safety
invariant and every action property that a passing run checks is among them, and
so are the three refinements. The proofs are in `AgentRunProofs`,
`AgentReplyProofs`, `ShardLeaseProofs`, `StoreProofs`, `RequestsProofs`,
`DiscordMessagesProofs` and `IssuesProofs`. The invariants `RunInv`, `LeaseInv`,
`StoreInv`, `RequestInv`, `MessageInv` and `IssueInv` are inductive, and TLC checks
each of them; `AnswerStored` and `DropJustified` are parts of two of them.

| Theorem | Statement |
|---|---|
| `RunInvariant` | `Spec => []RunInv`, from `OwnInvariant`, `ReplyInvariant` and `TurnsFitHolds` |
| `SingleSenderHolds` | no message is answered by two calls |
| `ClosedRunsStayHolds` | a closed run keeps its status and sends nothing more |
| `LedgerImplemented` | `AgentRun` implements `RunLedger` |
| `ConversationSerialHolds` | runs of a conversation do not overlap, given `SessionLoss = FALSE` |
| `NoLockLeaksHolds` | a lock is kept only by a call inside the callback of its conversation |
| `CallsWindDownHolds` | every step of a call brings its end nearer |
| `OutboundBackedHolds`, `AckedReplyStoredHolds` | the transcript against the replies given out |
| `SkipJustifiedHolds` | a skipped message has a newer row |
| `LeaseInvariant`, `LeaseExclusiveHolds` | two instances never hold the lease at once |
| `OverlapNeedsMissesHolds` | two are connected only after one spent more than a lease without a renewal |
| `StoreInvariant` | `Spec => []StoreInv` |
| `AnswerStoredHolds` | an answer names a committed row of the right id and key |
| `AnswersAgreeHolds` | answers about one provider id name one row |
| `UserLinkedHolds` | the user of a stored message is a participant |
| `NoCircularWaitHolds` | transactions never wait in a circle |
| `MailboxImplemented` | `Store` implements `Mailbox` |
| `RequestInvariant` | `Spec => []RequestInv`: connections and locks taken are those in use |
| `AckedStoredHolds` | who was told 200 has their message stored |
| `JamNeedsMoreHolds` | who is in a jam was handled together with as many others as there are connections |
| `MessageInvariant` | `Spec => []MessageInv` |
| `WindowCapHolds`, `DropJustifiedHolds` | what the windows of a minute let through; drops are justified |
| `TargetFitsHolds`, `DuplicatesLostHolds` | where replies go and how often |
| `NothingAfterStopHolds` | nothing is posted or recorded once Stop has returned |
| `OutboxImplemented` | `DiscordMessages` implements `Outbox` |
| `IssueInvariant` | `Spec => []IssueInv` |
| `OneOpenHolds`, `ReportsCountedHolds`, `CountsToldHolds`, `ClosedStaysHolds` | issues and their counts |

**The agent.** `SingleSender` is not inductive: nothing in it says that only the
call that inserted the row works on it. `OwnInv` adds that: a call between
`StartAgentRun` and `CompleteAgentRun` owns its run, which is open
(`WorkersOwn`); owners were asked for that message (`OwnersAsked`); only owners
have sent (`SendersOwn`). The lock does not occur in it: one answer per message
rests on the unique index alone, so it survives lost sessions. `LocalsFit` says
that the list of function calls is not empty where the code takes its head.
The steps of the body of `ProcessSync` are proved alike from one lemma
(`BodyStep`), those around it one by one. The refinement maps each step to a
step of the ledger or a stutter by what it does to `run`, `owner` and `sends`
(`LedgerStep`); `ClosedRunsStay` follows from the same case split.
`ConversationSerial` has an invariant of its own: a call in the callback is the
one in `lock` of its conversation. It holds only while Postgres keeps sessions,
and the assumption says so. `NoLockLeaks` is the converse, needs no such
assumption, and is inductive with `OwnInv`.

**Calls end.** `EveryCallReturns` needs fairness and stays with TLC; what it
needs of the code is proved. `StepsLeft` bounds the steps a call can still make:
a turn of the loop is worth more than its longest response, a tool more than the
send and the record it may take. Every step lowers it (`Lands`), whichever of
the outcomes of `toolSend` and of the tools it has. The bound is a natural
number only because the loop is entered with a turn left, which for the turn
after a failed pong has to be carried through `toolSend`: that is `TurnsFit`,
which also says that no run asks the model more than `MaxSteps` times.

**The transcript** (`ReplyInv`). `OutboundBacked` counts rows and queued jobs against replies
given out. It is not inductive: between the provider's answer and the row a
reply is counted in neither, so `RepliesCounted` adds that debt (`Unrecorded`),
which `Record` turns into a row and `RecordFails` writes off. On the web there
is no debt, as storing is sending. It also needs that a row is never counted for
two replies: `OutboundRow` carries a time later than every row (`RowsDated`).
`AckedReplyStored` is carried by `RepliesStored` from `Record` to the end of the
call. For `SkipJustified`, `SkipsExplained` keeps the newer row that
`ListMessages` saw until the run is closed, since rows are never deleted and the
time of a message that was asked for is final.

**The lease.** `LeaseKept`: as long as an instance may count on the lease, the
row names it and lasts at least as long. Each step either leaves both, or
shortens both by one tick, or sets both to `TTL`. Exclusion of owners needs
nothing else; the session is tied to it by `LeaseSpent`. Since an instance that
is connected was last told that it owns the shard, `TTL - held` has passed. Each
interval between renewals but the current one was a miss, and in what is beyond
these intervals its reconciler was late; so what has passed is at most
`RenewEvery` for each miss and for the current interval, and `overdue`. While
that sum is no more than `TTL` the lease is not used up, so it is held, and it
cannot be held twice. Both counts are of one instance and of the time since it
was last told, and all is in units of time, so nothing that happened before or
elsewhere weakens the statement. `PhasesFit` says where the reconciler is while there is a session.

**The store.** `OneInserter`: among transactions that are open or committed, one
at most inserted a given conversation key, and one a given provider id. An
INSERT is guarded by "nobody committed it" and "nobody open has it", which is
this invariant for the step that adds a row. `ConversationKnown` ties the
conversation of a transaction to a committed one or its own, `PlacesFit` ties
the place of a call to the state of its transaction, and `Fits` says what an
open transaction has done at each place, so that a COMMIT with a user has linked
it (`UserLinked`). From these every answer
names a committed row of the right id in a conversation of the right key, and a
step refines one of `Mailbox`: COMMIT maps to `Put`, the lookups to `Duplicate`,
errors to `Refuse`, all other statements to stutters. `NoCircularWait` is about
every set of calls, not about pairs: a call that waits at one statement waits
for one that has passed it, as keys, ids and rows are taken in one order
(`WaitsForward`), so of any set one that is furthest waits for none of it.

**Requests.** `PoolFits` equates the sets `busy` and `reply` with the requests
whose place keeps a connection, or two, and bounds both together by the pool; a
step that takes one has seen `Free`. For `JamNeedsMore`, `Met` says that whoever
is being handled has met all others that are, and `Brought` that a lookup after
a duplicate has met the request that stored the message, which has left its
transaction. When every connection is kept by such a lookup, each has met the
others in the jam and that one.

**Discord messages.** A handler passes each limit once (`PassOnce`), so each
window has at most its maximum (`WindowsKept`: the count is the number of those
who passed in it). Windows of a key do not overlap, and a message was read before
its window ended (`WindowsApart`). So only one window begins within any minute,
and the messages of a minute that came after their window began belong to that
one or to one that began before the minute (`WindowCap`). A message that is older
than its window belongs to any later one: nothing in the code bounds how long its
handler is kept from the mutex, so for caps above one no multiple of the cap
bounds a minute.
`TargetFits` rests on `RowsFit`: what was answered is stored, and
the rows have an order. `JobFits` counts posts against lost answers place by
place, which bounds both; `QueueFits` says that a reply is in one place only,
queued or being sent, which is also what the refinement of `Outbox` needs for
`Finish`. `NothingAfterStop` needs one fact more, `LoopLeft`: Stop has returned only if
the send loop has left, and it does not come back.

**Issues.** `Fits` ties the SELECT of a report to a row that exists, of its
hash, whose count has not gone down since; from it and the guard of the
INSERT the counts follow for each of the statements, and `ClosedStays` from the
same split into cases.

### Only model-checked

Liveness (`EveryCallReturns`, `EveryReceiveReturns`, `OverlapEnds`,
`SomeoneConnects`, `RequestsAnswered`, `AgentCallsEnd`, `EveryReplySettled`,
`StopReturns`): fairness and ENABLED are beyond this prover. So is induction
over data. The five properties of the runs marked x are false and have no
theorem.

## What the code does that a reader may not expect

The runs marked x are the findings in `PROJECT.json`. `AtMostOneConnected` has no
run: `config.go:32` promises "exactly one instance connected to the Discord
gateway", and when an instance's renewals fail while it stays connected, another
connects beside it (`runtime.go:253`). `OverlapNeedsMisses` and `OverlapEnds`
say when that can happen and that it passes.

Further behaviour, modelled and left as it is because no line of the repository
says otherwise:

* A run whose context ended cannot be closed: `completeRun` uses that context.
  The row stays `running`, and a redelivery is deduplicated against it.
* A crash after the INSERT into `agent_runs` has the same effect.
* A pong that was sent but not recorded is followed by an answer of the model.
* If the id of a user is not in `profiles.users`, the foreign-key error of
  `linkParticipant` is dropped but has aborted the transaction; `Receive`
  returns the error of COMMIT and the message is not stored.
* On Discord "queued" counts as sent. A reply is lost if its job is given up,
  or the instance stops, after the run was closed as completed. What is in the
  queue when the send loop leaves stays there, and `EnqueueReply` still adds to
  it until `StopDiscord` has returned.
* A message dropped by the limit of its guild has used the quota of its user.
* A pool that only lookups in aborted transactions use stays jammed: a handler
  has no deadline. Calls of the agent that keep all connections, on the other
  hand, end by their timeout.
* Where the partial index cannot be inferred, no issue is ever inserted, an
  answer may tell a count that others were told, and a closed issue is counted
  in if it was closed after the SELECT.

## Left to do, in this order

1. **Proofs.** What the other liveness properties need of the code, as
   `CallsWindDown` states it for `EveryCallReturns`: that `Receive` and the send
   loop go through their statements and attempts once, and that a handler of
   `Requests` never turns back.
2. **The host.** `StartDiscord` and `StopDiscord` called at once, which share
   `App.discordRuntime` without a lock.
3. **Locks.** Two conversations whose ids share their first eight bytes have one
   advisory lock; a call never holds two, so nothing but waiting follows.

## Not modelled

* Code without state whose outcomes are choices of the models: the Responses
  client, Twilio's normaliser, sender and verifier, parsing of the web form, the
  classifier's table, the SQL of the user resolver.
* `UpsertUserMemory`: one atomic statement on a table nothing reads. It is the
  tool "store" of `AgentRun`.
* `intervalString`, which drops the fraction of a second of a configured TTL:
  `TTL` is what remains.
* Wording and truncation of bodies, the traces kept in `agent_runs`, the events
  of a stream, the ways to write a mention.
* The memory a limiter keeps: its map never loses a bucket, and one whose window
  is over behaves as if it were absent.
* A runtime started again after a stop is a new one with limits and a queue of
  its own; `DiscordMessages` follows one to its end, `ShardLease` the leases
  across them.
* The compile-time assertions in `internal/verify`, the migrations as such
  (their tables and constraints appear where they are used), the example host.

Postgres, net/http and Discord are modelled as the code uses them: READ
COMMITTED, unique keys, row locks, advisory locks of sessions; a request's
context that ends with its handler; a gateway that accepts every session.
