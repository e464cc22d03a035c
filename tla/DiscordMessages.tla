-------------------------- MODULE DiscordMessages --------------------------
(***************************************************************************)
(* The messages of the Discord runtime (internal/providers/discord):       *)
(* every event has a handler of its own, which filters it, passes it       *)
(* through the limits per user and per guild, stores it and calls the      *)
(* agent; the agent's reply goes through the send queue to the send loop,  *)
(* which looks for the message to reply to, tries to post and records.     *)
(*                                                                         *)
(* Abstracted: what a message says; the agent gives one reply to a message *)
(* unless its runtime is not there (AgentRun has all it can do); the       *)
(* statements of Receive and RecordOutbound (Store has them); sessions,    *)
(* which only make posting fail (ShardLease has them).                     *)
(***************************************************************************)
EXTENDS Integers, Sequences, FiniteSets

CONSTANTS
    Handler,   \* handlers of events; two for one message are an event replayed
    Msg,       \* messages on Discord, each a record of type MessageCreate
    Author, Guild, Channel, Thread,
    AllowedGuildIDs,
    Configs,   \* limits per user and guild (0: none), is there an agent, and
               \* bounds: how many events, and may the runtime stop?
    Window,    \* ticks in time.Minute
    MaxTime,   \* bound on the clock
    QueueMax,  \* capacity of the send queue: 256 in the code
    Attempts,  \* defaultSendMaxAttempts
    None       \* no message, no guild, no thread

MessageCreate ==
    [id : Nat, author : Author, bot : BOOLEAN, mentioned : BOOLEAN,
     guild : Guild \cup {None}, channel : Channel, thread : Thread \cup {None}]

ASSUME DiscordConstants ==
    /\ IsFiniteSet(Handler)
    /\ Msg \subseteq MessageCreate
    /\ Configs \subseteq
         [user : Nat, guild : Nat, agent : BOOLEAN,
          events : Nat, stops : BOOLEAN]
    /\ {Window, QueueMax, Attempts} \subseteq Nat \ {0}
    /\ MaxTime \in Nat
    /\ None \notin Msg \cup Handler \cup Guild \cup Thread

VARIABLES
    config,
    now,       \* the clock of the process
    place,     \* place[h]: where handler h is
    msg,       \* msg[h]: its message
    at,        \* at[h]: the time it read
    bucket,    \* bucket[k]: the window of key k of a limiter, and its count
    passed,    \* history: who passed which limit, when, in which window
    begun,     \* handlers that inserted a row, by created_at
    rows,      \* those whose row is committed
    reply,     \* reply[m]: how far the agent's reply to m is
    queue,     \* sendQueue, the replies named by what they answer
    job,       \* the send loop and its job
    posted,    \* posted[m]: how often the reply to m is on Discord
    lost,      \* lost[m]: posts of it whose answer was lost
    recorded,  \* replies in the table of messages
    host       \* StartDiscord and StopDiscord

limits == <<now, at, bucket, passed>>
inbound == <<place, msg, begun, rows>>
outbound == <<queue, job, posted, lost, recorded>>
vars == <<config, limits, inbound, reply, outbound, host>>

Keys == ({"user"} \X Author) \cup ({"guild"} \X Guild)
Places == {"idle", "user", "guild", "receive", "commit", "done",
           "overUser", "overGuild"}
Sending == {"send", "second", "record", "backoff"}
JobPlaces == {"idle", "target", "exited"} \cup Sending
Idle == [at |-> "idle", m |-> None, target |-> None, try |-> 0]

\* A bucket that is not in the map: its zero time is long ago.
Unused == [start |-> -Window, count |-> 0]

Init ==
    /\ config \in Configs
    /\ now = 0
    /\ place = [h \in Handler |-> "idle"]
    /\ msg = [h \in Handler |-> None]
    /\ at = [h \in Handler |-> 0]
    /\ bucket = [k \in Keys |-> Unused]
    /\ passed = {}
    /\ begun = <<>>
    /\ rows = {}
    /\ reply = [m \in Msg |-> "none"]
    /\ queue = <<>>
    /\ job = Idle
    /\ posted = [m \in Msg |-> 0]
    /\ lost = [m \in Msg |-> 0]
    /\ recorded = {}
    /\ host = "starting"

\* App.discordRuntime is set when Start has returned, and until Stop has.
Known == host \in {"up", "stopping"}
\* The context of the runtime is cancelled.
Cancelled == host \in {"failing", "stopping", "stopped"}

Goto(h, p) == place' = [place EXCEPT ![h] = p]

-----------------------------------------------------------------------------
(* What comes in.                                                          *)

\* The filter: nobody answers a bot, and in guilds the bot must be meant.
Accepted(m) ==
    /\ ~m.bot
    /\ m.guild # None =>
         /\ AllowedGuildIDs # {} => m.guild \in AllowedGuildIDs
         /\ m.mentioned

ConversationKey(m) ==
    IF m.guild = None THEN <<"dm", m.author>>
    ELSE IF m.thread # None THEN <<m.guild, "thread", m.thread>>
    ELSE <<m.guild, "channel", m.channel>>

\* An event for message m, new or replayed, gets one of the handlers left;
\* config.events bounds them.
Deliver(h, m) ==
    /\ host # "stopped"
    /\ Cardinality({g \in Handler : place[g] # "idle"}) < config.events
    /\ place[h] = "idle"
    /\ h = CHOOSE g \in Handler : place[g] = "idle"
    /\ Accepted(m)
    /\ Goto(h, "user")
    /\ msg' = [msg EXCEPT ![h] = m]
    /\ at' = [at EXCEPT ![h] = now]
    /\ UNCHANGED <<config, now, bucket, passed, begun, rows, reply>>
    /\ UNCHANGED <<outbound, host>>

Max(k) == IF k[1] = "user" THEN config.user ELSE config.guild

\* mutant: a window that is over keeps its count.
OldCount(k, t) ==
    IF t - bucket[k].start >= Window
    THEN [bucket[k] EXCEPT !.start = t] ELSE bucket[k]

\* mutant: a window ends with its first instant.
FreshStart(k, t) ==
    IF t # bucket[k].start THEN [start |-> t, count |-> 0] ELSE bucket[k]

\* The window that a message of time t belongs to.
Opened(k, t) ==
    IF t - bucket[k].start >= Window
    THEN [start |-> t, count |-> 0] ELSE bucket[k]

Allowed(k, t) == Max(k) = 0 \/ Opened(k, t).count < Max(k)

\* slidingCounter.Allow for handler h: true.
Pass(h, k) ==
    /\ Allowed(k, at[h])
    /\ LET b == Opened(k, at[h]) IN
         IF Max(k) = 0 THEN UNCHANGED <<bucket, passed>>
         ELSE /\ bucket' = [bucket EXCEPT ![k] = [b EXCEPT !.count = @ + 1]]
              /\ passed' = passed \cup
                   {[key |-> k, by |-> h, read |-> at[h], start |-> b.start]}

\* slidingCounter.Allow for handler h: false.
Refuse(h, k) ==
    /\ ~Allowed(k, at[h])
    /\ bucket' = [bucket EXCEPT ![k] = Opened(k, at[h])]
    /\ UNCHANGED passed

UserKey(h) == <<"user", msg[h].author>>
GuildKey(h) == <<"guild", msg[h].guild>>

CountUser(h) ==
    /\ place[h] = "user"
    /\ \/ /\ Pass(h, UserKey(h))
          /\ Goto(h, IF msg[h].guild = None THEN "receive" ELSE "guild")
       \/ Refuse(h, UserKey(h)) /\ Goto(h, "overUser")
    /\ UNCHANGED <<config, now, at, msg, begun, rows, reply, outbound, host>>

\* The quota of the user is spent whatever the limit of the guild says.
CountGuild(h) ==
    /\ place[h] = "guild"
    /\ \/ Pass(h, GuildKey(h)) /\ Goto(h, "receive")
       \/ Refuse(h, GuildKey(h)) /\ Goto(h, "overGuild")
    /\ UNCHANGED <<config, now, at, msg, begun, rows, reply, outbound, host>>

Stored(m) == \E h \in rows : msg[h] = m

\* OnInboundPersisted: ProcessAsync, also for a message that was stored
\* before; a run is started once for a message.
Callback(h) ==
    /\ Goto(h, "done")
    /\ reply' = IF config.agent /\ reply[msg[h]] = "none"
                THEN [reply EXCEPT ![msg[h]] = "asked"] ELSE reply

\* Receive: the lookup, and an INSERT in a transaction that began now.
BeginReceive(h) ==
    /\ place[h] = "receive"
    /\ ~Cancelled
    /\ \/ Stored(msg[h]) /\ Callback(h) /\ UNCHANGED begun
       \/ /\ ~Stored(msg[h])
          /\ Goto(h, "commit")
          /\ begun' = Append(begun, h)
          /\ UNCHANGED reply
    /\ UNCHANGED <<config, limits, msg, rows, outbound, host>>

\* COMMIT, or the lookup after the INSERT met the row of another handler.
CommitReceive(h) ==
    /\ place[h] = "commit"
    /\ ~Cancelled
    /\ rows' = IF Stored(msg[h]) THEN rows ELSE rows \cup {h}
    /\ Callback(h)
    /\ UNCHANGED <<config, limits, msg, begun, outbound, host>>

\* An error of Receive, as when the context is cancelled: the message is
\* dropped, though a COMMIT may have taken effect.
ReceiveFails(h) ==
    /\ place[h] \in {"receive", "commit"}
    /\ Goto(h, "done")
    /\ \/ UNCHANGED rows
       \/ /\ place[h] = "commit" /\ ~Stored(msg[h])
          /\ rows' = rows \cup {h}
    /\ UNCHANGED <<config, limits, msg, begun, reply, outbound, host>>

\* The clock, which waits for nobody: a handler that has read it may be kept
\* from the mutex of the limiter for as long as the scheduler likes.
Tick ==
    /\ config.user + config.guild > 0 /\ now < MaxTime
    /\ now' = now + 1
    /\ UNCHANGED <<config, at, bucket, passed, inbound, reply, outbound, host>>

-----------------------------------------------------------------------------
(* What goes out.                                                          *)

\* EnqueueReply, even after a stop: select takes whichever case is ready.
Enqueue(m) ==
    /\ reply[m] = "asked"
    /\ Known /\ Len(queue) < QueueMax
    /\ reply' = [reply EXCEPT ![m] = "queued"]
    /\ queue' = Append(queue, m)
    /\ UNCHANGED <<config, limits, inbound, job, posted, lost, recorded, host>>

\* The context of the call ends, by its timeout or by a stop, or there is no
\* runtime.
EnqueueFails(m) ==
    /\ reply[m] = "asked"
    /\ reply' = [reply EXCEPT ![m] = "failed"]
    /\ UNCHANGED <<config, limits, inbound, outbound, host>>

\* What the send loop leaves alone.
others == <<config, limits, inbound, reply, host>>
JobAt(p) == job' = [job EXCEPT !.at = p]

\* Both cases of the select of the send loop may be ready.
TakeJob ==
    /\ job.at = "idle" /\ queue # <<>>
    /\ job' = [Idle EXCEPT !.at = "target", !.m = Head(queue)]
    /\ queue' = Tail(queue)
    /\ UNCHANGED <<others, posted, lost, recorded>>

Exit ==
    /\ job.at = "idle" /\ Cancelled
    /\ JobAt("exited")
    /\ UNCHANGED <<others, queue, posted, lost, recorded>>

Before(g, h) ==
    \E i, j \in DOMAIN begun : i <= j /\ begun[i] = g /\ begun[j] = h

InConversation(h, m) == ConversationKey(msg[h]) = ConversationKey(m)

\* mutant: ORDER BY created_at without DESC.
Oldest(h, m) ==
    /\ h \in rows /\ InConversation(h, m)
    /\ \A g \in rows : InConversation(g, m) => Before(h, g)

\* The row of h is the latest inbound one in the conversation of m.
Latest(h, m) ==
    /\ h \in rows /\ InConversation(h, m)
    /\ \A g \in rows : InConversation(g, m) => Before(g, h)

\* LatestDiscordReplyTarget.
ReadTarget ==
    /\ job.at = "target" /\ ~Cancelled
    /\ \E h \in Handler :
         /\ Latest(h, job.m)
         /\ job' = [job EXCEPT !.at = "send", !.target = msg[h], !.try = 1]
    /\ UNCHANGED <<others, queue, posted, lost, recorded>>

\* A dead letter.
ReadTargetFails ==
    /\ job.at = "target"
    /\ job' = Idle
    /\ UNCHANGED <<others, queue, posted, lost, recorded>>

\* mutant: no break after a successful send.
SendOn ==
    /\ job.at \in {"send", "second"}
    /\ posted' = [posted EXCEPT ![job.m] = @ + 1]
    /\ JobAt(IF job.try < Attempts THEN "backoff" ELSE "record")
    /\ UNCHANGED <<others, queue, lost, recorded>>

SendOk ==
    /\ job.at \in {"send", "second"}
    /\ posted' = [posted EXCEPT ![job.m] = @ + 1]
    /\ JobAt("record")
    /\ UNCHANGED <<others, queue, lost, recorded>>

\* No session, or no answer from Discord, which may have taken the post.  A
\* direct message is posted a second time, to a channel created anew.
SendFails ==
    /\ job.at \in {"send", "second"}
    /\ \/ UNCHANGED <<posted, lost>>
       \/ /\ posted' = [posted EXCEPT ![job.m] = @ + 1]
          /\ lost' = [lost EXCEPT ![job.m] = @ + 1]
    /\ \/ JobAt("backoff")
       \/ /\ job.at = "send" /\ job.target.guild = None
          /\ JobAt("second")
    /\ UNCHANGED <<others, queue, recorded>>

\* mutant: the attempts are never used up.
TryForEver ==
    /\ job.at = "backoff"
    /\ job' = IF Cancelled THEN Idle ELSE [job EXCEPT !.at = "send"]
    /\ UNCHANGED <<others, queue, posted, lost, recorded>>

\* mutant: what was not sent is recorded as well.
RecordDeadLetter ==
    /\ job.at = "backoff"
    /\ \/ /\ job.try < Attempts
          /\ job' = [job EXCEPT !.at = "send", !.try = @ + 1]
          /\ UNCHANGED recorded
       \/ /\ job.try = Attempts
          /\ recorded' = recorded \cup {job.m}
          /\ job' = Idle
    /\ UNCHANGED <<others, queue, posted, lost>>

\* The next attempt, or a dead letter, after the last attempt or a stop.
Backoff ==
    /\ job.at = "backoff"
    /\ \/ /\ job.try < Attempts
          /\ job' = [job EXCEPT !.at = "send", !.try = @ + 1]
       \/ /\ job.try = Attempts \/ Cancelled
          /\ job' = Idle
    /\ UNCHANGED <<others, queue, posted, lost, recorded>>

Record ==
    /\ job.at = "record" /\ ~Cancelled
    /\ recorded' = recorded \cup {job.m}
    /\ job' = Idle
    /\ UNCHANGED <<others, queue, posted, lost>>

\* Only logged; the COMMIT may have taken effect.
RecordFails ==
    /\ job.at = "record"
    /\ recorded' \in {recorded, recorded \cup {job.m}}
    /\ job' = Idle
    /\ UNCHANGED <<others, queue, posted, lost>>

SendLoop ==
    \/ TakeJob \/ Exit \/ ReadTarget \/ ReadTargetFails
    \/ SendOk \/ SendFails \/ Backoff \/ Record \/ RecordFails

-----------------------------------------------------------------------------
(* The host.                                                               *)

Become(from, to) ==
    /\ host = from /\ host' = to
    /\ UNCHANGED <<config, limits, inbound, reply, outbound>>

\* Start found shard 0, or gave up and stops what it started.
Started == Become("starting", "up")
GiveUp == config.stops /\ Become("starting", "failing")
Stop == config.stops /\ Become("up", "stopping")

\* mutant: Stop does not wait for its goroutines.
StopAtOnce == Become("stopping", "stopped") \/ Become("failing", "stopped")

\* mutant: Stop waits for an empty queue as well.
StopDrained ==
    /\ job.at = "exited" /\ queue = <<>>
    /\ Become("stopping", "stopped") \/ Become("failing", "stopped")

\* The wait for the send loop is over.
Stopped ==
    /\ job.at = "exited"
    /\ Become("stopping", "stopped") \/ Become("failing", "stopped")

-----------------------------------------------------------------------------

Handle(h) ==
    \/ \E m \in Msg : Deliver(h, m)
    \/ CountUser(h) \/ CountGuild(h)
    \/ BeginReceive(h) \/ CommitReceive(h) \/ ReceiveFails(h)

Next ==
    \/ \E h \in Handler : Handle(h)
    \/ \E m \in Msg : Enqueue(m) \/ EnqueueFails(m)
    \/ Tick
    \/ SendLoop
    \/ Started \/ GiveUp \/ Stop \/ Stopped

\* The send loop, the calls of the agent and Stop are goroutines that run;
\* requests to Discord end, one way or the other.  A call need not meet its
\* timeout: it fails for certain only when there is no runtime or a stop.
Fairness ==
    /\ WF_vars(SendLoop)
    /\ \A m \in Msg :
         WF_vars(Enqueue(m) \/ ((~Known \/ Cancelled) /\ EnqueueFails(m)))
    /\ WF_vars(Stopped)

Spec == Init /\ [][Next]_vars
FairSpec == Spec /\ Fairness

-----------------------------------------------------------------------------
(* Properties.                                                             *)

PassRecord ==
    [key : Keys, by : Handler, read : 0..MaxTime, start : 0..MaxTime]

LimitTypes ==
    /\ config \in Configs
    /\ now \in 0..MaxTime
    /\ at \in [Handler -> 0..now]
    /\ bucket \in [Keys -> [start : {-Window} \cup 0..now, count : Nat]]
    /\ passed \subseteq PassRecord

InboundTypes ==
    /\ place \in [Handler -> Places]
    /\ msg \in [Handler -> Msg \cup {None}]
    /\ begun \in Seq(Handler)
    /\ rows \subseteq Handler

OutboundTypes ==
    /\ reply \in [Msg -> {"none", "asked", "queued", "failed"}]
    /\ queue \in Seq(Msg)
    /\ job \in [at : JobPlaces, m : Msg \cup {None}, target : Msg \cup {None},
                try : 0..Attempts]
    /\ posted \in [Msg -> Nat]
    /\ lost \in [Msg -> Nat]
    /\ recorded \subseteq Msg
    /\ host \in {"starting", "up", "failing", "stopping", "stopped"}

\* Every variable has its type.
TypeOK == LimitTypes /\ InboundTypes /\ OutboundTypes

\* The messages that passed the limit of key k in the window from s.
InWindow(k, s) == {p \in passed : p.key = k /\ p.start = s}

\* Those of key k that came within Window ticks from t.
Within(k, t) == {p \in passed : p.key = k /\ t <= p.read /\ p.read < t + Window}

\* Whatever the order in which handlers read the clock and reach the mutex,
\* the count of a window is the number of messages that passed in it, and
\* none passes the limit.
WindowsKept ==
    \A k \in Keys :
        /\ bucket[k].count = Cardinality(InWindow(k, bucket[k].start))
        /\ \A p \in passed :
             p.key = k => Cardinality(InWindow(k, p.start)) <= Max(k)

\* Windows of one key do not overlap, and a message came before its window
\* ended; it may have come long before it began.
WindowsApart ==
    /\ \A p \in passed :
         /\ \/ p.start = bucket[p.key].start
            \/ p.start + Window <= bucket[p.key].start
         /\ p.read < p.start + Window
    /\ \A p, q \in passed : p.key = q.key =>
         \/ p.start = q.start
         \/ p.start + Window <= q.start
         \/ q.start + Window <= p.start

\* MaxUserMessagesPerMin and MaxGuildMessagesPerMin cap the handling of
\* messages per user and per guild: no minute sees more of them than the cap.
CapPerMinute ==
    \A k \in Keys : Max(k) > 0 =>
        \A t \in 0..MaxTime : Cardinality(Within(k, t)) <= Max(k)

\* The messages of key k whose window began within Window ticks from t.
BegunWithin(k, t) ==
    {p \in passed : p.key = k /\ t <= p.start /\ p.start < t + Window}

\* What the fixed windows do promise, however long a handler takes from the
\* clock to the mutex: the windows that begin within any minute let through no
\* more than the cap, and of the messages of any minute no more than twice the
\* cap pass but for those whose turn came in a window younger than themselves.
WindowCap ==
    \A k \in Keys : Max(k) > 0 => \A t \in 0..MaxTime :
        /\ Cardinality(BegunWithin(k, t)) <= Max(k)
        /\ Cardinality({p \in Within(k, t) : p.start <= p.read}) <= 2 * Max(k)

\* The limit that dropped the message of handler h.
DroppedBy(h) ==
    IF place[h] = "overUser" THEN {UserKey(h)}
    ELSE IF place[h] = "overGuild" THEN {GuildKey(h)} ELSE {}

\* A message is dropped only if as many as the limit allows were handled in
\* a window that had not ended when it came.
DropJustified ==
    \A h \in Handler : \A k \in DroppedBy(h) : \E s \in 0..MaxTime :
        at[h] < s + Window /\ Cardinality(InWindow(k, s)) = Max(k)

\* What Discord sends in reply is aimed at the conversation that was answered,
\* a direct message at its author, and never at a message older than the one
\* it answers, though the target is read when the reply is sent.
TargetFits ==
    job.at \in Sending =>
        /\ ConversationKey(job.target) = ConversationKey(job.m)
        /\ job.m.guild = None => job.target.author = job.m.author
        /\ \E g, h \in rows :
             msg[g] = job.m /\ msg[h] = job.target /\ Before(g, h)

\* A reply is on Discord once, and once more for every answer of Discord that
\* was lost; three attempts with two posts each bound that.
DuplicatesLost ==
    \A m \in Msg :
        posted[m] <= lost[m] + 1 /\ lost[m] <= 2 * Attempts

\* Why the limits hold: a handler passes each of them once.
PassOnce ==
    /\ IsFiniteSet(passed)
    /\ \A p \in passed :
         /\ place[p.by] \notin {"idle", "user"}
         /\ p.key[1] = "guild" => place[p.by] # "guild"
    /\ \A h \in Handler :
         /\ place[h] # "idle" => msg[h] \in Msg
         /\ place[h] = "guild" => msg[h].guild # None
         /\ place[h] = "overGuild" => msg[h].guild # None

\* Why targets fit: what is answered is stored, in the order of begun.
RowsFit ==
    /\ \A h \in Handler : place[h] = "commit" \/ h \in rows =>
         \E i \in DOMAIN begun : begun[i] = h
    /\ \A h \in rows : place[h] = "done"
    /\ \A m \in Msg : reply[m] # "none" => Stored(m)

\* Why replies are sent once: each is in one place.
JobFits ==
    /\ job.at \in {"idle", "exited"} => job = [Idle EXCEPT !.at = job.at]
    /\ job.at \notin {"idle", "exited"} =>
         job.m \in Msg /\ reply[job.m] = "queued"
    /\ job.at \in Sending => job.target \in Msg /\ job.try > 0
    /\ job.at = "target" => posted[job.m] = 0 /\ lost[job.m] = 0
    /\ job.at \in {"send", "second", "backoff"} => posted[job.m] = lost[job.m]
    /\ job.at = "record" => posted[job.m] = lost[job.m] + 1
    /\ job.at = "send" => lost[job.m] <= 2 * job.try - 2
    /\ job.at = "second" => lost[job.m] <= 2 * job.try - 1
    /\ job.at \in {"backoff", "record"} => lost[job.m] <= 2 * job.try

\* m is neither posted nor being sent.
Fresh(m) == posted[m] = 0 /\ lost[m] = 0 /\ job.m # m

QueueFits ==
    /\ \A m \in Msg : reply[m] # "queued" => Fresh(m)
    /\ \A i \in DOMAIN queue :
         /\ Fresh(queue[i]) /\ reply[queue[i]] = "queued"
         /\ \A j \in DOMAIN queue : queue[i] = queue[j] => i = j

MessageInv ==
    /\ TypeOK /\ PassOnce /\ WindowsKept /\ WindowsApart
    /\ RowsFit /\ JobFits /\ QueueFits
    /\ DropJustified /\ TargetFits /\ DuplicatesLost

\* Nothing is posted once Stop has returned.
NothingAfterStop ==
    [][host = "stopped" => UNCHANGED <<job, posted, recorded>>]_vars

\* The queue and the send loop keep the promise of Outbox.
OutboxView ==
    INSTANCE Outbox WITH
        Reply <- Msg, waiting <- queue, current <- job.m,
        posted <- {m \in Msg : posted[m] > 0}, open <- job.at # "exited"

ImplementsOutbox == OutboxView!Spec

\* A reply the agent asks for is posted, given up or left behind by a stop:
\* a full queue, lost answers and dead letters hold up nobody for ever.
EveryReplySettled ==
    \A m \in Msg : reply[m] = "asked" ~>
        \/ Cancelled
        \/ /\ reply[m] # "asked" /\ job.m # m
           /\ \A i \in DOMAIN queue : queue[i] # m

\* Stop returns, whatever is in the queue and being sent.
StopReturns == Cancelled ~> host = "stopped"
=============================================================================
