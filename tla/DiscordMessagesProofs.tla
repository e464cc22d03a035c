----------------------- MODULE DiscordMessagesProofs -----------------------
(* What the windows of the Discord runtime's limits let through, where     *)
(* replies go and how often they are posted: proofs for any number of      *)
(* messages, authors and guilds, any limits, and any number of attempts.   *)
EXTENDS DiscordMessages, FiniteSetTheorems, SequenceTheorems, TLAPS

USE DiscordConstants

-----------------------------------------------------------------------------
(* Types.                                                                  *)

\* The window that Opened returns is one, and lasts at t.
LEMMA OpenedOK ==
    ASSUME LimitTypes, NEW k \in Keys, NEW t \in 0..now
    PROVE  /\ Opened(k, t).start \in 0..now
           /\ Opened(k, t).count \in Nat
           /\ Opened(k, t) = [start |-> Opened(k, t).start,
                              count |-> Opened(k, t).count]
           /\ t < Opened(k, t).start + Window
  <1>1. now \in Nat /\ Window \in Nat  BY DEF LimitTypes
  <1>2. bucket[k] \in [start : {-Window} \cup 0..now, count : Nat]
    BY DEF LimitTypes
  <1>3. /\ bucket[k].start = -Window \/ bucket[k].start \in 0..now
        /\ bucket[k].count \in Nat
        /\ bucket[k] = [start |-> bucket[k].start, count |-> bucket[k].count]
    BY <1>2
  <1>4. CASE t - bucket[k].start >= Window  BY <1>1, <1>4 DEF Opened
  <1>5. CASE ~(t - bucket[k].start >= Window)
    <2>1. Opened(k, t) = bucket[k]  BY <1>5 DEF Opened
    <2>2. bucket[k].start # -Window  BY <1>1, <1>5
    <2>3. bucket[k].start \in 0..now  BY <1>3, <2>2
    <2>4. t < bucket[k].start + Window  BY <1>1, <1>5, <2>3
    <2> QED  BY <1>3, <2>1, <2>3, <2>4
  <1> QED  BY <1>4, <1>5

LEMMA KeysOK ==
    ASSUME NEW h \in Handler, msg[h] \in Msg
    PROVE  /\ UserKey(h) \in Keys
           /\ msg[h].guild # None => GuildKey(h) \in Keys
  <1>1. msg[h] \in MessageCreate  OBVIOUS
  <1>2. msg[h].author \in Author /\ msg[h].guild \in Guild \cup {None}
    BY <1>1 DEF MessageCreate
  <1> QED  BY <1>2 DEF UserKey, GuildKey, Keys

LEMMA MaxOK == ASSUME LimitTypes, NEW k \in Keys PROVE Max(k) \in Nat
  <1>1. config \in [user : Nat, guild : Nat, agent : BOOLEAN,
                    events : Nat, stops : BOOLEAN]
    BY DEF LimitTypes
  <1> QED  BY <1>1 DEF Max

\* What Allow does to the limiters.
LEMMA AllowType ==
    ASSUME LimitTypes, NEW h \in Handler, NEW k \in Keys, Pass(h, k) \/ Refuse(h, k)
    PROVE  /\ bucket' \in [Keys -> [start : {-Window} \cup 0..now, count : Nat]]
           /\ passed' \subseteq PassRecord
  <1>1. at[h] \in 0..now /\ now \in 0..MaxTime /\ MaxTime \in Nat
    BY DEF LimitTypes
  <1> DEFINE b == Opened(k, at[h])
  <1>2. b.start \in 0..now /\ b.count \in Nat
        /\ b = [start |-> b.start, count |-> b.count]
    BY <1>1, OpenedOK
  <1>3. CASE Refuse(h, k)
    <2>1. b \in [start : {-Window} \cup 0..now, count : Nat]  BY <1>2
    <2> HIDE DEF b
    <2>2. bucket' = [bucket EXCEPT ![k] = b] /\ passed' = passed
      BY <1>3 DEF Refuse, b
    <2> QED  BY <2>1, <2>2 DEF LimitTypes
  <1>4. CASE Pass(h, k)
    <2>1. [b EXCEPT !.count = @ + 1] = [start |-> b.start, count |-> b.count + 1]
      BY <1>2
    <2>2. [b EXCEPT !.count = @ + 1] \in [start : {-Window} \cup 0..now, count : Nat]
      BY <1>2, <2>1
    <2>3. at[h] \in 0..MaxTime /\ b.start \in 0..MaxTime  BY <1>1, <1>2
    <2>4. [key |-> k, by |-> h, read |-> at[h], start |-> b.start] \in PassRecord
      BY <2>3 DEF PassRecord
    <2> HIDE DEF b
    <2>5. \/ UNCHANGED <<bucket, passed>>
          \/ /\ bucket' = [bucket EXCEPT ![k] = [b EXCEPT !.count = @ + 1]]
             /\ passed' = passed \cup
                  {[key |-> k, by |-> h, read |-> at[h], start |-> b.start]}
      BY <1>4 DEF Pass, b
    <2> QED  BY <2>2, <2>4, <2>5 DEF LimitTypes
  <1> QED  BY <1>3, <1>4

\* The key with which a handler asks a limiter is one.
LEMMA CountKey ==
    ASSUME TypeOK, PassOnce, NEW h \in Handler
    PROVE  /\ CountUser(h) => UserKey(h) \in Keys
           /\ CountGuild(h) => GuildKey(h) \in Keys
  BY KeysOK DEF PassOnce, CountUser, CountGuild

\* A step either leaves the limiters alone, or is one of these.
LimitStep ==
    \/ UNCHANGED <<config, limits>>
    \/ \E h \in Handler :
         \/ \E m \in Msg : Deliver(h, m)
         \/ CountUser(h) \/ CountGuild(h)
    \/ Tick

LEMMA LimitSteps == [Next]_vars => LimitStep
  BY DEF Next, Handle, SendLoop, LimitStep, BeginReceive, CommitReceive,
         ReceiveFails, Enqueue, EnqueueFails, TakeJob, Exit, ReadTarget,
         ReadTargetFails, SendOk, SendFails, Backoff, Record, RecordFails, Started,
         GiveUp, Stop, Stopped, Become, others, vars

LEMMA LimitTypeStep ==
    ASSUME TypeOK, PassOnce, LimitStep PROVE LimitTypes'
  <1>i. LimitTypes  BY DEF TypeOK
  <1>1. CASE UNCHANGED <<config, limits>>  BY <1>i, <1>1 DEF limits, LimitTypes
  <1>2. ASSUME NEW h \in Handler, NEW m \in Msg, Deliver(h, m) PROVE LimitTypes'
    <2>1. now \in 0..now  BY <1>i DEF LimitTypes
    <2>2. at' \in [Handler -> 0..now']
      BY <1>i, <1>2, <2>1 DEF LimitTypes, Deliver
    <2> QED  BY <1>i, <1>2, <2>2 DEF LimitTypes, Deliver
  <1>3. ASSUME NEW h \in Handler, CountUser(h) \/ CountGuild(h) PROVE LimitTypes'
    <2>1. PICK k \in Keys : Pass(h, k) \/ Refuse(h, k)
      BY <1>3, CountKey DEF CountUser, CountGuild
    <2>2. /\ bucket' \in [Keys -> [start : {-Window} \cup 0..now, count : Nat]]
          /\ passed' \subseteq PassRecord
      BY <1>i, <2>1, AllowType
    <2>3. config' = config /\ now' = now /\ at' = at
      BY <1>3 DEF CountUser, CountGuild
    <2> QED  BY <1>i, <2>2, <2>3 DEF LimitTypes
  <1>4. CASE Tick
    <2>1. now \in Nat /\ MaxTime \in Nat /\ now < MaxTime
      BY <1>i, <1>4 DEF LimitTypes, Tick
    <2>2. now' = now + 1 /\ now' \in 0..MaxTime /\ 0..now \subseteq 0..now'
      BY <1>4, <2>1 DEF Tick
    <2>3. at' \in [Handler -> 0..now']  BY <1>i, <1>4, <2>2 DEF LimitTypes, Tick
    <2>4. [start : {-Window} \cup 0..now, count : Nat]
            \subseteq [start : {-Window} \cup 0..now', count : Nat]
      BY <2>2
    <2>5. bucket' \in [Keys -> [start : {-Window} \cup 0..now', count : Nat]]
      BY <1>i, <1>4, <2>4 DEF LimitTypes, Tick
    <2> QED  BY <1>i, <1>4, <2>2, <2>3, <2>5 DEF LimitTypes, Tick
  <1> QED  BY <1>1, <1>2, <1>3, <1>4 DEF LimitStep

-----------------------------------------------------------------------------
(* The limits.                                                             *)

\* Handler h asks the limiter of key k.
Asks(h, k) ==
    /\ k \in Keys
    /\ \/ CountUser(h) /\ k = UserKey(h)
       \/ CountGuild(h) /\ k = GuildKey(h)

\* Nobody asks a limiter again that let them pass.
LEMMA AskOnce ==
    ASSUME PassOnce, NEW h \in Handler, NEW k, Asks(h, k),
           NEW p \in passed, p.by = h
    PROVE  p.key # k
  BY DEF PassOnce, Asks, CountUser, CountGuild, UserKey, GuildKey

LEMMA PassFields ==
    ASSUME LimitTypes, NEW p \in passed
    PROVE  /\ p.key \in Keys /\ p.by \in Handler
           /\ p.read \in Nat /\ p.start \in Nat
           /\ p.read \in 0..MaxTime /\ p.start \in 0..MaxTime
  <1>1. p \in PassRecord  BY DEF LimitTypes
  <1> QED  BY <1>1 DEF PassRecord

LEMMA BucketFields ==
    ASSUME LimitTypes, NEW k \in Keys
    PROVE  /\ bucket[k].count \in Nat
           /\ bucket[k].start \in Int
           /\ bucket[k].start # -Window => bucket[k].start \in 0..now
  <1>1. bucket[k] \in [start : {-Window} \cup 0..now, count : Nat]
    BY DEF LimitTypes
  <1>2. now \in Nat /\ Window \in Nat  BY DEF LimitTypes
  <1> QED  BY <1>1, <1>2

\* The window that Opened returns fits the messages that passed before.
LEMMA OpenedFits ==
    ASSUME LimitTypes, PassOnce, WindowsKept, WindowsApart,
           NEW k \in Keys, NEW t \in 0..now
    PROVE  /\ Opened(k, t).count = Cardinality(InWindow(k, Opened(k, t).start))
           /\ \A p \in passed : p.key = k =>
                \/ p.start = Opened(k, t).start
                \/ p.start + Window <= Opened(k, t).start
           /\ bucket[k].start <= Opened(k, t).start
  <1>1. t \in Nat /\ Window \in Nat \ {0} /\ now \in Nat  BY DEF LimitTypes
  <1>2. \A p \in passed : p.key = k =>
          p.start = bucket[k].start \/ p.start + Window <= bucket[k].start
    BY DEF WindowsApart
  <1>3. CASE t - bucket[k].start >= Window
    <2>1. Opened(k, t) = [start |-> t, count |-> 0]  BY <1>3 DEF Opened
    <2>2. ASSUME NEW p \in passed, p.key = k PROVE p.start + Window <= t
      BY <1>1, <1>2, <1>3, <2>2, PassFields, BucketFields
    <2>3. InWindow(k, t) = {}
      BY <1>1, <2>2, PassFields DEF InWindow
    <2>4. Opened(k, t).start = t /\ Opened(k, t).count = 0  BY <2>1
    <2>5. Cardinality(InWindow(k, Opened(k, t).start)) = 0
      BY <2>3, <2>4, FS_EmptySet
    <2>6. bucket[k].start <= t  BY <1>1, <1>3, BucketFields
    <2> QED  BY <2>2, <2>4, <2>5, <2>6
  <1>4. CASE ~(t - bucket[k].start >= Window)
    <2>1. Opened(k, t) = bucket[k]  BY <1>4 DEF Opened
    <2> QED  BY <1>2, <2>1, BucketFields DEF WindowsKept
  <1> QED  BY <1>3, <1>4

\* InWindow of the messages in P.
In(P, k, s) == {p \in P : p.key = k /\ p.start = s}

\* What a message that passes changes.
LEMMA PassEffect ==
    ASSUME TypeOK, PassOnce, WindowsKept, WindowsApart,
           NEW h \in Handler, NEW k \in Keys, Asks(h, k), Pass(h, k), Max(k) # 0,
           NEW b, b = Opened(k, at[h]),
           NEW r, r = [key |-> k, by |-> h, read |-> at[h], start |-> b.start]
    PROVE  /\ passed' = passed \cup {r} /\ r \notin passed
           /\ \A j \in Keys \ {k} : bucket'[j] = bucket[j]
           /\ bucket'[k].start = b.start
           /\ bucket'[k].count = b.count + 1
           /\ b.count + 1 <= Max(k)
           /\ In(passed', k, b.start) = In(passed, k, b.start) \cup {r}
           /\ r \notin In(passed, k, b.start)
           /\ \A j, s : j # k \/ s # b.start =>
                In(passed', j, s) = In(passed, j, s)
  <1>i. LimitTypes  BY DEF TypeOK
  <1>1. at[h] \in 0..now  BY <1>i DEF LimitTypes
  <1>2. b.count \in Nat /\ b = [start |-> b.start, count |-> b.count]
    BY <1>i, <1>1, OpenedOK
  <1>3. /\ bucket' = [bucket EXCEPT ![k] = [b EXCEPT !.count = @ + 1]]
        /\ passed' = passed \cup {r}
        /\ b.count < Max(k)
    BY DEF Pass, Allowed
  <1>4. r \notin passed  BY AskOnce
  <1>5. /\ \A j \in Keys \ {k} : bucket'[j] = bucket[j]
        /\ bucket'[k] = [b EXCEPT !.count = @ + 1]
    BY <1>i, <1>3 DEF LimitTypes
  <1>6. bucket'[k].start = b.start /\ bucket'[k].count = b.count + 1
    BY <1>2, <1>5
  <1>7. b.count + 1 <= Max(k)  BY <1>i, <1>2, <1>3, MaxOK
  <1>8. In(passed', k, b.start) = In(passed, k, b.start) \cup {r}
    BY <1>3 DEF In
  <1>9. \A j, s : j # k \/ s # b.start => In(passed', j, s) = In(passed, j, s)
    BY <1>3 DEF In
  <1> QED  BY <1>3, <1>4, <1>5, <1>6, <1>7, <1>8, <1>9 DEF In

LEMMA WindowFinite ==
    ASSUME PassOnce, NEW k, NEW s
    PROVE  IsFiniteSet(InWindow(k, s)) /\ Cardinality(InWindow(k, s)) \in Nat
  <1>1. InWindow(k, s) \in SUBSET passed  BY DEF InWindow
  <1> QED  BY <1>1, FS_Subset, FS_CardinalityType DEF PassOnce

\* Both outcomes of Allow keep the windows in order.
LEMMA AllowStep ==
    ASSUME TypeOK, PassOnce, WindowsKept, WindowsApart,
           NEW h \in Handler, NEW k \in Keys, Asks(h, k),
           Pass(h, k) \/ Refuse(h, k)
    PROVE  WindowsKept' /\ WindowsApart'
  <1> PICK b : b = Opened(k, at[h])  OBVIOUS
  <1> PICK r : r = [key |-> k, by |-> h, read |-> at[h], start |-> b.start]  OBVIOUS
  <1>i. LimitTypes  BY DEF TypeOK
  <1>c. config' = config  BY DEF Asks, CountUser, CountGuild
  <1>x. \A j : Max(j)' = Max(j)  BY <1>c DEF Max
  <1>t. at[h] \in 0..now /\ at[h] \in Nat /\ now \in Nat /\ Window \in Nat \ {0}
    BY <1>i DEF LimitTypes
  <1>b. /\ b.start \in 0..now /\ b.count \in Nat
        /\ at[h] < b.start + Window
    BY <1>i, <1>t, OpenedOK
  <1>f. /\ b.count = Cardinality(InWindow(k, b.start))
        /\ \A p \in passed : p.key = k =>
             p.start = b.start \/ p.start + Window <= b.start
    BY <1>i, <1>t, OpenedFits
  <1>1. CASE Pass(h, k) /\ Max(k) = 0
    BY <1>x, <1>1 DEF Pass, WindowsKept, WindowsApart, InWindow
  <1>2. CASE Refuse(h, k)
    <2>1. passed' = passed /\ bucket' = [bucket EXCEPT ![k] = b]
      BY <1>2 DEF Refuse
    <2>2. \A j, s : InWindow(j, s)' = InWindow(j, s)  BY <2>1 DEF InWindow
    <2>3. \A j \in Keys : bucket'[j] = IF j = k THEN b ELSE bucket[j]
      BY <1>i, <2>1 DEF LimitTypes
    <2>4. WindowsKept'  BY <1>x, <1>f, <2>1, <2>2, <2>3 DEF WindowsKept
    <2>5. WindowsApart'
      <3>1. ASSUME NEW p \in passed'
            PROVE  \/ p.start = bucket'[p.key].start
                   \/ p.start + Window <= bucket'[p.key].start
        BY <1>i, <1>f, <2>1, <2>3, PassFields DEF WindowsApart
      <3> QED  BY <2>1, <3>1 DEF WindowsApart
    <2> QED  BY <2>4, <2>5
  <1>3. CASE Pass(h, k) /\ Max(k) # 0
    <2>1. /\ passed' = passed \cup {r} /\ r \notin passed
          /\ \A j \in Keys \ {k} : bucket'[j] = bucket[j]
          /\ bucket'[k].start = b.start
          /\ bucket'[k].count = b.count + 1
          /\ b.count + 1 <= Max(k)
          /\ In(passed', k, b.start) = In(passed, k, b.start) \cup {r}
          /\ r \notin In(passed, k, b.start)
          /\ \A j, s : j # k \/ s # b.start =>
               In(passed', j, s) = In(passed, j, s)
      BY <1>3, PassEffect
    <2>r. r.key = k /\ r.start = b.start /\ r.read = at[h]  OBVIOUS
    <2>k. \A j, s : InWindow(j, s) = In(passed, j, s)  BY DEF InWindow, In
    <2>w. /\ \A j \in Keys :
               bucket[j].count = Cardinality(In(passed, j, bucket[j].start))
          /\ \A p \in passed : p.key \in Keys =>
               Cardinality(In(passed, p.key, p.start)) <= Max(p.key)
      BY <2>k, Zenon DEF WindowsKept
    <2>2. Cardinality(In(passed', k, b.start)) = b.count + 1
      <3>1. PICK S : S = In(passed, k, b.start)  OBVIOUS
      <3>2. IsFiniteSet(S) /\ Cardinality(S) = b.count
        <4>1. S = InWindow(k, b.start)  BY <2>k, <3>1
        <4> QED  BY <1>f, <4>1, WindowFinite
      <3>3. r \notin S /\ In(passed', k, b.start) = S \cup {r}
        BY <2>1, <3>1, Zenon
      <3>4. Cardinality(S \cup {r}) = b.count + 1  BY <3>2, <3>3, FS_AddElement
      <3> QED  BY <3>3, <3>4, Zenon
    <2>3. WindowsKept'
      <3>1. ASSUME NEW j \in Keys
            PROVE  bucket'[j].count = Cardinality(In(passed', j, bucket'[j].start))
        <4>1. CASE j = k  BY <2>1, <2>2, <4>1
        <4>2. CASE j # k
          <5>1. bucket'[j] = bucket[j]  BY <2>1, <4>2
          <5>2. PICK s : s = bucket[j].start  OBVIOUS
          <5>3. In(passed', j, s) = In(passed, j, s)  BY <2>1, <4>2, Zenon
          <5>4. bucket[j].count = Cardinality(In(passed, j, s))  BY <2>w, <5>2, Zenon
          <5> QED  BY <5>1, <5>2, <5>3, <5>4, Zenon
        <4> QED  BY <4>1, <4>2
      <3>2. ASSUME NEW p \in passed'
            PROVE  Cardinality(In(passed', p.key, p.start)) <= Max(p.key)
        <4>1. CASE p.key = k /\ p.start = b.start  BY <2>1, <2>2, <4>1
        <4>2. CASE ~(p.key = k /\ p.start = b.start)
          <5>1. p \in passed  BY <2>1, <2>r, <4>2
          <5>2. p.key \in Keys  BY <1>i, <5>1, PassFields
          <5>3. In(passed', p.key, p.start) = In(passed, p.key, p.start)
            <6>1. PICK i, s : i = p.key /\ s = p.start  OBVIOUS
            <6>2. i # k \/ s # b.start  BY <4>2, <6>1
            <6>3. In(passed', i, s) = In(passed, i, s)  BY <2>1, <6>2, Zenon
            <6> QED  BY <6>1, <6>3, Zenon
          <5>4. Cardinality(In(passed, p.key, p.start)) <= Max(p.key)
            BY <2>w, <5>1, <5>2, Zenon
          <5> QED  BY <5>3, <5>4, Zenon
        <4> QED  BY <4>1, <4>2
      <3> QED  BY <1>x, <3>1, <3>2 DEF WindowsKept, InWindow, In
    <2>4. WindowsApart'
      <3>1. ASSUME NEW p \in passed'
            PROVE  /\ \/ p.start = bucket'[p.key].start
                      \/ p.start + Window <= bucket'[p.key].start
                   /\ p.read < p.start + Window
        <4>1. CASE p = r  BY <1>t, <1>b, <2>1, <2>r, <4>1
        <4>2. CASE p # r
          <5>1. p \in passed  BY <2>1, <4>2
          <5> QED  BY <1>i, <1>f, <2>1, <5>1, PassFields DEF WindowsApart
        <4> QED  BY <4>1, <4>2
      <3>2. ASSUME NEW p \in passed', NEW q \in passed', p.key = q.key
            PROVE  \/ p.start = q.start
                   \/ p.start + Window <= q.start
                   \/ q.start + Window <= p.start
        <4>1. CASE p = r /\ q = r  BY <4>1
        <4>2. CASE p = r /\ q \in passed  BY <1>f, <2>r, <3>2, <4>2
        <4>3. CASE p \in passed /\ q = r  BY <1>f, <2>r, <3>2, <4>3
        <4>4. CASE p \in passed /\ q \in passed  BY <3>2, <4>4 DEF WindowsApart
        <4> QED  BY <2>1, <4>1, <4>2, <4>3, <4>4
      <3> QED  BY <3>1, <3>2 DEF WindowsApart
    <2> QED  BY <2>3, <2>4
  <1> QED  BY <1>1, <1>2, <1>3

\* A step that is none of a handler and not the clock's.
Elsewhere == UNCHANGED <<config, limits, place, msg>>

LEMMA Steps ==
    [Next]_vars => \/ \E h \in Handler : Handle(h)
                   \/ Tick
                   \/ Elsewhere
  BY DEF Next, SendLoop, Elsewhere, inbound, limits, Enqueue, EnqueueFails, TakeJob,
         Exit, ReadTarget, ReadTargetFails, SendOk, SendFails, Backoff, Record,
         RecordFails, Started, GiveUp, Stop, Stopped, Become, others, vars

\* What a handler that asks a limiter does next.
LEMMA AskStep ==
    ASSUME TypeOK, PassOnce, NEW h \in Handler, CountUser(h) \/ CountGuild(h)
    PROVE  \E k \in Keys :
             /\ Asks(h, k)
             /\ \/ Pass(h, k) /\ place' = [place EXCEPT ![h] = place'[h]]
                   /\ place'[h] \in {"guild", "receive"}
                \/ Refuse(h, k) /\ place' = [place EXCEPT ![h] = place'[h]]
                   /\ place'[h] \in {"overUser", "overGuild"}
  <1>1. place \in [Handler -> Places]  BY DEF TypeOK, InboundTypes
  <1>2. CASE CountUser(h)
    <2>1. Asks(h, UserKey(h))  BY <1>2, CountKey DEF Asks
    <2> QED  BY <1>1, <1>2, <2>1 DEF CountUser, Goto, Asks
  <1>3. CASE CountGuild(h)
    <2>1. Asks(h, GuildKey(h))  BY <1>3, CountKey DEF Asks
    <2> QED  BY <1>1, <1>3, <2>1 DEF CountGuild, Goto, Asks
  <1> QED  BY <1>2, <1>3

\* Who passes is put down, with the key.
LEMMA PassedGrows ==
    ASSUME NEW h, NEW k, Pass(h, k) \/ Refuse(h, k)
    PROVE  \/ passed' = passed
           \/ \E r : passed' = passed \cup {r} /\ r.by = h /\ r.key = k
  <1> DEFINE r == [key |-> k, by |-> h, read |-> at[h],
                   start |-> Opened(k, at[h]).start]
  <1>1. r.by = h /\ r.key = k  OBVIOUS
  <1> HIDE DEF r
  <1>2. passed' = passed \/ passed' = passed \cup {r}  BY DEF Pass, Refuse, r
  <1> QED  BY <1>1, <1>2

LEMMA PassOnceStep ==
    ASSUME TypeOK, PassOnce, [Next]_vars PROVE PassOnce'
  <1>t. LimitTypes /\ place \in [Handler -> Places]
        /\ msg \in [Handler -> Msg \cup {None}]
    BY DEF TypeOK, InboundTypes
  <1>1. CASE Elsewhere  BY <1>1 DEF Elsewhere, limits, PassOnce
  <1>2. CASE Tick
    <2>1. now' = now + 1 /\ now \in Nat /\ UNCHANGED <<at, passed, place, msg>>
      BY <1>t, <1>2 DEF Tick, inbound, LimitTypes
    <2> QED  BY <2>1 DEF PassOnce
  <1>3. ASSUME NEW h \in Handler, NEW m \in Msg, Deliver(h, m) PROVE PassOnce'
    <2>1. /\ place[h] = "idle" /\ place' = [place EXCEPT ![h] = "user"]
          /\ msg' = [msg EXCEPT ![h] = m] /\ at' = [at EXCEPT ![h] = now]
          /\ now' = now /\ passed' = passed /\ now \in Nat
      BY <1>t, <1>3 DEF Deliver, Goto, LimitTypes
    <2>2. at \in [Handler -> 0..now]  BY <1>t DEF LimitTypes
    <2> QED  BY <1>t, <2>1, <2>2, PassFields DEF PassOnce
  <1>4. ASSUME NEW h \in Handler, CountUser(h) PROVE PassOnce'
    <2>1. /\ place[h] = "user"
          /\ place' = [place EXCEPT ![h] = place'[h]]
          /\ place'[h] \in {"guild", "receive", "overUser"}
          /\ place'[h] = "guild" => msg[h].guild # None
          /\ msg' = msg /\ at' = at /\ now' = now
      BY <1>t, <1>4 DEF CountUser, Goto
    <2>2. \/ passed' = passed
          \/ \E r : /\ passed' = passed \cup {r}
                    /\ r.by = h /\ r.key = UserKey(h)
      BY <1>4, PassedGrows DEF CountUser
    <2>3. UserKey(h)[1] = "user"  BY DEF UserKey
    <2>4. IsFiniteSet(passed')
      <3>1. \A r : IsFiniteSet(passed \cup {r})  BY FS_AddElement DEF PassOnce
      <3> QED  BY <2>2, <3>1 DEF PassOnce
    <2> QED  BY <1>t, <2>1, <2>2, <2>3, <2>4, PassFields DEF PassOnce
  <1>5. ASSUME NEW h \in Handler, CountGuild(h) PROVE PassOnce'
    <2>1. /\ place[h] = "guild"
          /\ place' = [place EXCEPT ![h] = place'[h]]
          /\ place'[h] \in {"receive", "overGuild"}
          /\ msg' = msg /\ at' = at /\ now' = now
      BY <1>t, <1>5 DEF CountGuild, Goto
    <2>2. \/ passed' = passed
          \/ \E r : /\ passed' = passed \cup {r}
                    /\ r.by = h
      BY <1>5, PassedGrows DEF CountGuild
    <2>4. IsFiniteSet(passed')
      <3>1. \A r : IsFiniteSet(passed \cup {r})  BY FS_AddElement DEF PassOnce
      <3> QED  BY <2>2, <3>1 DEF PassOnce
    <2> QED  BY <1>t, <2>1, <2>2, <2>4, PassFields DEF PassOnce
  <1>6. ASSUME NEW h \in Handler,
               BeginReceive(h) \/ CommitReceive(h) \/ ReceiveFails(h)
        PROVE  PassOnce'
    <2>1. /\ place[h] \in {"receive", "commit"}
          /\ place' = [place EXCEPT ![h] = place'[h]]
          /\ place'[h] \in {"commit", "done"}
          /\ msg' = msg /\ at' = at /\ now' = now /\ passed' = passed
      BY <1>t, <1>6
      DEF BeginReceive, CommitReceive, ReceiveFails, Callback, Goto, limits
    <2> QED  BY <1>t, <2>1, PassFields DEF PassOnce
  <1> QED  BY <1>1, <1>2, <1>3, <1>4, <1>5, <1>6, Steps DEF Handle

LEMMA WindowsStep ==
    ASSUME TypeOK, PassOnce, WindowsKept, WindowsApart, [Next]_vars
    PROVE  WindowsKept' /\ WindowsApart'
  <1>1. CASE UNCHANGED <<config, bucket, passed>>
    BY <1>1 DEF WindowsKept, WindowsApart, InWindow, Max
  <1>2. ASSUME NEW h \in Handler, CountUser(h) \/ CountGuild(h)
        PROVE  WindowsKept' /\ WindowsApart'
    <2>1. PICK k \in Keys : Asks(h, k) /\ (Pass(h, k) \/ Refuse(h, k))
      BY <1>2, AskStep
    <2> QED  BY <2>1, AllowStep
  <1> QED
    BY <1>1, <1>2, Steps
    DEF Handle, Deliver, BeginReceive, CommitReceive, ReceiveFails, Callback, Tick,
        Elsewhere, limits

\* A window that is full stays so.
LEMMA FullStays ==
    ASSUME TypeOK, PassOnce, WindowsKept, WindowsApart, [Next]_vars,
           NEW k \in Keys, NEW s, Cardinality(In(passed, k, s)) = Max(k)
    PROVE  Cardinality(In(passed', k, s)) = Max(k)' /\ Max(k)' = Max(k)
  <1>t. LimitTypes  BY DEF TypeOK
  <1>1. CASE UNCHANGED <<config, passed>>  BY <1>1 DEF Max
  <1>2. ASSUME NEW h \in Handler, CountUser(h) \/ CountGuild(h)
        PROVE  Cardinality(In(passed', k, s)) = Max(k) /\ config' = config
    <2>0. config' = config  BY <1>2 DEF CountUser, CountGuild
    <2>1. PICK j \in Keys : Asks(h, j) /\ (Pass(h, j) \/ Refuse(h, j))
      BY <1>2, AskStep
    <2>2. CASE Refuse(h, j)  BY <2>0, <2>2 DEF Refuse
    <2>3. CASE Pass(h, j) /\ Max(j) = 0  BY <2>0, <2>3 DEF Pass
    <2>4. CASE Pass(h, j) /\ Max(j) # 0
      <3>1. PICK b : b = Opened(j, at[h])  OBVIOUS
      <3>2. PICK r : r = [key |-> j, by |-> h, read |-> at[h], start |-> b.start]
        OBVIOUS
      <3>3. /\ b.count + 1 <= Max(j)
            /\ \A i, z : i # j \/ z # b.start =>
                 In(passed', i, z) = In(passed, i, z)
        BY <2>1, <2>4, <3>1, <3>2, PassEffect
      <3>4. at[h] \in 0..now  BY <1>t DEF LimitTypes
      <3>5. b.count = Cardinality(InWindow(j, b.start)) /\ b.count \in Nat
        BY <1>t, <3>1, <3>4, OpenedFits, OpenedOK
      <3>6. InWindow(j, b.start) = In(passed, j, b.start)  BY DEF InWindow, In
      <3>7. k # j \/ s # b.start
        <4> SUFFICES ASSUME k = j, s = b.start PROVE FALSE  OBVIOUS
        <4>1. Max(j) = b.count  BY <3>5, <3>6
        <4> QED  BY <3>3, <3>5, <4>1
      <3>8. In(passed', k, s) = In(passed, k, s)  BY <3>3, <3>7, Zenon
      <3> QED  BY <2>0, <3>8, Zenon
    <2> QED  BY <2>1, <2>2, <2>3, <2>4
  <1>3. \/ UNCHANGED <<config, passed>>
        \/ \E h \in Handler : CountUser(h) \/ CountGuild(h)
    BY Steps
    DEF Handle, Deliver, BeginReceive, CommitReceive, ReceiveFails, Callback, Tick,
        Elsewhere, limits
  <1>4. config' = config => Max(k)' = Max(k)  BY DEF Max
  <1> QED  BY <1>1, <1>2, <1>3, <1>4

\* Who is refused came in a full window.
LEMMA RefusedFull ==
    ASSUME TypeOK, PassOnce, WindowsKept, WindowsApart,
           NEW h \in Handler, NEW k \in Keys, Refuse(h, k)
    PROVE  \E s \in 0..MaxTime :
             at[h] < s + Window /\ Cardinality(In(passed, k, s)) = Max(k)
  <1>t. LimitTypes /\ at[h] \in 0..now /\ now \in 0..MaxTime /\ MaxTime \in Nat
    BY DEF TypeOK, LimitTypes
  <1>1. PICK b : b = Opened(k, at[h])  OBVIOUS
  <1>2. /\ b.start \in 0..now /\ b.count \in Nat
        /\ at[h] < b.start + Window
        /\ b.count = Cardinality(InWindow(k, b.start))
    BY <1>t, <1>1, OpenedOK, OpenedFits
  <1>3. Max(k) # 0 /\ ~(b.count < Max(k)) /\ Max(k) \in Nat
    BY <1>t, <1>1, MaxOK DEF Refuse, Allowed
  <1>4. InWindow(k, b.start) # {}
    <2> SUFFICES ASSUME InWindow(k, b.start) = {} PROVE FALSE  OBVIOUS
    <2>1. b.count = 0  BY <1>2, FS_EmptySet
    <2> QED  BY <1>3, <2>1
  <1>5. PICK p \in passed : p.key = k /\ p.start = b.start
    BY <1>4 DEF InWindow
  <1>6. Cardinality(InWindow(k, b.start)) <= Max(k)
    BY <1>5 DEF WindowsKept
  <1>7. Cardinality(InWindow(k, b.start)) = Max(k)
    BY <1>2, <1>3, <1>6
  <1>8. InWindow(k, b.start) = In(passed, k, b.start)  BY DEF InWindow, In
  <1>9. b.start \in 0..MaxTime  BY <1>t, <1>2
  <1> QED  BY <1>2, <1>7, <1>8, <1>9

LEMMA DropStep ==
    ASSUME TypeOK, PassOnce, WindowsKept, WindowsApart, DropJustified, [Next]_vars
    PROVE  DropJustified'
  <1>t. LimitTypes /\ place \in [Handler -> Places]
        /\ msg \in [Handler -> Msg \cup {None}] /\ at \in [Handler -> 0..now]
    BY DEF TypeOK, InboundTypes, LimitTypes
  <1>s. \A j, s : InWindow(j, s)' = In(passed', j, s)  BY DEF InWindow, In
  <1> SUFFICES ASSUME NEW h \in Handler, NEW k \in DroppedBy(h)'
               PROVE  \E s \in 0..MaxTime :
                        /\ at'[h] < s + Window
                        /\ Cardinality(In(passed', k, s)) = Max(k)'
    BY <1>s, Zenon DEF DropJustified
  <1>1. \/ place'[h] = "overUser" /\ k = <<"user", msg'[h].author>>
        \/ place'[h] = "overGuild" /\ k = <<"guild", msg'[h].guild>>
    BY DEF DroppedBy, UserKey, GuildKey
  <1>2. CASE place[h] = place'[h] /\ msg'[h] = msg[h] /\ at'[h] = at[h]
    <2>1. k \in DroppedBy(h)  BY <1>1, <1>2 DEF DroppedBy, UserKey, GuildKey
    <2>2. PICK s \in 0..MaxTime :
            at[h] < s + Window /\ Cardinality(InWindow(k, s)) = Max(k)
      BY <2>1 DEF DropJustified
    <2>3. Cardinality(In(passed, k, s)) = Max(k)  BY <2>2 DEF InWindow, In
    <2>4. k \in Keys
      BY <1>1, <1>2, KeysOK DEF PassOnce, UserKey, GuildKey
    <2>5. Cardinality(In(passed', k, s)) = Max(k)'  BY <2>3, <2>4, FullStays
    <2> QED  BY <1>2, <2>2, <2>5
  <1>3. CASE ~(place[h] = place'[h] /\ msg'[h] = msg[h] /\ at'[h] = at[h])
    <2>1. /\ Refuse(h, k) /\ k \in Keys
          /\ at' = at /\ config' = config
      <3>1. Handle(h)
        <4>1. CASE Tick \/ Elsewhere
          BY <1>3, <4>1 DEF Tick, Elsewhere, inbound, limits
        <4>2. ASSUME NEW g \in Handler, Handle(g), g # h PROVE FALSE
          <5>1. place'[h] = place[h]
            BY <1>t, <4>2
            DEF Handle, Deliver, CountUser, CountGuild, BeginReceive,
                CommitReceive, ReceiveFails, Callback, Goto
          <5>2. msg'[h] = msg[h] /\ at'[h] = at[h]
            BY <1>t, <4>2
            DEF Handle, Deliver, CountUser, CountGuild, BeginReceive,
                CommitReceive, ReceiveFails, Callback, limits
          <5> QED  BY <1>3, <5>1, <5>2
        <4> QED  BY <4>1, <4>2, Steps
      <3>2. CountUser(h) \/ CountGuild(h)
        BY <1>t, <1>1, <3>1
        DEF Handle, Deliver, BeginReceive, CommitReceive, ReceiveFails, Callback, Goto
      <3>3. CASE CountUser(h)
        BY <1>t, <1>1, <3>3, CountKey DEF CountUser, Goto, UserKey
      <3>4. CASE CountGuild(h)
        BY <1>t, <1>1, <3>4, CountKey DEF CountGuild, Goto, GuildKey
      <3> QED  BY <3>2, <3>3, <3>4
    <2>2. PICK s \in 0..MaxTime :
            at[h] < s + Window /\ Cardinality(In(passed, k, s)) = Max(k)
      BY <2>1, RefusedFull
    <2>3. Cardinality(In(passed', k, s)) = Max(k)'
      BY <2>1, <2>2, FullStays
    <2> QED  BY <2>1, <2>2, <2>3
  <1> QED  BY <1>2, <1>3

\* A set of messages of key k that passed in windows from one start fits it.
LEMMA OneWindow ==
    ASSUME LimitTypes, PassOnce, WindowsKept, NEW k \in Keys, NEW S,
           NEW s, S \subseteq InWindow(k, s)
    PROVE  IsFiniteSet(S) /\ Cardinality(S) <= Max(k) /\ Cardinality(S) \in Nat
  <1>1. /\ IsFiniteSet(InWindow(k, s)) /\ Cardinality(InWindow(k, s)) \in Nat
        /\ Max(k) \in Nat
    BY WindowFinite, MaxOK
  <1>2. Cardinality(InWindow(k, s)) <= Max(k)
    <2>1. CASE InWindow(k, s) = {}  BY <1>1, <2>1, FS_EmptySet
    <2>2. CASE InWindow(k, s) # {}
      <3>1. PICK q \in passed : q.key = k /\ q.start = s  BY <2>2 DEF InWindow
      <3> QED  BY <3>1 DEF WindowsKept
    <2> QED  BY <2>1, <2>2
  <1>3. /\ IsFiniteSet(S) /\ Cardinality(S) <= Cardinality(InWindow(k, s))
        /\ Cardinality(S) \in Nat
    BY <1>1, FS_Subset, FS_CardinalityType
  <1> QED  BY <1>1, <1>2, <1>3

\* Those of any minute that came after their window began are of two windows:
\* one that began before the minute, and one that began within it.
LEMMA WindowBound ==
    ASSUME LimitTypes, PassOnce, WindowsKept, WindowsApart PROVE WindowCap
  <1> SUFFICES ASSUME NEW k \in Keys, Max(k) > 0, NEW t \in 0..MaxTime
               PROVE  /\ Cardinality(BegunWithin(k, t)) <= Max(k)
                      /\ Cardinality({p \in Within(k, t) : p.start <= p.read})
                           <= 2 * Max(k)
    BY DEF WindowCap
  <1> DEFINE New == BegunWithin(k, t)
             Old == {p \in passed : /\ p.key = k /\ p.start < t
                                    /\ t < p.start + Window}
  <1>n. t \in Int /\ Window \in Nat \ {0} /\ Max(k) \in Nat  BY MaxOK
  <1>1. \E s : New \subseteq InWindow(k, s)
    <2>1. \A p, q \in New : p.start = q.start
      <3> SUFFICES ASSUME NEW p \in New, NEW q \in New PROVE p.start = q.start
        OBVIOUS
      <3>1. /\ p \in passed /\ p.key = k /\ t <= p.start /\ p.start < t + Window
            /\ q \in passed /\ q.key = k /\ t <= q.start /\ q.start < t + Window
        BY DEF BegunWithin
      <3>2. p.start \in Nat /\ q.start \in Nat  BY <3>1, PassFields
      <3>3. \/ p.start = q.start
            \/ p.start + Window <= q.start
            \/ q.start + Window <= p.start
        BY <3>1 DEF WindowsApart
      <3> QED  BY <1>n, <3>1, <3>2, <3>3
    <2> QED  BY <2>1 DEF BegunWithin, InWindow
  <1>2. \E s : Old \subseteq InWindow(k, s)
    <2>1. \A p, q \in Old : p.start = q.start
      <3> SUFFICES ASSUME NEW p \in Old, NEW q \in Old PROVE p.start = q.start
        OBVIOUS
      <3>2. p.start \in Nat /\ q.start \in Nat  BY PassFields
      <3>3. \/ p.start = q.start
            \/ p.start + Window <= q.start
            \/ q.start + Window <= p.start
        BY DEF WindowsApart
      <3> QED  BY <1>n, <3>2, <3>3
    <2> QED  BY <2>1 DEF InWindow
  <1>3. {p \in Within(k, t) : p.start <= p.read} \subseteq Old \cup New
    <2> SUFFICES ASSUME NEW p \in Within(k, t), p.start <= p.read
                 PROVE  p \in Old \cup New
      OBVIOUS
    <2>1. /\ p \in passed /\ p.key = k
          /\ t <= p.read /\ p.read < t + Window
      BY DEF Within
    <2>2. p.start \in Nat /\ p.read \in Nat /\ p.read < p.start + Window
      BY <2>1, PassFields DEF WindowsApart
    <2> QED  BY <1>n, <2>1, <2>2 DEF BegunWithin
  <1> HIDE DEF New, Old
  <1>4. /\ IsFiniteSet(New) /\ Cardinality(New) <= Max(k)
        /\ Cardinality(New) \in Nat
    BY <1>1, OneWindow
  <1>5. /\ IsFiniteSet(Old) /\ Cardinality(Old) <= Max(k)
        /\ Cardinality(Old) \in Nat
    BY <1>2, OneWindow
  <1>6. /\ IsFiniteSet(Old \cup New)
        /\ Cardinality(Old \cup New)
             = Cardinality(Old) + Cardinality(New) - Cardinality(Old \cap New)
        /\ Cardinality(Old \cap New) \in Nat
    BY <1>4, <1>5, FS_Union, FS_Intersection, FS_CardinalityType
  <1>7. /\ Cardinality({p \in Within(k, t) : p.start <= p.read})
             <= Cardinality(Old \cup New)
        /\ Cardinality({p \in Within(k, t) : p.start <= p.read}) \in Nat
    BY <1>3, <1>6, FS_Subset, FS_CardinalityType
  <1> QED  BY <1>n, <1>4, <1>5, <1>6, <1>7 DEF New

-----------------------------------------------------------------------------
(* Rows and replies.                                                       *)

\* What is not a step of a handler leaves what they have alone.
LEMMA InboundSteps ==
    [Next]_vars => UNCHANGED inbound \/ \E h \in Handler : Handle(h)
  BY DEF Next, SendLoop, inbound, limits, Tick, Enqueue, EnqueueFails, TakeJob,
         Exit, ReadTarget, ReadTargetFails, SendOk, SendFails, Backoff, Record,
         RecordFails, Started, GiveUp, Stop, Stopped, Become, others, vars

LEMMA InboundTypeStep == ASSUME TypeOK, [Next]_vars PROVE InboundTypes'
  <1>i. InboundTypes  BY DEF TypeOK
  <1>1. CASE UNCHANGED inbound  BY <1>i, <1>1 DEF InboundTypes, inbound
  <1>2. ASSUME NEW h \in Handler, Handle(h) PROVE InboundTypes'
    <2> USE DEF InboundTypes, Goto, Places
    <2>1. CASE \E m \in Msg : Deliver(h, m)  BY <1>i, <2>1 DEF Deliver
    <2>2. CASE CountUser(h) \/ CountGuild(h)
      BY <1>i, <2>2 DEF CountUser, CountGuild
    <2>3. CASE BeginReceive(h)  BY <1>i, <2>3 DEF BeginReceive, Callback
    <2>4. CASE CommitReceive(h) \/ ReceiveFails(h)
      BY <1>i, <2>4 DEF CommitReceive, ReceiveFails, Callback
    <2> QED  BY <1>2, <2>1, <2>2, <2>3, <2>4 DEF Handle
  <1> QED  BY <1>1, <1>2, InboundSteps

\* A step of a handler leaves what is sent alone, but for asking for a reply.
LEMMA HandleOutbound ==
    ASSUME TypeOK, PassOnce, NEW h \in Handler, Handle(h)
    PROVE  /\ UNCHANGED <<outbound, host>>
           /\ \/ reply' = reply
              \/ /\ msg[h] \in Msg /\ reply[msg[h]] = "none"
                 /\ reply' = [reply EXCEPT ![msg[h]] = "asked"]
  BY DEF Handle, Deliver, CountUser, CountGuild, BeginReceive, CommitReceive,
         ReceiveFails, Callback, PassOnce

LEMMA HostType == ASSUME OutboundTypes, [Next]_vars PROVE
    host' \in {"starting", "up", "failing", "stopping", "stopped"}
  <1>1. CASE Started \/ GiveUp \/ Stop \/ Stopped
    BY <1>1 DEF Started, GiveUp, Stop, Stopped, Become
  <1>2. CASE UNCHANGED host  BY <1>2 DEF OutboundTypes
  <1> QED
    BY <1>1, <1>2
    DEF Next, Handle, Deliver, CountUser, CountGuild, BeginReceive, CommitReceive,
        ReceiveFails, Callback, SendLoop, Tick, Enqueue, EnqueueFails, TakeJob, Exit,
        ReadTarget, ReadTargetFails, SendOk, SendFails, Backoff, Record, RecordFails,
        others, vars

\* The fields of the job.
LEMMA JobFields ==
    ASSUME OutboundTypes
    PROVE  /\ job.at \in JobPlaces /\ job.m \in Msg \cup {None}
           /\ job.target \in Msg \cup {None} /\ job.try \in 0..Attempts
           /\ job = [at |-> job.at, m |-> job.m, target |-> job.target,
                     try |-> job.try]
  BY DEF OutboundTypes

LEMMA OutboundTypeStep ==
    ASSUME TypeOK, PassOnce, JobFits, [Next]_vars PROVE OutboundTypes'
  <1>i. OutboundTypes /\ InboundTypes  BY DEF TypeOK
  <1>h. host' \in {"starting", "up", "failing", "stopping", "stopped"}
    BY <1>i, HostType
  <1> DEFINE Jobs == [at : JobPlaces, m : Msg \cup {None},
                      target : Msg \cup {None}, try : 0..Attempts]
  <1>j. Idle \in Jobs  BY DEF Idle, JobPlaces
  <1>1. CASE UNCHANGED <<reply, outbound>>
    BY <1>i, <1>h, <1>1 DEF OutboundTypes, outbound
  <1>2. ASSUME NEW h \in Handler, Handle(h) PROVE OutboundTypes'
    <2>1. /\ UNCHANGED outbound
          /\ \/ reply' = reply
             \/ reply' = [reply EXCEPT ![msg[h]] = "asked"]
      BY <1>2, HandleOutbound
    <2> QED  BY <1>i, <1>h, <2>1 DEF OutboundTypes, outbound
  <1>3. ASSUME NEW m \in Msg, Enqueue(m) PROVE OutboundTypes'
    <2>1. queue' = Append(queue, m) /\ queue' \in Seq(Msg)
      BY <1>i, <1>3 DEF Enqueue, OutboundTypes
    <2>2. /\ reply' = [reply EXCEPT ![m] = "queued"]
          /\ UNCHANGED <<job, posted, lost, recorded>>
      BY <1>3 DEF Enqueue
    <2> QED  BY <1>i, <1>h, <2>1, <2>2 DEF OutboundTypes
  <1>4. ASSUME NEW m \in Msg, EnqueueFails(m) PROVE OutboundTypes'
    BY <1>i, <1>h, <1>4 DEF EnqueueFails, OutboundTypes, outbound
  <1>5. CASE SendLoop
    <2>1. reply' = reply  BY <1>5 DEF SendLoop, TakeJob, Exit, ReadTarget,
            ReadTargetFails, SendOk, SendFails, Backoff, Record, RecordFails, others
    <2>2. queue' \in Seq(Msg)
      <3>1. queue' = queue \/ (queue # <<>> /\ queue' = Tail(queue))
        BY <1>5
        DEF SendLoop, TakeJob, Exit, ReadTarget, ReadTargetFails, SendOk, SendFails,
            Backoff, Record, RecordFails
      <3>2. queue \in Seq(Msg)  BY <1>i DEF OutboundTypes
      <3>3. queue # <<>> => Tail(queue) \in Seq(Msg)
        BY <3>2, HeadTailProperties
      <3> QED  BY <3>1, <3>2, <3>3
    <2>3. /\ posted' \in [Msg -> Nat] /\ lost' \in [Msg -> Nat]
          /\ recorded' \subseteq Msg
      <3>t. /\ posted \in [Msg -> Nat] /\ lost \in [Msg -> Nat]
            /\ recorded \subseteq Msg
        BY <1>i DEF OutboundTypes
      <3>1. job.at \in Sending => job.m \in Msg  BY DEF JobFits, Sending
      <3>2. \/ UNCHANGED <<posted, lost, recorded>>
            \/ /\ job.at \in Sending
               /\ posted' = posted \/ posted' = [posted EXCEPT ![job.m] = @ + 1]
               /\ lost' = lost \/ lost' = [lost EXCEPT ![job.m] = @ + 1]
               /\ recorded' = recorded \/ recorded' = recorded \cup {job.m}
        BY <1>5
        DEF SendLoop, TakeJob, Exit, ReadTarget, ReadTargetFails, SendOk, SendFails,
            Backoff, Record, RecordFails, Sending
      <3> QED  BY <3>t, <3>1, <3>2
    <2>4. job' \in Jobs
      <3>f. job \in Jobs  BY <1>i DEF OutboundTypes
      <3>1. CASE TakeJob
        <4>1. Head(queue) \in Msg  BY <1>i, <3>1 DEF TakeJob, OutboundTypes
        <4>2. job' = [at |-> "target", m |-> Head(queue), target |-> None, try |-> 0]
          BY <3>1 DEF TakeJob, Idle
        <4> QED  BY <4>1, <4>2 DEF JobPlaces
      <3>2. CASE Exit \/ SendOk \/ SendFails
        <4>1. PICK p \in JobPlaces : job' = [job EXCEPT !.at = p]
          BY <3>2 DEF Exit, SendOk, SendFails, JobAt, JobPlaces, Sending
        <4> QED  BY <3>f, <4>1
      <3>3. CASE ReadTarget
        <4>1. PICK h \in Handler :
                 job' = [job EXCEPT !.at = "send", !.target = msg[h], !.try = 1]
          BY <3>3 DEF ReadTarget
        <4>2. /\ msg[h] \in Msg \cup {None} /\ 1 \in 0..Attempts
              /\ "send" \in JobPlaces
          BY <1>i DEF InboundTypes, JobPlaces, Sending
        <4> QED  BY <3>f, <4>1, <4>2
      <3>4. CASE Backoff
        <4>1. CASE job' = Idle  BY <1>j, <4>1
        <4>2. CASE job.try < Attempts
                   /\ job' = [job EXCEPT !.at = "send", !.try = @ + 1]
          <5>1. /\ job.try + 1 \in 0..Attempts /\ "send" \in JobPlaces
            BY <3>f, <4>2 DEF JobPlaces, Sending
          <5> QED  BY <3>f, <4>2, <5>1
        <4> QED  BY <3>4, <4>1, <4>2 DEF Backoff
      <3>5. CASE ReadTargetFails \/ Record \/ RecordFails
        BY <1>j, <3>5 DEF ReadTargetFails, Record, RecordFails
      <3> QED  BY <1>5, <3>1, <3>2, <3>3, <3>4, <3>5 DEF SendLoop
    <2> QED  BY <1>i, <1>h, <2>1, <2>2, <2>3, <2>4 DEF OutboundTypes
  <1> QED
    BY <1>1, <1>2, <1>3, <1>4, <1>5
    DEF Next, Tick, Started, GiveUp, Stop, Stopped, Become, vars, outbound

-----------------------------------------------------------------------------
(* What was stored stays.                                                  *)

\* A step of a handler, as rows and their order see it.
LEMMA HandleRows ==
    ASSUME TypeOK, PassOnce, NEW h \in Handler, Handle(h)
    PROVE  /\ place' = [place EXCEPT ![h] = place'[h]]
           /\ \/ msg' = msg
              \/ /\ place[h] = "idle" /\ msg' = [msg EXCEPT ![h] = msg'[h]]
                 /\ place'[h] = "user"
           /\ \/ begun' = begun /\ (place'[h] = "commit" => place[h] = "commit")
              \/ begun' = Append(begun, h) /\ place[h] = "receive"
           /\ \/ rows' = rows
              \/ rows' = rows \cup {h} /\ place[h] = "commit" /\ place'[h] = "done"
           /\ place[h] # "done"
           /\ \/ reply' = reply
              \/ /\ reply' = [reply EXCEPT ![msg[h]] = "asked"]
                 /\ msg' = msg /\ Stored(msg[h])'
  <1>1. place \in [Handler -> Places] /\ msg \in [Handler -> Msg \cup {None}]
    BY DEF TypeOK, InboundTypes
  <1>2. ASSUME NEW m \in Msg, Deliver(h, m)
        PROVE  msg' = [msg EXCEPT ![h] = msg'[h]] /\ place'[h] = "user"
    BY <1>1, <1>2 DEF Deliver, Goto
  <1>3. CASE \E m \in Msg : Deliver(h, m)  BY <1>1, <1>2, <1>3 DEF Deliver, Goto
  <1>4. CASE CountUser(h) \/ CountGuild(h)
    BY <1>1, <1>4 DEF CountUser, CountGuild, Goto
  <1>5. CASE BeginReceive(h)
    BY <1>1, <1>5 DEF BeginReceive, Callback, Goto, Stored
  <1>6. CASE CommitReceive(h)
    <2>1. rows' = rows \/ rows' = rows \cup {h}  BY <1>6 DEF CommitReceive
    <2>2. Stored(msg[h])'  BY <1>6 DEF CommitReceive, Stored
    <2> QED  BY <1>1, <1>6, <2>1, <2>2 DEF CommitReceive, Callback, Goto
  <1>7. CASE ReceiveFails(h)  BY <1>1, <1>7 DEF ReceiveFails, Goto
  <1> QED  BY <1>3, <1>4, <1>5, <1>6, <1>7 DEF Handle

\* A step of anyone else.
LEMMA OtherRows ==
    ASSUME [Next]_vars
    PROVE  \/ \E h \in Handler : Handle(h)
           \/ /\ UNCHANGED inbound
              /\ \/ reply' = reply
                 \/ \E m \in Msg : Enqueue(m) \/ EnqueueFails(m)
  BY DEF Next, SendLoop, inbound, limits, Tick, Enqueue, EnqueueFails, TakeJob,
         Exit, ReadTarget, ReadTargetFails, SendOk, SendFails, Backoff, Record,
         RecordFails, Started, GiveUp, Stop, Stopped, Become, others, vars

\* The order of created_at is never revised.
LEMMA BeforeKept ==
    ASSUME InboundTypes, NEW g, NEW h, Before(g, h),
           \/ begun' = begun
           \/ \E k \in Handler : begun' = Append(begun, k)
    PROVE  Before(g, h)'
  <1>1. begun \in Seq(Handler)  BY DEF InboundTypes
  <1>2. PICK i, j \in DOMAIN begun : i <= j /\ begun[i] = g /\ begun[j] = h
    BY DEF Before
  <1>3. CASE begun' = begun  BY <1>2, <1>3 DEF Before
  <1>4. ASSUME NEW k \in Handler, begun' = Append(begun, k) PROVE Before(g, h)'
    <2>1. /\ i \in DOMAIN begun' /\ j \in DOMAIN begun'
          /\ begun'[i] = g /\ begun'[j] = h
      BY <1>1, <1>2, <1>4
    <2> QED  BY <1>2, <2>1 DEF Before
  <1> QED  BY <1>3, <1>4

\* A row keeps its message, its handler is done, and rows only grow.
LEMMA RowsKept ==
    ASSUME TypeOK, PassOnce, RowsFit, [Next]_vars
    PROVE  /\ rows \subseteq rows'
           /\ \A h \in rows : msg'[h] = msg[h] /\ place'[h] = "done"
           /\ \A g, h \in rows : Before(g, h) => Before(g, h)'
           /\ \A m \in Msg : Stored(m) => Stored(m)'
  <1>t. /\ InboundTypes
        /\ place \in [Handler -> Places] /\ msg \in [Handler -> Msg \cup {None}]
        /\ rows \subseteq Handler
    BY DEF TypeOK, InboundTypes
  <1>1. /\ rows \subseteq rows'
        /\ \A h \in rows : msg'[h] = msg[h] /\ place'[h] = "done"
        /\ \/ begun' = begun
           \/ \E k \in Handler : begun' = Append(begun, k)
    <2>1. CASE UNCHANGED inbound  BY <2>1 DEF inbound, RowsFit
    <2>2. ASSUME NEW h \in Handler, Handle(h)
          PROVE  /\ rows \subseteq rows'
                 /\ \A g \in rows : msg'[g] = msg[g] /\ place'[g] = "done"
                 /\ \/ begun' = begun
                    \/ \E k \in Handler : begun' = Append(begun, k)
      <3>1. h \notin rows  BY <2>2, HandleRows DEF RowsFit
      <3>2. \A g \in rows : place'[g] = place[g] /\ msg'[g] = msg[g]
        BY <1>t, <2>2, <3>1, HandleRows
      <3>3. rows \subseteq rows'  BY <2>2, HandleRows
      <3>4. begun' = begun \/ begun' = Append(begun, h)  BY <2>2, HandleRows
      <3>5. \A g \in rows : place'[g] = "done"  BY <3>2 DEF RowsFit
      <3> QED  BY <3>2, <3>3, <3>4, <3>5
    <2> QED  BY <2>1, <2>2, OtherRows
  <1>2. \A g, h \in rows : Before(g, h) => Before(g, h)'
    BY <1>t, <1>1, BeforeKept
  <1> QED  BY <1>1, <1>2 DEF Stored

LEMMA RowsFitStep ==
    ASSUME TypeOK, PassOnce, RowsFit, [Next]_vars PROVE RowsFit'
  <1>t. /\ begun \in Seq(Handler) /\ rows \subseteq Handler
        /\ place \in [Handler -> Places]
        /\ reply \in [Msg -> {"none", "asked", "queued", "failed"}]
    BY DEF TypeOK, InboundTypes, OutboundTypes
  <1>1. \A h \in Handler : place'[h] = "commit" \/ h \in rows' =>
          \E i \in DOMAIN begun' : begun'[i] = h
    <2>1. CASE UNCHANGED inbound  BY <2>1 DEF inbound, RowsFit
    <2>2. ASSUME NEW h \in Handler, Handle(h),
                 NEW g \in Handler, place'[g] = "commit" \/ g \in rows'
          PROVE  \E i \in DOMAIN begun' : begun'[i] = g
      <3>1. CASE \E i \in DOMAIN begun : begun[i] = g
        <4>1. PICK i \in DOMAIN begun : begun[i] = g  BY <3>1
        <4>2. begun' = begun \/ begun' = Append(begun, h)  BY <2>2, HandleRows
        <4>3. CASE begun' = begun  BY <4>1, <4>3
        <4>4. CASE begun' = Append(begun, h)
          <5>1. i \in DOMAIN begun' /\ begun'[i] = g  BY <1>t, <4>1, <4>4
          <5> QED  BY <5>1
        <4> QED  BY <4>2, <4>3, <4>4
      <3>2. CASE ~\E i \in DOMAIN begun : begun[i] = g
        <4>1. place[g] # "commit" /\ g \notin rows  BY <3>2 DEF RowsFit
        <4>2. g = h /\ begun' = Append(begun, h)
          BY <1>t, <2>2, <4>1, HandleRows
        <4>3. Len(begun) + 1 \in DOMAIN begun' /\ begun'[Len(begun) + 1] = g
          BY <1>t, <4>2
        <4> QED  BY <4>3
      <3> QED  BY <3>1, <3>2
    <2> QED  BY <2>1, <2>2, OtherRows
  <1>2. \A h \in rows' : place'[h] = "done"
    <2>1. CASE UNCHANGED inbound  BY <2>1 DEF inbound, RowsFit
    <2>2. ASSUME NEW h \in Handler, Handle(h), NEW g \in rows'
          PROVE  place'[g] = "done"
      <3>1. CASE g \in rows  BY <3>1, RowsKept
      <3>2. CASE g \notin rows  BY <2>2, <3>2, HandleRows
      <3> QED  BY <3>1, <3>2
    <2> QED  BY <2>1, <2>2, OtherRows
  <1>3. ASSUME NEW m \in Msg, reply'[m] # "none" PROVE Stored(m)'
    <2>1. CASE reply[m] # "none"  BY <2>1, RowsKept DEF RowsFit
    <2>2. CASE reply[m] = "none"
      <3>1. reply' # reply  BY <1>3, <2>2
      <3>2. ASSUME NEW h \in Handler, Handle(h) PROVE Stored(m)'
        <4>1. /\ reply' = [reply EXCEPT ![msg[h]] = "asked"]
              /\ msg' = msg /\ Stored(msg[h])'
          BY <3>1, <3>2, HandleRows
        <4>2. m = msg[h]  BY <1>t, <1>3, <2>2, <4>1
        <4> QED  BY <4>1, <4>2
      <3>3. ASSUME NEW k \in Msg, Enqueue(k) \/ EnqueueFails(k) PROVE FALSE
        BY <1>t, <1>3, <2>2, <3>3 DEF Enqueue, EnqueueFails
      <3> QED  BY <3>1, <3>2, <3>3, OtherRows
    <2> QED  BY <2>1, <2>2
  <1> QED  BY <1>1, <1>2, <1>3 DEF RowsFit

-----------------------------------------------------------------------------
(* The send queue and the send loop.                                       *)

\* A step that is not the send loop's, as the replies see it.
LEMMA NotSending ==
    ASSUME TypeOK, PassOnce, [Next]_vars, ~SendLoop
    PROVE  /\ UNCHANGED <<job, posted, lost, recorded>>
           /\ \/ UNCHANGED <<queue, reply>>
              \/ /\ queue' = queue
                 /\ \E m \in Msg : \/ /\ reply[m] = "none"
                                    /\ reply' = [reply EXCEPT ![m] = "asked"]
                                 \/ /\ reply[m] = "asked"
                                    /\ reply' = [reply EXCEPT ![m] = "failed"]
              \/ \E m \in Msg : /\ reply[m] = "asked"
                                 /\ reply' = [reply EXCEPT ![m] = "queued"]
                                 /\ queue' = Append(queue, m)
  <1>1. CASE \E h \in Handler : Handle(h)  BY <1>1, HandleOutbound DEF outbound
  <1>2. CASE \E m \in Msg : Enqueue(m)  BY <1>2 DEF Enqueue
  <1>3. CASE \E m \in Msg : EnqueueFails(m)  BY <1>3 DEF EnqueueFails, outbound
  <1>4. CASE UNCHANGED <<reply, outbound>>  BY <1>4 DEF outbound
  <1> QED
    BY <1>1, <1>2, <1>3, <1>4
    DEF Next, Tick, Started, GiveUp, Stop, Stopped, Become, vars

\* What has been posted of the reply in hand.
LEMMA JobFitsStep ==
    ASSUME TypeOK, PassOnce, RowsFit, JobFits, QueueFits, [Next]_vars
    PROVE  JobFits'
  <1>t. /\ job \in [at : JobPlaces, m : Msg \cup {None},
                    target : Msg \cup {None}, try : 0..Attempts]
        /\ posted \in [Msg -> Nat] /\ lost \in [Msg -> Nat]
        /\ reply \in [Msg -> {"none", "asked", "queued", "failed"}]
        /\ queue \in Seq(Msg)
    BY DEF TypeOK, OutboundTypes
  <1>n. Attempts \in Nat /\ Attempts > 0  OBVIOUS
  <1>1. CASE ~SendLoop
    <2>1. UNCHANGED <<job, posted, lost>>  BY <1>1, NotSending
    <2>2. \A m \in Msg : reply[m] = "queued" => reply'[m] = "queued"
      BY <1>t, <1>1, NotSending
    <2> QED  BY <2>1, <2>2 DEF JobFits
  <1>i. CASE job' = Idle
    BY <1>i DEF JobFits, Idle, Sending
  <1>2. CASE TakeJob
    <2>1. /\ 1 \in DOMAIN queue /\ queue[1] = Head(queue) /\ Head(queue) \in Msg
      BY <1>t, <1>2 DEF TakeJob
    <2>2. /\ job'.at = "target" /\ job'.m = Head(queue)
          /\ UNCHANGED <<reply, posted, lost>>
      BY <1>2 DEF TakeJob, Idle, others
    <2> QED  BY <2>1, <2>2 DEF JobFits, QueueFits, Fresh, Sending
  <1>3. CASE Exit
    <2>1. job = Idle  BY <1>3 DEF Exit, JobFits, Idle
    <2>2. job' = [Idle EXCEPT !.at = "exited"]  BY <1>3, <2>1 DEF Exit, JobAt
    <2> QED  BY <2>2 DEF JobFits, Idle, Sending
  <1>4. CASE ReadTarget
    <2>1. PICK h \in Handler :
             /\ Latest(h, job.m)
             /\ job' = [job EXCEPT !.at = "send", !.target = msg[h], !.try = 1]
      BY <1>4 DEF ReadTarget
    <2>2. /\ job.at = "target" /\ UNCHANGED <<reply, posted, lost>>
      BY <1>4 DEF ReadTarget, others
    <2>3. /\ job'.at = "send" /\ job'.m = job.m /\ job'.try = 1
          /\ job'.target = msg[h]
      BY <1>t, <2>1
    <2>4. /\ job.m \in Msg /\ reply[job.m] = "queued"
          /\ posted[job.m] = 0 /\ lost[job.m] = 0
      BY <2>2 DEF JobFits
    <2>5. msg[h] \in Msg
      <3>1. h \in rows  BY <2>1 DEF Latest
      <3> QED  BY <3>1 DEF PassOnce, RowsFit, TypeOK
    <2> QED  BY <2>2, <2>3, <2>4, <2>5 DEF JobFits, Sending
  <1>5. CASE SendOk
    <2>1. /\ job'.at = "record" /\ job'.m = job.m /\ job'.try = job.try
          /\ job'.target = job.target
          /\ posted' = [posted EXCEPT ![job.m] = @ + 1]
          /\ job.at \in {"send", "second"} /\ UNCHANGED <<reply, lost>>
      BY <1>t, <1>5 DEF SendOk, JobAt, others
    <2>2. /\ job.m \in Msg /\ reply[job.m] = "queued"
          /\ job.target \in Msg /\ job.try > 0
          /\ posted[job.m] = lost[job.m] /\ lost[job.m] <= 2 * job.try
          /\ job.try \in Nat /\ lost[job.m] \in Nat
      BY <1>t, <2>1 DEF JobFits, Sending
    <2>3. posted'[job.m] = lost[job.m] + 1  BY <1>t, <2>1, <2>2
    <2> QED  BY <2>1, <2>2, <2>3 DEF JobFits, Sending
  <1>6. CASE SendFails
    <2>1. /\ job'.at \in {"backoff", "second"}
          /\ job'.at = "second" => job.at = "send"
          /\ job'.m = job.m /\ job'.try = job.try /\ job'.target = job.target
          /\ job.at \in {"send", "second"} /\ UNCHANGED reply
          /\ \/ UNCHANGED <<posted, lost>>
             \/ /\ posted' = [posted EXCEPT ![job.m] = @ + 1]
                /\ lost' = [lost EXCEPT ![job.m] = @ + 1]
      BY <1>t, <1>6 DEF SendFails, JobAt, others
    <2>2. /\ job.m \in Msg /\ reply[job.m] = "queued"
          /\ job.target \in Msg /\ job.try > 0
          /\ posted[job.m] = lost[job.m]
          /\ job.try \in Nat /\ lost[job.m] \in Nat
          /\ job.at = "send" => lost[job.m] <= 2 * job.try - 2
          /\ job.at = "second" => lost[job.m] <= 2 * job.try - 1
      BY <1>t, <2>1 DEF JobFits, Sending
    <2>3. /\ posted'[job.m] = lost'[job.m]
          /\ lost'[job.m] \in {lost[job.m], lost[job.m] + 1}
      BY <1>t, <2>1, <2>2
    <2> QED  BY <2>1, <2>2, <2>3 DEF JobFits, Sending
  <1>7. ASSUME Backoff, job' # Idle PROVE JobFits'
    <2>1. /\ job.at = "backoff" /\ UNCHANGED <<reply, posted, lost>>
          /\ job' = [job EXCEPT !.at = "send", !.try = @ + 1]
      BY <1>7 DEF Backoff, others
    <2>2. /\ job'.at = "send" /\ job'.m = job.m /\ job'.target = job.target
          /\ job'.try = job.try + 1
      BY <1>t, <2>1
    <2>3. /\ job.m \in Msg /\ reply[job.m] = "queued"
          /\ job.target \in Msg /\ job.try > 0
          /\ posted[job.m] = lost[job.m] /\ lost[job.m] <= 2 * job.try
          /\ job.try \in Nat /\ lost[job.m] \in Nat
      BY <1>t, <2>1 DEF JobFits, Sending
    <2> QED  BY <2>1, <2>2, <2>3 DEF JobFits, Sending
  <1>8. CASE ReadTargetFails \/ Record \/ RecordFails
    BY <1>i, <1>8 DEF ReadTargetFails, Record, RecordFails
  <1> QED  BY <1>1, <1>i, <1>2, <1>3, <1>4, <1>5, <1>6, <1>7, <1>8 DEF SendLoop

\* The send loop, as the queue sees it: it takes the head, or goes on with
\* the reply in hand, and posts no other.
LEMMA Sends ==
    ASSUME TypeOK, JobFits, SendLoop
    PROVE  /\ reply' = reply
           /\ \/ TakeJob
              \/ /\ queue' = queue
                 /\ job'.m = job.m \/ job'.m = None
                 /\ \A m \in Msg : m # job.m =>
                      posted'[m] = posted[m] /\ lost'[m] = lost[m]
  <1>t. /\ job \in [at : JobPlaces, m : Msg \cup {None},
                    target : Msg \cup {None}, try : 0..Attempts]
        /\ posted \in [Msg -> Nat] /\ lost \in [Msg -> Nat]
    BY DEF TypeOK, OutboundTypes
  <1>1. CASE TakeJob  BY <1>1 DEF TakeJob, others
  <1>2. CASE ReadTarget
    <2>1. PICK h \in Handler :
             job' = [job EXCEPT !.at = "send", !.target = msg[h], !.try = 1]
      BY <1>2 DEF ReadTarget
    <2> QED  BY <1>t, <1>2, <2>1 DEF ReadTarget, others
  <1>3. CASE Exit \/ ReadTargetFails \/ Backoff \/ Record \/ RecordFails
    <2>1. Idle.m = None  BY DEF Idle
    <2>2. /\ UNCHANGED <<reply, queue, posted, lost>>
          /\ \/ job' = Idle
             \/ job' = [job EXCEPT !.at = "exited"]
             \/ job' = [job EXCEPT !.at = "send", !.try = @ + 1]
      BY <1>3
      DEF Exit, ReadTargetFails, Backoff, Record, RecordFails, JobAt, others
    <2> QED  BY <1>t, <2>1, <2>2
  <1>4. CASE SendOk \/ SendFails
    BY <1>t, <1>4 DEF SendOk, SendFails, JobAt, others
  <1> QED  BY <1>1, <1>2, <1>3, <1>4 DEF SendLoop

LEMMA QueueFitsStep ==
    ASSUME TypeOK, PassOnce, JobFits, QueueFits, [Next]_vars PROVE QueueFits'
  <1>t. /\ queue \in Seq(Msg)
        /\ reply \in [Msg -> {"none", "asked", "queued", "failed"}]
    BY DEF TypeOK, OutboundTypes
  <1>1. CASE ~SendLoop
    <2>1. \A m : Fresh(m)' <=> Fresh(m)  BY <1>1, NotSending DEF Fresh
    <2>2. CASE queue' = queue
      <3>1. \A m \in Msg : reply'[m] # "queued" => reply[m] # "queued"
        BY <1>t, <1>1, NotSending
      <3>2. \A m \in Msg : reply[m] = "queued" => reply'[m] = "queued"
        BY <1>t, <1>1, NotSending
      <3>3. \A i \in DOMAIN queue : queue[i] \in Msg  BY <1>t
      <3> QED  BY <2>1, <2>2, <3>1, <3>2, <3>3 DEF QueueFits
    <2>3. ASSUME NEW m \in Msg, reply[m] = "asked",
                 reply' = [reply EXCEPT ![m] = "queued"], queue' = Append(queue, m)
          PROVE  QueueFits'
      <3>1. Fresh(m)  BY <2>3 DEF QueueFits
      <3>2. \A i \in DOMAIN queue : queue[i] \in Msg /\ queue[i] # m
        BY <1>t, <2>3 DEF QueueFits
      <3>3. /\ DOMAIN queue' = DOMAIN queue \cup {Len(queue) + 1}
            /\ \A i \in DOMAIN queue : queue'[i] = queue[i]
            /\ queue'[Len(queue) + 1] = m
        BY <1>t, <2>3
      <3>4. reply'[m] = "queued" /\ \A k \in Msg : k # m => reply'[k] = reply[k]
        BY <1>t, <2>3
      <3>5. \A k \in Msg : reply'[k] # "queued" => Fresh(k)
        BY <3>4 DEF QueueFits
      <3>6. \A i \in DOMAIN queue' :
              /\ Fresh(queue'[i]) /\ reply'[queue'[i]] = "queued"
              /\ \A j \in DOMAIN queue' : queue'[i] = queue'[j] => i = j
        <4> SUFFICES ASSUME NEW i \in DOMAIN queue'
                     PROVE  /\ Fresh(queue'[i]) /\ reply'[queue'[i]] = "queued"
                            /\ \A j \in DOMAIN queue' : queue'[i] = queue'[j] => i = j
          OBVIOUS
        <4>1. CASE i \in DOMAIN queue
          BY <3>2, <3>3, <3>4, <4>1 DEF QueueFits
        <4>2. CASE i = Len(queue) + 1
          BY <3>1, <3>2, <3>3, <3>4, <4>2
        <4> QED  BY <3>3, <4>1, <4>2
      <3> QED  BY <2>1, <3>5, <3>6 DEF QueueFits
    <2> QED  BY <1>1, <2>2, <2>3, NotSending
  <1>2. CASE TakeJob
    <2>1. /\ queue # <<>> /\ queue' = Tail(queue) /\ job'.m = Head(queue)
          /\ job.m = None /\ UNCHANGED <<reply, posted, lost>>
      BY <1>2 DEF TakeJob, others, Idle, JobFits
    <2>2. /\ 1 \in DOMAIN queue /\ Head(queue) = queue[1]
          /\ \A i \in DOMAIN Tail(queue) : /\ i + 1 \in DOMAIN queue
                                           /\ Tail(queue)[i] = queue[i + 1]
                                           /\ i \in Nat /\ i + 1 # 1
      BY <1>t, <2>1
    <2>3. \A m \in Msg : Fresh(m) /\ m # queue[1] => Fresh(m)'
      BY <2>1, <2>2 DEF Fresh
    <2>4. ASSUME NEW m \in Msg, reply'[m] # "queued" PROVE Fresh(m)'
      <3>1. reply[m] # "queued"  BY <2>1, <2>4
      <3>2. Fresh(m)  BY <3>1 DEF QueueFits
      <3>3. m # queue[1]  BY <2>2, <3>1 DEF QueueFits
      <3> QED  BY <2>3, <3>2, <3>3
    <2>5. ASSUME NEW i \in DOMAIN queue'
          PROVE  /\ Fresh(queue[i])' /\ reply'[queue'[i]] = "queued"
                 /\ \A j \in DOMAIN queue' : queue'[i] = queue'[j] => i = j
      <3>1. /\ queue'[i] = queue[i + 1] /\ i + 1 \in DOMAIN queue
            /\ queue[i + 1] \in Msg /\ queue[i + 1] # queue[1]
            /\ i \in Nat /\ reply[queue[i + 1]] = "queued"
        BY <1>t, <2>1, <2>2 DEF QueueFits
      <3>2. Fresh(queue[i])'
        <4>1. Fresh(queue[i + 1])  BY <3>1 DEF QueueFits
        <4>2. \A m \in Msg : m = queue[i + 1] => Fresh(m)'
          BY <2>3, <3>1, <4>1
        <4> QED  BY <3>1, <4>2 DEF Fresh
      <3>3. ASSUME NEW j \in DOMAIN queue', queue'[i] = queue'[j] PROVE i = j
        <4>1. j + 1 \in DOMAIN queue /\ queue[j + 1] = queue[i + 1]
          BY <2>1, <2>2, <3>1, <3>3
        <4>2. i + 1 = j + 1  BY <3>1, <4>1 DEF QueueFits
        <4> QED  BY <2>1, <2>2, <4>2
      <3> QED  BY <2>1, <3>1, <3>2, <3>3
    <2> QED  BY <2>4, <2>5, Zenon DEF QueueFits
  <1>3. CASE SendLoop /\ ~TakeJob
    <2>1. \A m \in Msg : Fresh(m) => Fresh(m)'  BY <1>3, Sends DEF Fresh
    <2>2. \A i \in DOMAIN queue : queue[i] \in Msg  BY <1>t
    <2> QED  BY <1>3, <2>1, <2>2, Sends DEF QueueFits
  <1> QED  BY <1>1, <1>2, <1>3

LEMMA DuplicatesLostStep ==
    ASSUME TypeOK, PassOnce, RowsFit, JobFits, QueueFits, DuplicatesLost, [Next]_vars
    PROVE  DuplicatesLost'
  <1>t. /\ job \in [at : JobPlaces, m : Msg \cup {None},
                    target : Msg \cup {None}, try : 0..Attempts]
        /\ posted \in [Msg -> Nat] /\ lost \in [Msg -> Nat]
    BY DEF TypeOK, OutboundTypes
  <1>1. CASE UNCHANGED <<posted, lost>>  BY <1>1 DEF DuplicatesLost
  <1>2. CASE SendOk \/ SendFails
    <2>1. ASSUME NEW m \in Msg, m # job.m
          PROVE  posted'[m] <= lost'[m] + 1 /\ lost'[m] <= 2 * Attempts
      BY <1>t, <1>2, <2>1 DEF SendOk, SendFails, DuplicatesLost
    <2>2. /\ job.m \in Msg /\ job.at \in {"send", "second"}
          /\ posted[job.m] = lost[job.m] /\ lost[job.m] <= 2 * job.try - 1
          /\ posted[job.m] \in Nat /\ lost[job.m] \in Nat
          /\ job.try \in Nat /\ job.try <= Attempts /\ Attempts \in Nat
      BY <1>t, <1>2 DEF SendOk, SendFails, JobFits, Sending
    <2>3. /\ posted'[job.m] \in {posted[job.m], posted[job.m] + 1}
          /\ \/ lost'[job.m] = lost[job.m]
             \/ lost'[job.m] = lost[job.m] + 1
      BY <1>t, <1>2, <2>2 DEF SendOk, SendFails
    <2>4. posted'[job.m] <= lost'[job.m] + 1 /\ lost'[job.m] <= 2 * Attempts
      BY <2>2, <2>3
    <2> QED  BY <2>1, <2>4 DEF DuplicatesLost
  <1> QED
    BY <1>1, <1>2, NotSending
    DEF SendLoop, TakeJob, Exit, ReadTarget, ReadTargetFails, Backoff, Record,
        RecordFails

\* Two messages of one conversation, one of them direct, are both direct and
\* of one author.
LEMMA DirectKey ==
    ASSUME NEW m \in Msg, NEW n \in Msg, m.guild = None,
           ConversationKey(n) = ConversationKey(m)
    PROVE  n.author = m.author
  <1>1. ConversationKey(m) = <<"dm", m.author>>  BY DEF ConversationKey
  <1>2. Len(ConversationKey(m)) = 2  BY <1>1
  <1>3. CASE n.guild # None
    <2>1. Len(ConversationKey(n)) = 3  BY <1>3 DEF ConversationKey
    <2> QED  BY <1>2, <2>1
  <1>4. CASE n.guild = None
    <2>1. ConversationKey(n) = <<"dm", n.author>>  BY <1>4 DEF ConversationKey
    <2> QED  BY <1>1, <2>1
  <1> QED  BY <1>3, <1>4

\* The target is aimed where the reply belongs from the moment it is read.
LEMMA TargetFitsStep ==
    ASSUME TypeOK, PassOnce, RowsFit, JobFits, TargetFits, [Next]_vars
    PROVE  TargetFits'
  <1>t. job \in [at : JobPlaces, m : Msg \cup {None},
                 target : Msg \cup {None}, try : 0..Attempts]
    BY DEF TypeOK, OutboundTypes
  <1>1. CASE job.at \in Sending /\ job'.m = job.m /\ job'.target = job.target
    <2>1. /\ ConversationKey(job.target) = ConversationKey(job.m)
          /\ job.m.guild = None => job.target.author = job.m.author
      BY <1>1 DEF TargetFits
    <2>2. PICK g, h \in rows :
             msg[g] = job.m /\ msg[h] = job.target /\ Before(g, h)
      BY <1>1 DEF TargetFits
    <2>3. g \in rows' /\ h \in rows' /\ msg'[g] = job.m /\ msg'[h] = job.target
          /\ Before(g, h)'
      BY <2>2, RowsKept
    <2> QED  BY <1>1, <2>1, <2>3 DEF TargetFits, ConversationKey
  <1>2. CASE job'.at \notin Sending  BY <1>2 DEF TargetFits
  <1>3. CASE ReadTarget
    <2>1. PICK h \in Handler :
             /\ Latest(h, job.m)
             /\ job' = [job EXCEPT !.at = "send", !.target = msg[h], !.try = 1]
      BY <1>3 DEF ReadTarget
    <2>2. /\ job'.m = job.m /\ job'.target = msg[h]
          /\ UNCHANGED inbound
      BY <1>t, <1>3, <2>1 DEF ReadTarget, others
    <2>3. job.m \in Msg /\ reply[job.m] = "queued"
      BY <1>3 DEF ReadTarget, JobFits
    <2>4. PICK g \in rows : msg[g] = job.m  BY <2>3 DEF RowsFit, Stored
    <2>5. h \in rows /\ ConversationKey(msg[h]) = ConversationKey(job.m)
          /\ Before(g, h)
      BY <2>1, <2>4 DEF Latest, InConversation
    <2>6. msg[h] \in Msg  BY <2>5 DEF PassOnce, RowsFit, TypeOK, InboundTypes
    <2>7. job.m.guild = None => msg[h].author = job.m.author
      BY <2>3, <2>5, <2>6, DirectKey
    <2>8. g \in rows' /\ h \in rows' /\ msg' = msg /\ Before(g, h)'
      BY <2>2, <2>4, <2>5 DEF inbound, Before
    <2> QED  BY <2>2, <2>4, <2>5, <2>7, <2>8 DEF TargetFits, ConversationKey
  <1>4. CASE UNCHANGED job  BY <1>1, <1>2, <1>4
  <1>5. CASE Exit \/ TakeJob \/ ReadTargetFails \/ Record \/ RecordFails
    <2>1. CASE Exit  BY <1>t, <1>2, <2>1 DEF Exit, JobAt, Sending
    <2>2. CASE TakeJob  BY <1>2, <2>2 DEF TakeJob, Idle, Sending
    <2>3. CASE job' = Idle  BY <1>2, <2>3 DEF Idle, Sending
    <2> QED
      BY <1>5, <2>1, <2>2, <2>3 DEF ReadTargetFails, Record, RecordFails
  <1>6. CASE SendOk \/ SendFails
    BY <1>t, <1>1, <1>6 DEF SendOk, SendFails, JobAt, Sending
  <1>7. CASE Backoff
    <2>1. CASE job' = Idle  BY <1>2, <2>1 DEF Idle, Sending
    <2>2. CASE job' = [job EXCEPT !.at = "send", !.try = @ + 1]
      BY <1>t, <1>1, <1>7, <2>2 DEF Backoff, Sending
    <2> QED  BY <1>7, <2>1, <2>2 DEF Backoff
  <1> QED
    BY <1>3, <1>4, <1>5, <1>6, <1>7, NotSending DEF SendLoop

-----------------------------------------------------------------------------
(* The invariant.                                                          *)

LEMMA InitInv == Init => MessageInv
  <1> SUFFICES ASSUME Init PROVE MessageInv  OBVIOUS
  <1> USE DEF Init
  <1>1. LimitTypes
    <2>1. Unused \in [start : {-Window} \cup 0..now, count : Nat]  BY DEF Unused
    <2> QED  BY <2>1 DEF LimitTypes
  <1>2. InboundTypes  BY DEF InboundTypes, Places
  <1>3. OutboundTypes  BY DEF OutboundTypes, Idle, JobPlaces
  <1>4. PassOnce  BY FS_EmptySet DEF PassOnce
  <1>5. WindowsKept
    <2>1. \A k \in Keys : InWindow(k, bucket[k].start) = {}  BY DEF InWindow
    <2>2. \A k \in Keys : bucket[k].count = 0  BY DEF Unused
    <2> QED  BY <2>1, <2>2, FS_EmptySet DEF WindowsKept
  <1>6. WindowsApart  BY DEF WindowsApart
  <1>7. RowsFit  BY DEF RowsFit
  <1>8. JobFits  BY DEF JobFits, Idle, Sending
  <1>9. QueueFits
    <2>1. \A m \in Msg : Fresh(m)  BY DEF Fresh, Idle
    <2> QED  BY <2>1 DEF QueueFits
  <1>10. DropJustified  BY DEF DropJustified, DroppedBy
  <1>11. TargetFits  BY DEF TargetFits, Idle, Sending
  <1>12. DuplicatesLost  BY DEF DuplicatesLost
  <1> QED
    BY <1>1, <1>2, <1>3, <1>4, <1>5, <1>6, <1>7, <1>8, <1>9, <1>10, <1>11, <1>12
    DEF MessageInv, TypeOK

\* The limits of the Discord runtime, its rows and its send loop keep the
\* invariant, for any messages, limits and number of attempts.
THEOREM MessageInvariant == Spec => []MessageInv
  <1>1. MessageInv /\ [Next]_vars => MessageInv'
    <2> SUFFICES ASSUME MessageInv, [Next]_vars PROVE MessageInv'  OBVIOUS
    <2> USE DEF MessageInv
    <2>1. LimitTypes'  BY LimitSteps, LimitTypeStep
    <2>2. InboundTypes' /\ OutboundTypes'  BY InboundTypeStep, OutboundTypeStep
    <2>3. PassOnce'  BY PassOnceStep
    <2>4. WindowsKept' /\ WindowsApart'  BY WindowsStep
    <2>5. DropJustified'  BY DropStep
    <2>6. RowsFit' /\ JobFits' /\ QueueFits'
      BY RowsFitStep, JobFitsStep, QueueFitsStep
    <2>7. TargetFits' /\ DuplicatesLost'  BY TargetFitsStep, DuplicatesLostStep
    <2> QED  BY <2>1, <2>2, <2>3, <2>4, <2>5, <2>6, <2>7 DEF TypeOK
  <1> QED  BY InitInv, <1>1, PTL DEF Spec

\* The windows that begin within any minute let through what the limit is set
\* to, and of the messages of any minute at most twice as many pass in windows
\* that had begun when they came, however late the others reach the mutex.
THEOREM WindowCapHolds == Spec => []WindowCap
  <1>1. MessageInv => WindowCap  BY WindowBound DEF MessageInv, TypeOK
  <1> QED  BY <1>1, MessageInvariant, PTL

\* A message is dropped only for a window that is full.
THEOREM DropJustifiedHolds == Spec => []DropJustified
  <1>1. MessageInv => DropJustified  BY DEF MessageInv
  <1> QED  BY <1>1, MessageInvariant, PTL

\* A reply is aimed at the conversation, and the author, it answers.
THEOREM TargetFitsHolds == Spec => []TargetFits
  <1>1. MessageInv => TargetFits  BY DEF MessageInv
  <1> QED  BY <1>1, MessageInvariant, PTL

\* Every further copy of a reply stands for an answer that was lost.
THEOREM DuplicatesLostHolds == Spec => []DuplicatesLost
  <1>1. MessageInv => DuplicatesLost  BY DEF MessageInv
  <1> QED  BY <1>1, MessageInvariant, PTL

-----------------------------------------------------------------------------
(* The send queue implements the outbox.                                   *)

Shown == {m \in Msg : posted[m] > 0}
Open == job.at # "exited"

\* A step of the send loop is a step of the outbox.
LEMMA SendRefines ==
    ASSUME MessageInv, SendLoop
    PROVE  OutboxView!Next \/ UNCHANGED <<queue, job.m, Shown, recorded, Open>>
  <1>t. /\ job \in [at : JobPlaces, m : Msg \cup {None},
                    target : Msg \cup {None}, try : 0..Attempts]
        /\ posted \in [Msg -> Nat] /\ lost \in [Msg -> Nat]
    BY DEF MessageInv, TypeOK, OutboundTypes
  <1>n. None \notin Msg  OBVIOUS
  <1>f. JobFits  BY DEF MessageInv
  <1> USE DEF Shown, Open
  <1>1. CASE TakeJob
    <2>1. job.m = None  BY <1>f, <1>1 DEF TakeJob, JobFits, Idle
    <2>2. OutboxView!Take  BY <1>1, <2>1 DEF TakeJob, Idle, OutboxView!Take
    <2> QED  BY <2>2 DEF OutboxView!Next
  <1>2. CASE Exit
    <2>1. job.m = None  BY <1>f, <1>2 DEF Exit, JobFits, Idle
    <2>2. job'.at = "exited" /\ job'.m = None
      BY <1>t, <1>2, <2>1 DEF Exit, JobAt
    <2>3. OutboxView!Close  BY <1>2, <2>1, <2>2 DEF Exit, OutboxView!Close
    <2> QED  BY <2>3 DEF OutboxView!Next
  <1>3. CASE ReadTarget
    <2>1. PICK h \in Handler :
             job' = [job EXCEPT !.at = "send", !.target = msg[h], !.try = 1]
      BY <1>3 DEF ReadTarget
    <2> QED  BY <1>t, <1>3, <2>1 DEF ReadTarget
  <1>4. CASE /\ job.at \in {"send", "second"}
             /\ posted' = [posted EXCEPT ![job.m] = @ + 1]
             /\ SendOk \/ SendFails
    <2>1. job.m \in Msg  BY <1>f, <1>4 DEF JobFits
    <2>2. Shown' = Shown \cup {job.m}  BY <1>t, <1>4, <2>1
    <2>3. job'.m = job.m /\ Open /\ Open' /\ UNCHANGED <<queue, recorded>>
      BY <1>t, <1>4 DEF SendOk, SendFails, JobAt
    <2>4. OutboxView!Post
      BY <1>n, <2>1, <2>2, <2>3 DEF OutboxView!Post
    <2> QED  BY <2>4 DEF OutboxView!Next
  <1>5. CASE SendFails /\ UNCHANGED posted
    BY <1>t, <1>5 DEF SendFails, JobAt
  <1>6. ASSUME job' = Idle, job.at \in {"target", "backoff", "record"},
               UNCHANGED <<queue, posted>>,
               \/ recorded' = recorded
               \/ job.at = "record" /\ recorded' = recorded \cup {job.m}
        PROVE  OutboxView!Next
    <2>1. job.m \in Msg /\ job'.m = None  BY <1>f, <1>6 DEF JobFits, Idle
    <2>2. job.at = "record" => {job.m} \cap Shown = {job.m}
      BY <1>t, <1>f, <2>1 DEF JobFits
    <2>3. Open /\ Open'  BY <1>6 DEF Idle
    <2>4. OutboxView!Finish
      BY <1>n, <1>6, <2>1, <2>2, <2>3 DEF OutboxView!Finish
    <2> QED  BY <2>4 DEF OutboxView!Next
  <1>7. CASE ReadTargetFails \/ Record \/ RecordFails
    BY <1>6, <1>7 DEF ReadTargetFails, Record, RecordFails
  <1>8. CASE Backoff
    <2>1. CASE job' = Idle  BY <1>6, <1>8, <2>1 DEF Backoff
    <2>2. CASE job' = [job EXCEPT !.at = "send", !.try = @ + 1]
      BY <1>t, <1>8, <2>2 DEF Backoff
    <2> QED  BY <1>8, <2>1, <2>2 DEF Backoff
  <1> QED
    BY <1>1, <1>2, <1>3, <1>4, <1>5, <1>7, <1>8 DEF SendLoop, SendOk, SendFails

\* Replies are taken one at a time and in order, recorded only if Discord has
\* them, and none that was given up appears later.
THEOREM OutboxImplemented == Spec => ImplementsOutbox
  <1>1. Init => OutboxView!Init
    BY DEF Init, OutboxView!Init, Idle
  <1>2. MessageInv /\ [Next]_vars => [OutboxView!Next]_(OutboxView!vars)
    <2> SUFFICES ASSUME MessageInv, [Next]_vars
                 PROVE  \/ OutboxView!Next
                        \/ UNCHANGED <<queue, job.m, Shown, recorded, Open>>
      BY DEF OutboxView!vars, Shown, Open
    <2>1. CASE SendLoop  BY <2>1, SendRefines
    <2>2. CASE ~SendLoop
      <3>1. UNCHANGED <<job, posted, recorded>>
        BY <2>2, NotSending DEF MessageInv
      <3>2. UNCHANGED <<job.m, Shown, recorded, Open>>
        BY <3>1 DEF Shown, Open
      <3>3. CASE queue' = queue  BY <3>2, <3>3
      <3>4. ASSUME NEW m \in Msg, queue' = Append(queue, m)
            PROVE  OutboxView!Next
        <4>1. OutboxView!Accept(m)
          BY <3>1, <3>4 DEF OutboxView!Accept
        <4> QED  BY <4>1 DEF OutboxView!Next
      <3> QED  BY <2>2, <3>3, <3>4, NotSending DEF MessageInv
    <2> QED  BY <2>1, <2>2
  <1> QED
    BY <1>1, <1>2, MessageInvariant, PTL
    DEF Spec, ImplementsOutbox, OutboxView!Spec
-----------------------------------------------------------------------------
(* What a stop leaves behind.                                              *)

\* Stop returns only when the send loop has left; it does not come back.
LoopLeft == host = "stopped" => job.at = "exited"

LEMMA ExitedStays ==
    ASSUME MessageInv, [Next]_vars, job.at = "exited"
    PROVE  UNCHANGED <<job, posted, recorded>>
  <1>1. ~SendLoop
    BY DEF SendLoop, TakeJob, Exit, ReadTarget, ReadTargetFails, SendOk, SendFails,
           Backoff, Record, RecordFails
  <1> QED  BY <1>1, NotSending DEF MessageInv

LEMMA LoopLeftStep ==
    ASSUME MessageInv, LoopLeft, [Next]_vars PROVE LoopLeft'
  <1>1. CASE job.at = "exited"  BY <1>1, ExitedStays DEF LoopLeft
  <1>2. CASE job.at # "exited"
    <2>1. host # "stopped" /\ ~Stopped  BY <1>2 DEF LoopLeft, Stopped
    <2>2. Started \/ GiveUp \/ Stop => host' # "stopped"
      BY DEF Started, GiveUp, Stop, Become
    <2>3. (\E h \in Handler : Handle(h)) => UNCHANGED host
      BY HandleOutbound DEF MessageInv
    <2>4. SendLoop => UNCHANGED host
      <3>1. SendLoop => UNCHANGED others
        BY Zenon DEF SendLoop, TakeJob, Exit, ReadTarget, ReadTargetFails, SendOk,
                     SendFails, Backoff, Record, RecordFails
      <3> QED  BY <3>1 DEF others
    <2>5. (\E m \in Msg : Enqueue(m) \/ EnqueueFails(m)) \/ Tick \/ UNCHANGED vars
            => UNCHANGED host
      BY DEF Enqueue, EnqueueFails, Tick, vars
    <2>6. UNCHANGED host \/ Started \/ GiveUp \/ Stop
      BY <2>1, <2>3, <2>4, <2>5 DEF Next
    <2> QED  BY <2>1, <2>2, <2>6 DEF LoopLeft
  <1> QED  BY <1>1, <1>2

\* Nothing is posted or recorded once Stop has returned: it waits for the send
\* loop, which leaves between two jobs only.
THEOREM NothingAfterStopHolds == Spec => NothingAfterStop
  <1>1. Init => LoopLeft  BY DEF Init, LoopLeft
  <1>2. MessageInv /\ LoopLeft /\ [Next]_vars => LoopLeft'  BY LoopLeftStep
  <1>3. MessageInv /\ LoopLeft /\ [Next]_vars
          => [host = "stopped" => UNCHANGED <<job, posted, recorded>>]_vars
    BY ExitedStays DEF LoopLeft
  <1> QED  BY <1>1, <1>2, <1>3, MessageInvariant, PTL DEF Spec, NothingAfterStop
=============================================================================
