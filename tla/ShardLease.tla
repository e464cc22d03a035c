----------------------------- MODULE ShardLease -----------------------------
(***************************************************************************)
(* One Discord shard and the instances that compete for it: the table      *)
(* discord_shard_leases (internal/db/discord_leases.go) and the shard      *)
(* reconciler of each instance (internal/providers/discord/runtime.go,     *)
(* Start, Stop, waitForShardZero, shardReconcilerLoop, reconcileShards).   *)
(*                                                                         *)
(* Time is kept as what is left of each interval, so the state space is    *)
(* finite.  A unit stands for some seconds (15, the interval between two   *)
(* renewals, where RenewEvery is 1).  A statement or a request takes no    *)
(* time but for the pauses: ticks that pass although an instance has a     *)
(* step to take (a stopped process, a slow database, a slow gateway).      *)
(*                                                                         *)
(* Abstracted: the other shards (one pass of the reconciler handles them   *)
(* one after the other, in the same way), and Discord itself, which        *)
(* accepts a session of every instance that identifies.                    *)
(***************************************************************************)
EXTENDS Integers, FiniteSets

CONSTANTS
    Inst,        \* instances; each has its own ShardOwnerID
    TTL,         \* ShardLeaseTTL
    RenewEvery,  \* ShardRenewEvery
    Patience,    \* how long Start waits for shard 0
    MaxPauses,   \* bound: ticks that pass while a step is due
    Errors,      \* may statements and gateway connections fail?
    Retry,       \* does the host call StartDiscord again later?
    Cuts,        \* may the context given to StartDiscord end before StopDiscord?
    MaxCrashes,  \* bound: crashes
    MaxFaults,   \* bound: crashes and pauses together
    None         \* no instance

ASSUME LeaseConstants ==
    /\ TTL \in Nat \ {0}
    /\ RenewEvery \in Nat \ {0}
    /\ Patience \in Nat
    /\ MaxPauses \in Nat
    /\ {Errors, Retry, Cuts} \subseteq BOOLEAN
    /\ MaxCrashes \in Nat
    /\ MaxFaults \in Nat
    /\ None \notin Inst

VARIABLES
    owner,    \* owner_id of the row, None without a row
    left,     \* lease_expires_at minus NOW(), down to -1
    phase,    \* phase[i]: where the reconciler of i is
    session,  \* session[i]: is i connected to the gateway?
    host,     \* host[i]: StartDiscord in progress, returned, stopping, ...
    due,      \* due[i]: time to the next tick of the reconciler's ticker
    patience, \* patience[i]: what is left of the wait in Start
    held,     \* held[i]: lease time left of which i was told, down to -1
    missed,   \* missed[i]: renewals in a row that failed while i was
              \* connected, counted up to Grace
    overdue,  \* history: overdue[i], ticks since i was told so that passed
              \* while its reconciler was late, counted up to TTL
    pauses,   \* pauses so far
    crashes   \* crashes so far

lease == <<owner, left>>
vars == <<owner, left, phase, session, host, due, patience, held, missed,
          overdue, pauses, crashes>>

\* off: no reconciler; idle: waits for the ticker; renew, open, close: about
\* to issue the statement, to open or to close the session.
Phases == {"off", "idle", "renew", "open", "close"}
\* new: StartDiscord not called; starting: in Start; up: Start returned nil;
\* cut: the context Start was given is done; stopping: in Stop; down: Start
\* returned an error, or StopDiscord was called; dead: the process crashed.
HostStates == {"new", "starting", "up", "cut", "stopping", "down", "dead"}

Expired == left < 0

\* Renewals due within one lease.
Grace == TTL \div RenewEvery

Init ==
    /\ owner = None
    /\ left = -1
    /\ phase = [i \in Inst |-> "off"]
    /\ session = [i \in Inst |-> FALSE]
    /\ host = [i \in Inst |-> "new"]
    /\ due = [i \in Inst |-> RenewEvery]
    /\ patience = [i \in Inst |-> Patience]
    /\ held = [i \in Inst |-> -1]
    /\ missed = [i \in Inst |-> 0]
    /\ overdue = [i \in Inst |-> 0]
    /\ pauses = 0
    /\ crashes = 0

-----------------------------------------------------------------------------
(* The table of leases.                                                    *)

AlwaysFree(i) == TRUE                   \* mutant: no WHERE clause
NeverExpires(i) == owner \in {None, i}  \* mutant: no comparison with NOW()

\* ON CONFLICT DO UPDATE ... WHERE: the row is absent, mine, or expired.
Free(i) == owner \in {None, i} \/ Expired

BriefLease(i) == owner' = i /\ left' = RenewEvery \* mutant: the wrong interval
SetLease(i) == owner' = i /\ left' = TTL

\* DELETE ... WHERE owner_id = i
DeleteLease(i) ==
    IF owner = i THEN owner' = None /\ left' = -1 ELSE UNCHANGED lease

-----------------------------------------------------------------------------
(* The reconciler of one instance.                                         *)

\* i is told that it owns the shard.
Told(i) ==
    /\ held' = [held EXCEPT ![i] = TTL]
    /\ missed' = [missed EXCEPT ![i] = 0]
    /\ overdue' = [overdue EXCEPT ![i] = 0]

\* i counts on the lease no longer.
Disconnected(i) ==
    /\ held' = [held EXCEPT ![i] = -1]
    /\ missed' = [missed EXCEPT ![i] = 0]
    /\ overdue' = [overdue EXCEPT ![i] = 0]

\* A renewal of i failed.
Miss(i) ==
    missed' = [missed EXCEPT ![i] = IF session[i] /\ @ < Grace THEN @ + 1 ELSE @]

\* Every statement of a pass that begins now fails; the reconciler leaves.
ContextDone(i) == host[i] \in {"cut", "stopping"}

\* The ticker fires.
Wake(i) ==
    /\ phase[i] = "idle"
    /\ due[i] = 0
    /\ ~ContextDone(i)
    /\ phase' = [phase EXCEPT ![i] = "renew"]
    /\ due' = [due EXCEPT ![i] = RenewEvery]
    /\ UNCHANGED <<lease, session, host, patience, held, missed, overdue, pauses,
                   crashes>>

\* AcquireOrRenewDiscordShard returns true: connect unless connected.
Owned(i) ==
    /\ phase[i] = "renew"
    /\ Free(i)
    /\ SetLease(i)
    /\ Told(i)
    /\ phase' = [phase EXCEPT ![i] = IF session[i] THEN "idle" ELSE "open"]
    /\ UNCHANGED <<session, host, due, patience, pauses, crashes>>

\* mutant: the session stays when the lease is lost.
StayConnected(i) ==
    /\ phase[i] = "renew"
    /\ ~Free(i)
    /\ phase' = [phase EXCEPT ![i] = "idle"]
    /\ UNCHANGED <<lease, session, host, due, patience, held, missed, overdue, pauses,
                   crashes>>

\* It returns false: disconnect if connected.
NotOwned(i) ==
    /\ phase[i] = "renew"
    /\ ~Free(i)
    /\ phase' = [phase EXCEPT ![i] = IF session[i] THEN "close" ELSE "idle"]
    /\ UNCHANGED <<lease, session, host, due, patience, held, missed, overdue, pauses,
                   crashes>>

\* It returns an error, perhaps after the row was written: the shard is left
\* as it is until the next tick.  Once the context is cancelled it must.
RenewFails(i) ==
    /\ phase[i] = "renew"
    /\ Errors \/ ContextDone(i)
    /\ \/ UNCHANGED lease
       \/ Free(i) /\ SetLease(i)
    /\ Miss(i)
    /\ phase' = [phase EXCEPT ![i] = "idle"]
    /\ UNCHANGED <<session, host, due, patience, held, overdue, pauses, crashes>>

\* startShardSession: the lease is not looked at again.
Open(i) ==
    /\ phase[i] = "open"
    /\ session' = [session EXCEPT ![i] = TRUE]
    /\ phase' = [phase EXCEPT ![i] = "idle"]
    /\ UNCHANGED <<lease, host, due, patience, held, missed, overdue, pauses,
                   crashes>>

\* The lease is kept without a session until the next tick.
OpenFails(i) ==
    /\ phase[i] = "open"
    /\ Errors
    /\ phase' = [phase EXCEPT ![i] = "idle"]
    /\ UNCHANGED <<lease, session, host, due, patience, held, missed, overdue, pauses,
                   crashes>>

\* The session is closed, then the lease given back if it still is one's own.
Close(i) ==
    /\ phase[i] = "close"
    /\ session' = [session EXCEPT ![i] = FALSE]
    /\ DeleteLease(i)
    /\ Disconnected(i)
    /\ phase' = [phase EXCEPT ![i] = "idle"]
    /\ UNCHANGED <<host, due, patience, pauses, crashes>>

-----------------------------------------------------------------------------
(* The host: StartDiscord, StopDiscord, crashes.                           *)

MayStart(i) == host[i] = "new" \/ (Retry /\ host[i] = "down")

\* StartDiscord: the reconciler runs at once, Start waits for shard 0.
Start(i) ==
    /\ MayStart(i)
    /\ host' = [host EXCEPT ![i] = "starting"]
    /\ phase' = [phase EXCEPT ![i] = "renew"]
    /\ due' = [due EXCEPT ![i] = RenewEvery]
    /\ patience' = [patience EXCEPT ![i] = Patience]
    /\ UNCHANGED <<lease, session, held, missed, overdue, pauses, crashes>>

\* Discord does not tell how many shards there are, or who the bot is: Start
\* returns before it starts a reconciler.
StartFails(i) ==
    /\ MayStart(i)
    /\ Errors
    /\ host' = [host EXCEPT ![i] = "down"]
    /\ UNCHANGED <<lease, phase, session, due, patience, held, missed, overdue,
                   pauses, crashes>>

\* waitForShardZero finds the session.
Started(i) ==
    /\ host[i] = "starting"
    /\ session[i]
    /\ host' = [host EXCEPT ![i] = "up"]
    /\ UNCHANGED <<lease, phase, session, due, patience, held, missed, overdue, pauses,
                   crashes>>

\* Its timer fires first, or its context ends: Start calls Stop and returns an
\* error.
GiveUp(i) ==
    /\ host[i] = "starting"
    /\ patience[i] = 0 \/ Cuts
    /\ host' = [host EXCEPT ![i] = "stopping"]
    /\ UNCHANGED <<lease, phase, session, due, patience, held, missed, overdue, pauses,
                   crashes>>

\* The context given to StartDiscord ends: so do the loops, but nobody closes
\* the session or releases its lease.
Cut(i) ==
    /\ Cuts
    /\ host[i] = "up"
    /\ host' = [host EXCEPT ![i] = "cut"]
    /\ UNCHANGED <<lease, phase, session, due, patience, held, missed, overdue,
                   pauses, crashes>>

\* StopDiscord cancels the context.
Stop(i) ==
    /\ host[i] \in {"up", "cut"}
    /\ host' = [host EXCEPT ![i] = "stopping"]
    /\ UNCHANGED <<lease, phase, session, due, patience, held, missed, overdue, pauses,
                   crashes>>

\* Stop waits for the loops to end, closes the session and releases its lease;
\* the error of the release is ignored.
Stopped(i) ==
    /\ host[i] = "stopping"
    /\ phase[i] = "idle"
    /\ host' = [host EXCEPT ![i] = "down"]
    /\ phase' = [phase EXCEPT ![i] = "off"]
    /\ session' = [session EXCEPT ![i] = FALSE]
    /\ \/ session[i] /\ DeleteLease(i)
       \/ (Errors \/ ~session[i]) /\ UNCHANGED lease
    /\ Disconnected(i)
    /\ UNCHANGED <<due, patience, pauses, crashes>>

\* The process ends; its row stays.  A process started in its place has
\* another ShardOwnerID (host name and pid).
Crash(i) ==
    /\ crashes < MaxCrashes
    /\ pauses + crashes < MaxFaults
    /\ phase[i] # "off"
    /\ crashes' = crashes + 1
    /\ host' = [host EXCEPT ![i] = "dead"]
    /\ phase' = [phase EXCEPT ![i] = "off"]
    /\ session' = [session EXCEPT ![i] = FALSE]
    /\ Disconnected(i)
    /\ UNCHANGED <<lease, due, patience, pauses>>

-----------------------------------------------------------------------------
(* Time.                                                                   *)

Down(n, floor) == IF n > floor THEN n - 1 ELSE floor

\* i has something to do before time passes.
Urgent(i) ==
    \/ phase[i] \in {"renew", "open", "close"}
    \/ phase[i] = "idle" /\ due[i] = 0 /\ ~ContextDone(i)
    \/ host[i] = "stopping"
    \/ host[i] = "starting" /\ (session[i] \/ patience[i] = 0)

\* i counts on the lease, and its reconciler has, or would have, something to do.
Late(i) ==
    \/ phase[i] = "open"
    \/ session[i] /\ (phase[i] = "idle" => due[i] = 0)

Tick ==
    /\ \/ /\ \A i \in Inst : ~Urgent(i)
          /\ UNCHANGED pauses
       \/ /\ \E i \in Inst : Urgent(i)
          /\ pauses < MaxPauses
          /\ pauses + crashes < MaxFaults
          /\ pauses' = pauses + 1
    /\ left' = Down(left, -1)
    /\ due' = [i \in Inst |-> IF phase[i] = "off" THEN due[i] ELSE Down(due[i], 0)]
    /\ patience' = [i \in Inst |-> IF host[i] = "starting"
                                   THEN Down(patience[i], 0) ELSE patience[i]]
    /\ held' = [i \in Inst |-> Down(held[i], -1)]
    /\ overdue' = [i \in Inst |-> IF Late(i) /\ overdue[i] < TTL
                                  THEN overdue[i] + 1 ELSE overdue[i]]
    /\ UNCHANGED <<owner, phase, session, host, missed, crashes>>

Next ==
    \/ Tick
    \/ \E i \in Inst :
         \/ Start(i) \/ StartFails(i) \/ Started(i) \/ GiveUp(i)
         \/ Cut(i) \/ Stop(i) \/ Stopped(i) \/ Crash(i)
         \/ Wake(i) \/ Owned(i) \/ NotOwned(i) \/ RenewFails(i)
         \/ Open(i) \/ OpenFails(i) \/ Close(i)

\* Time passes, the goroutines run, the host starts every instance and stops
\* those whose context it ended; what is tried again and again does not fail
\* for ever, neither for an error nor because its context ends.  Nothing makes
\* the host stop another instance or end a context.
Fairness ==
    /\ SF_vars(Tick)
    /\ \A i \in Inst :
         /\ WF_vars(Start(i)) /\ WF_vars(Started(i))
         /\ WF_vars(patience[i] = 0 /\ GiveUp(i))
         /\ WF_vars(host[i] = "cut" /\ Stop(i))
         /\ WF_vars(Stopped(i)) /\ WF_vars(Wake(i)) /\ WF_vars(Close(i))
         /\ SF_vars(Owned(i)) /\ SF_vars(NotOwned(i)) /\ SF_vars(Open(i))

Spec == Init /\ [][Next]_vars
FairSpec == Spec /\ Fairness

-----------------------------------------------------------------------------
(* Properties.                                                             *)

\* Every variable has its type.
TypeOK ==
    /\ owner \in Inst \cup {None}
    /\ left \in -1..TTL
    /\ phase \in [Inst -> Phases]
    /\ session \in [Inst -> BOOLEAN]
    /\ host \in [Inst -> HostStates]
    /\ due \in [Inst -> 0..RenewEvery]
    /\ patience \in [Inst -> 0..Patience]
    /\ held \in [Inst -> -1..TTL]
    /\ missed \in [Inst -> 0..Grace]
    /\ overdue \in [Inst -> 0..TTL]
    /\ pauses \in 0..MaxPauses
    /\ crashes \in 0..MaxCrashes

\* The lease is exclusive while it lasts: for TTL after an instance was told
\* that it owns the shard, no other instance is told so, whatever fails and
\* however long steps take.  AcquireOrRenewDiscordShard gives no more.
LeaseExclusive ==
    \A i, j \in Inst : held[i] >= 0 /\ held[j] >= 0 => i = j

\* Why: the row outlasts what its owner was told.
LeaseKept ==
    \A i \in Inst : held[i] >= 0 => owner = i /\ left >= held[i]

\* A reconciler runs from Start to the end of Stop; sessions are its own, and
\* it opens none beside another.
PhasesFit ==
    \A i \in Inst :
        /\ phase[i] = "off" <=> host[i] \in {"new", "down", "dead"}
        /\ phase[i] \in {"off", "open"} => ~session[i]

\* The time before i renews again, if it is not late.
UntilRenewal(i) ==
    IF phase[i] = "open" THEN RenewEvery ELSE IF phase[i] = "idle" THEN due[i] ELSE 0

\* Of the time since i was told that it owns the shard, each interval between
\* renewals but the current one is a miss, and in what is beyond i was late.
LeaseSpent ==
    \A i \in Inst :
        (session[i] \/ phase[i] = "open") /\ missed[i] < Grace /\ overdue[i] < TTL
            => TTL - held[i] + UntilRenewal(i)
                 <= RenewEvery * missed[i] + RenewEvery + overdue[i]

LeaseInv == TypeOK /\ LeaseKept /\ PhasesFit /\ LeaseSpent

\* Two instances are connected only after a whole lease in which one of them
\* did not renew: the intervals that ended in a failed renewal, the current one
\* and the time for which that instance was late are longer than TTL.  Crashes,
\* stops, restarts, lost answers and shorter failures are tolerated, and so is
\* whatever happens to the other instance.
OverlapNeedsMisses ==
    \A i, j \in Inst : i # j /\ session[i] /\ session[j]
        => \E k \in {i, j} : RenewEvery * (missed[k] + 1) + overdue[k] > TTL

\* At most one instance is connected to the gateway (config.go:32), though
\* statements may fail.
AtMostOneConnected ==
    \A i, j \in Inst : session[i] /\ session[j] => i = j

\* Two instances are not connected for ever: the one without the lease finds
\* out at a renewal and disconnects.
OverlapEnds == ~AtMostOneConnected ~> AtMostOneConnected

\* Whoever crashes, stops or gives up, some instance connects sooner or later,
\* if every host that is not connected calls StartDiscord again and again.
SomeoneConnects == []<>(\E i \in Inst : session[i])

\* The election keeps an instance connected (config.go:32): once StartDiscord
\* was called, and the process lives, the shard is served.
StarterServed ==
    \A i \in Inst : host[i] = "starting"
        ~> (host[i] = "dead" \/ \E j \in Inst : session[j])
=============================================================================
