-------------------------- MODULE ShardLeaseProofs --------------------------
(* The lease of a shard is exclusive while it lasts: proof for any number  *)
(* of instances and any TTL, with any number of failures and pauses.       *)
EXTENDS ShardLease, TLAPS

USE LeaseConstants

\* What a tick takes away.
LEMMA DownOK ==
    ASSUME NEW n \in Int, NEW floor \in Int, n >= floor
    PROVE  /\ Down(n, floor) \in Int
           /\ floor <= Down(n, floor) /\ Down(n, floor) <= n
           /\ Down(n, floor) > floor => Down(n, floor) = n - 1
  BY DEF Down

\* TypeOK names Grace, whose value does not matter here but for its type.
LEMMA GraceOK == Grace \in Nat
  BY DEF Grace, LeaseConstants

LEMMA InitInv == Init => LeaseInv
  <1> SUFFICES ASSUME Init PROVE LeaseInv  OBVIOUS
  <1>1. TypeOK /\ LeaseKept
    BY GraceOK DEF Init, TypeOK, LeaseKept, Phases, HostStates, LeaseConstants
  <1>2. PhasesFit /\ LeaseSpent  BY DEF Init, PhasesFit, LeaseSpent
  <1> QED  BY <1>1, <1>2 DEF LeaseInv

\* What is counted stays a count.
LEMMA MissedOK ==
    ASSUME TypeOK, NEW i \in Inst, Told(i) \/ Disconnected(i) \/ Miss(i)
    PROVE  missed' \in [Inst -> 0..Grace]
  <1>1. 0 \in 0..Grace  BY GraceOK
  <1>2. missed[i] < Grace => missed[i] + 1 \in 0..Grace  BY GraceOK DEF TypeOK
  <1> QED  BY <1>1, <1>2 DEF Told, Disconnected, Miss, TypeOK

\* Every action leaves the types alone.
LEMMA TypeStep == ASSUME TypeOK, [Next]_vars PROVE TypeOK'
  <1>1. CASE UNCHANGED vars  BY <1>1 DEF vars, TypeOK
  <1>2. CASE Tick
    <2>1. left' \in -1..TTL  BY <1>2, DownOK DEF Tick, TypeOK, LeaseConstants
    <2>2. due' \in [Inst -> 0..RenewEvery]
      BY <1>2, DownOK DEF Tick, TypeOK, LeaseConstants
    <2>3. patience' \in [Inst -> 0..Patience]
      BY <1>2, DownOK DEF Tick, TypeOK, LeaseConstants
    <2>4. held' \in [Inst -> -1..TTL]
      BY <1>2, DownOK DEF Tick, TypeOK, LeaseConstants
    <2>5. pauses' \in 0..MaxPauses  BY <1>2 DEF Tick, TypeOK, LeaseConstants
    <2>6. overdue' \in [Inst -> 0..TTL]  BY <1>2 DEF Tick, TypeOK, LeaseConstants
    <2> QED  BY <1>2, <2>1, <2>2, <2>3, <2>4, <2>5, <2>6 DEF Tick, TypeOK
  <1>3. ASSUME NEW i \in Inst, \/ Start(i) \/ StartFails(i) \/ Started(i)
               \/ GiveUp(i) \/ Cut(i) \/ Stop(i)
        PROVE  TypeOK'
    BY <1>3
    DEF MayStart, Start, StartFails, Started, GiveUp, Cut, Stop, TypeOK, lease,
        Phases, HostStates, LeaseConstants
  <1>4. ASSUME NEW i \in Inst, Stopped(i) \/ Close(i) PROVE TypeOK'
    <2>1. owner' \in Inst \cup {None} /\ left' \in -1..TTL
      BY <1>4 DEF Stopped, Close, DeleteLease, TypeOK, lease, LeaseConstants
    <2>4. missed' \in [Inst -> 0..Grace]
      BY <1>4, MissedOK DEF Stopped, Close
    <2>2. CASE Stopped(i)
      BY <2>1, <2>2, <2>4
      DEF Stopped, Disconnected, TypeOK, Phases, HostStates, LeaseConstants
    <2>3. CASE Close(i)
      BY <2>1, <2>3, <2>4 DEF Close, Disconnected, TypeOK, Phases, LeaseConstants
    <2> QED  BY <1>4, <2>2, <2>3
  <1>5. ASSUME NEW i \in Inst, Crash(i) PROVE TypeOK'
    <2>1. missed' \in [Inst -> 0..Grace]  BY <1>5, MissedOK DEF Crash
    <2> QED
      BY <1>5, <2>1
      DEF Crash, Disconnected, TypeOK, lease, Phases, HostStates,
          LeaseConstants
  <1>6. ASSUME NEW i \in Inst, Wake(i) \/ NotOwned(i) \/ Open(i) \/ OpenFails(i)
        PROVE  TypeOK'
    <2>1. UNCHANGED <<lease, host, patience, held, missed, overdue, pauses, crashes>>
      BY <1>6 DEF Wake, NotOwned, Open, OpenFails
    <2>2. phase' \in [Inst -> Phases] /\ session' \in [Inst -> BOOLEAN]
      BY <1>6 DEF Wake, NotOwned, Open, OpenFails, TypeOK, Phases
    <2>3. due' \in [Inst -> 0..RenewEvery]
      BY <1>6 DEF Wake, NotOwned, Open, OpenFails, TypeOK, LeaseConstants
    <2> QED  BY <2>1, <2>2, <2>3 DEF TypeOK, lease
  <1>7. ASSUME NEW i \in Inst, Owned(i) \/ RenewFails(i) PROVE TypeOK'
    <2>1. owner' \in Inst \cup {None} /\ left' \in -1..TTL
      BY <1>7 DEF Owned, RenewFails, SetLease, TypeOK, lease, LeaseConstants
    <2>4. missed' \in [Inst -> 0..Grace]
      BY <1>7, MissedOK DEF Owned, RenewFails
    <2>2. CASE Owned(i)
      BY <2>1, <2>2, <2>4 DEF Owned, Told, TypeOK, Phases, LeaseConstants
    <2>3. CASE RenewFails(i)
      BY <2>1, <2>3, <2>4 DEF RenewFails, TypeOK, Phases, LeaseConstants
    <2> QED  BY <1>7, <2>2, <2>3
  <1> QED  BY <1>1, <1>2, <1>3, <1>4, <1>5, <1>6, <1>7 DEF Next

\* Whoever writes the row finds it free: nobody else was told it holds.
LEMMA FreeMeansNotHeld ==
    ASSUME LeaseInv, NEW i \in Inst, Free(i), NEW j \in Inst, j # i
    PROVE  held[j] = -1
  BY DEF LeaseInv, TypeOK, LeaseKept, Free, Expired, LeaseConstants

LEMMA KeptStep == ASSUME LeaseInv, [Next]_vars PROVE LeaseKept'
  <1>1. CASE UNCHANGED vars  BY <1>1 DEF vars, LeaseInv, LeaseKept
  <1>2. CASE Tick
    <2> SUFFICES ASSUME NEW j \in Inst, held'[j] >= 0
                 PROVE  owner' = j /\ left' >= held'[j]
      BY DEF LeaseKept
    <2>1. held'[j] = Down(held[j], -1) /\ held[j] \in -1..TTL /\ left \in -1..TTL
      BY <1>2 DEF Tick, LeaseInv, TypeOK
    <2>2. held'[j] = held[j] - 1 /\ held[j] > 0
      BY <2>1, DownOK DEF Down, LeaseConstants
    <2>3. owner = j /\ left >= held[j]
      BY <2>1, <2>2 DEF LeaseInv, LeaseKept, LeaseConstants
    <2>4. left' = left - 1  BY <1>2, <2>1, <2>2, <2>3 DEF Tick, Down, LeaseConstants
    <2> QED  BY <1>2, <2>1, <2>2, <2>3, <2>4 DEF Tick, LeaseConstants
  <1>3. ASSUME NEW i \in Inst, \/ Start(i) \/ StartFails(i) \/ Started(i)
               \/ GiveUp(i) \/ Cut(i) \/ Stop(i)
        PROVE  LeaseKept'
    BY <1>3
    DEF Start, StartFails, Started, GiveUp, Cut, Stop, LeaseInv, LeaseKept, lease
  <1>4. ASSUME NEW i \in Inst, Stopped(i) \/ Close(i) PROVE LeaseKept'
    <2> SUFFICES ASSUME NEW j \in Inst, held'[j] >= 0
                 PROVE  owner' = j /\ left' >= held'[j]
      BY DEF LeaseKept
    <2>1. j # i /\ held[j] = held'[j]
      BY <1>4 DEF Stopped, Close, Disconnected, LeaseInv, TypeOK, LeaseConstants
    <2>2. owner = j /\ left >= held[j]  BY <2>1 DEF LeaseInv, LeaseKept
    <2>3. UNCHANGED lease
      BY <1>4, <2>1, <2>2 DEF Stopped, Close, DeleteLease, lease
    <2> QED  BY <2>1, <2>2, <2>3 DEF lease
  <1>5. ASSUME NEW i \in Inst, Crash(i) PROVE LeaseKept'
    BY <1>5 DEF Crash, Disconnected, LeaseInv, TypeOK, LeaseKept, lease, LeaseConstants
  <1>6. ASSUME NEW i \in Inst, Wake(i) \/ NotOwned(i) \/ Open(i) \/ OpenFails(i)
        PROVE  LeaseKept'
    BY <1>6 DEF Wake, NotOwned, Open, OpenFails, LeaseInv, LeaseKept, lease
  <1>7. ASSUME NEW i \in Inst, Owned(i) \/ RenewFails(i) PROVE LeaseKept'
    <2>1. CASE UNCHANGED <<lease, held>>
      BY <2>1 DEF LeaseInv, LeaseKept, lease
    <2>2. CASE Free(i) /\ SetLease(i) /\ (\/ held' = [held EXCEPT ![i] = TTL]
                                          \/ UNCHANGED held)
      <3> SUFFICES ASSUME NEW j \in Inst, held'[j] >= 0
                   PROVE  owner' = j /\ left' >= held'[j]
        BY DEF LeaseKept
      <3>1. held[j] \in -1..TTL /\ held'[j] \in -1..TTL
        BY <2>2 DEF LeaseInv, TypeOK, LeaseConstants
      <3>2. j = i
        <4> SUFFICES ASSUME j # i PROVE FALSE  OBVIOUS
        <4>1. held[j] = -1  BY <2>2, FreeMeansNotHeld
        <4>2. held'[j] = held[j]  BY <2>2 DEF LeaseInv, TypeOK
        <4> QED  BY <4>1, <4>2
      <3> QED  BY <2>2, <3>1, <3>2 DEF SetLease, LeaseConstants
    <2> QED  BY <1>7, <2>1, <2>2 DEF Owned, Told, RenewFails
  <1> QED  BY <1>1, <1>2, <1>3, <1>4, <1>5, <1>6, <1>7 DEF Next

LEMMA PhasesStep == ASSUME LeaseInv, [Next]_vars PROVE PhasesFit'
  <1>0. /\ phase \in [Inst -> Phases] /\ session \in [Inst -> BOOLEAN]
        /\ host \in [Inst -> HostStates]
    BY DEF LeaseInv, TypeOK
  <1>1. CASE UNCHANGED vars \/ Tick
    BY <1>1 DEF vars, Tick, LeaseInv, PhasesFit
  <1>2. ASSUME NEW i \in Inst,
               \/ Start(i) \/ StartFails(i) \/ Started(i) \/ GiveUp(i)
               \/ Cut(i) \/ Stop(i) \/ Stopped(i) \/ Crash(i)
        PROVE  PhasesFit'
    BY <1>0, <1>2
    DEF MayStart, Start, StartFails, Started, GiveUp, Cut, Stop, Stopped, Crash,
        LeaseInv, PhasesFit
  <1>3. ASSUME NEW i \in Inst,
               \/ Wake(i) \/ Owned(i) \/ NotOwned(i) \/ RenewFails(i)
               \/ Open(i) \/ OpenFails(i) \/ Close(i)
        PROVE  PhasesFit'
    BY <1>0, <1>3
    DEF Wake, Owned, NotOwned, RenewFails, Open, OpenFails, Close, LeaseInv, PhasesFit
  <1> QED  BY <1>1, <1>2, <1>3 DEF Next

-----------------------------------------------------------------------------
(* Where the time of a lease goes.                                         *)

LEMMA Times ==
    ASSUME NEW n \in Nat, NEW r \in Nat
    PROVE  r * n \in Nat /\ r * (n + 1) = r * n + r
  OBVIOUS

\* What LeaseSpent says of one instance.
Spent(i) ==
    (session[i] \/ phase[i] = "open") /\ missed[i] < Grace /\ overdue[i] < TTL
        => TTL - held[i] + UntilRenewal(i)
             <= RenewEvery * missed[i] + RenewEvery + overdue[i]

LEMMA SpentTypes ==
    ASSUME TypeOK, NEW i \in Inst
    PROVE  /\ missed[i] \in Nat /\ overdue[i] \in Nat /\ held[i] \in -1..TTL
           /\ due[i] \in 0..RenewEvery /\ UntilRenewal(i) \in 0..RenewEvery
           /\ RenewEvery * missed[i] \in Nat
           /\ RenewEvery * (missed[i] + 1) = RenewEvery * missed[i] + RenewEvery
  <1>1. /\ missed[i] \in Nat /\ overdue[i] \in Nat /\ held[i] \in -1..TTL
        /\ due[i] \in 0..RenewEvery
    BY GraceOK DEF TypeOK
  <1>2. UntilRenewal(i) \in 0..RenewEvery  BY <1>1 DEF UntilRenewal
  <1> QED  BY <1>1, <1>2, Times

\* A tick takes from the lease what it takes from the interval, or the
\* reconciler is late.
LEMMA SpentTick ==
    ASSUME LeaseInv, Tick, NEW j \in Inst, Spent(j) PROVE Spent(j)'
  <1> DEFINE M == RenewEvery * missed[j]
  <1>1. /\ missed[j] \in Nat /\ overdue[j] \in Nat /\ held[j] \in -1..TTL
        /\ due[j] \in 0..RenewEvery /\ UntilRenewal(j) \in 0..RenewEvery
        /\ M \in Nat
    BY SpentTypes DEF LeaseInv
  <1>2. /\ phase' = phase /\ session' = session /\ missed' = missed
        /\ held'[j] = Down(held[j], -1)
        /\ due'[j] = IF phase[j] = "off" THEN due[j] ELSE Down(due[j], 0)
    BY DEF Tick
  <1>3. held'[j] >= held[j] - 1 /\ held'[j] \in Int  BY <1>1, <1>2 DEF Down
  <1>4. CASE Late(j)
    <2>1. UntilRenewal(j)' <= UntilRenewal(j) /\ UntilRenewal(j)' \in Int
      BY <1>1, <1>2 DEF UntilRenewal, Down
    <2>2. overdue'[j] = IF overdue[j] < TTL THEN overdue[j] + 1 ELSE overdue[j]
      BY <1>4 DEF Tick
    <2> QED  BY <1>1, <1>2, <1>3, <2>1, <2>2 DEF Spent
  <1>5. CASE ~Late(j)
    <2>1. overdue'[j] = overdue[j]  BY <1>5 DEF Tick, LeaseInv, TypeOK
    <2>2. CASE ~session[j] /\ phase[j] # "open"  BY <1>2, <2>2 DEF Spent
    <2>3. CASE phase[j] = "idle" /\ due[j] # 0
      <3>1. UntilRenewal(j)' = UntilRenewal(j) - 1
        BY <1>1, <1>2, <2>3 DEF UntilRenewal, Down
      <3> QED  BY <1>1, <1>2, <1>3, <2>1, <3>1 DEF Spent
    <2> QED  BY <1>5, <2>2, <2>3 DEF Late
  <1> QED  BY <1>4, <1>5

\* A step of i takes no time.
LEMMA SpentActor ==
    ASSUME LeaseInv, NEW i \in Inst, Spent(i),
           \/ Start(i) \/ StartFails(i) \/ Started(i) \/ GiveUp(i)
           \/ Cut(i) \/ Stop(i) \/ Stopped(i) \/ Crash(i)
           \/ Wake(i) \/ Owned(i) \/ NotOwned(i) \/ RenewFails(i)
           \/ Open(i) \/ OpenFails(i) \/ Close(i)
    PROVE  Spent(i)'
  <1> DEFINE M == RenewEvery * missed[i]
  <1>1. /\ missed[i] \in Nat /\ overdue[i] \in Nat /\ held[i] \in -1..TTL
        /\ due[i] \in 0..RenewEvery /\ UntilRenewal(i) \in 0..RenewEvery
        /\ M \in Nat /\ RenewEvery * (missed[i] + 1) = M + RenewEvery
    BY SpentTypes DEF LeaseInv
  <1>2. /\ phase \in [Inst -> Phases] /\ session \in [Inst -> BOOLEAN]
        /\ held \in [Inst -> -1..TTL] /\ missed \in [Inst -> 0..Grace]
        /\ overdue \in [Inst -> 0..TTL]
        /\ due \in [Inst -> 0..RenewEvery] /\ Grace \in Nat
    BY GraceOK DEF LeaseInv, TypeOK
  <1>3. CASE \/ Start(i) \/ StartFails(i) \/ Stopped(i) \/ Crash(i)
             \/ OpenFails(i) \/ Close(i)
    <2>1. ~session'[i] /\ phase'[i] # "open"
      BY <1>2, <1>3
      DEF MayStart, Start, StartFails, Stopped, Crash, OpenFails, Close, LeaseInv,
          PhasesFit
    <2> QED  BY <2>1 DEF Spent
  <1>4. CASE Started(i) \/ GiveUp(i) \/ Cut(i) \/ Stop(i)
    BY <1>4 DEF Started, GiveUp, Cut, Stop, Spent, UntilRenewal
  <1>5. CASE Wake(i)
    <2>1. UntilRenewal(i) = 0 /\ UntilRenewal(i)' = 0 /\ phase[i] # "open"
          /\ phase'[i] # "open"
      BY <1>2, <1>5 DEF Wake, UntilRenewal
    <2> QED  BY <1>1, <1>5, <2>1 DEF Wake, Spent
  <1>6. CASE Owned(i)
    <2>1. held'[i] = TTL /\ missed'[i] = 0 /\ overdue'[i] = 0 /\ due' = due
      BY <1>2, <1>6 DEF Owned, Told
    <2>2. UntilRenewal(i)' \in 0..RenewEvery  BY <1>1, <2>1 DEF UntilRenewal
    <2>3. RenewEvery * missed'[i] \in Nat  BY <2>1, Times
    <2> QED  BY <1>1, <2>1, <2>2, <2>3 DEF Spent
  <1>7. CASE NotOwned(i)
    <2>1. /\ UntilRenewal(i) = 0 /\ phase[i] # "open" /\ phase'[i] # "open"
          /\ session' = session
          /\ session[i] => UntilRenewal(i)' = 0
      BY <1>2, <1>7 DEF NotOwned, UntilRenewal
    <2> QED  BY <1>1, <1>7, <2>1 DEF NotOwned, Spent
  <1>8. CASE RenewFails(i)
    <2>1. /\ UntilRenewal(i) = 0 /\ phase'[i] = "idle" /\ due' = due
          /\ session' = session /\ held' = held /\ overdue' = overdue
          /\ session[i] /\ missed[i] < Grace => missed'[i] = missed[i] + 1
          /\ session[i] /\ ~(missed[i] < Grace) => missed'[i] = missed[i]
      BY <1>2, <1>8 DEF RenewFails, Miss, UntilRenewal
    <2>2. UntilRenewal(i)' = due[i]  BY <2>1 DEF UntilRenewal
    <2> QED  BY <1>1, <1>2, <2>1, <2>2 DEF Spent
  <1>9. CASE Open(i)
    <2>1. /\ UntilRenewal(i) = RenewEvery /\ phase[i] = "open"
          /\ UntilRenewal(i)' = due[i]
      BY <1>2, <1>9 DEF Open, UntilRenewal
    <2> QED  BY <1>1, <1>9, <2>1 DEF Open, Spent
  <1> QED  BY <1>3, <1>4, <1>5, <1>6, <1>7, <1>8, <1>9

LEMMA SpentStep == ASSUME LeaseInv, [Next]_vars PROVE LeaseSpent'
  <1> SUFFICES ASSUME NEW j \in Inst PROVE Spent(j)'  BY DEF LeaseSpent, Spent
  <1>0. Spent(j) /\ TypeOK  BY DEF LeaseInv, LeaseSpent, Spent
  <1>1. CASE UNCHANGED vars  BY <1>0, <1>1 DEF vars, Spent, UntilRenewal
  <1>2. CASE Tick  BY <1>0, <1>2, SpentTick
  <1>3. ASSUME NEW i \in Inst,
               \/ Start(i) \/ StartFails(i) \/ Started(i) \/ GiveUp(i)
               \/ Cut(i) \/ Stop(i) \/ Stopped(i) \/ Crash(i)
               \/ Wake(i) \/ Owned(i) \/ NotOwned(i) \/ RenewFails(i)
               \/ Open(i) \/ OpenFails(i) \/ Close(i)
        PROVE  Spent(j)'
    <2>1. CASE j = i  BY <1>0, <1>3, <2>1, SpentActor
    <2>2. CASE j # i
      <3>1. /\ phase'[j] = phase[j] /\ session'[j] = session[j] /\ due'[j] = due[j]
            /\ held'[j] = held[j] /\ missed'[j] = missed[j]
            /\ overdue'[j] = overdue[j]
        BY <1>0, <1>3, <2>2
        DEF Start, StartFails, Started, GiveUp, Cut, Stop, Stopped, Crash, Wake,
            Owned, NotOwned, RenewFails, Open, OpenFails, Close, Told, Disconnected, Miss, TypeOK
      <3> QED  BY <1>0, <3>1 DEF Spent, UntilRenewal
    <2> QED  BY <2>1, <2>2
  <1> QED  BY <1>1, <1>2, <1>3 DEF Next

\* Whoever spent no more than a lease did not miss all of its renewals.
LEMMA GraceFits ==
    ASSUME NEW n \in Nat, NEW o \in Nat, RenewEvery * (n + 1) + o <= TTL
    PROVE  n < Grace /\ o < TTL
  <1>1. RenewEvery * (n + 1) \in Nat /\ RenewEvery * (n + 1) >= RenewEvery
    BY Times
  <1>2. ASSUME Grace <= n PROVE FALSE
    <2>1. Grace \in Nat /\ TTL < RenewEvery * (Grace + 1)
      BY GraceOK DEF Grace, LeaseConstants
    <2>2. PICK d \in Nat : n = Grace + d
      <3>1. n - Grace \in Nat  BY <1>2, <2>1
      <3> QED  BY <2>1, <3>1
    <2>3. RenewEvery * (n + 1) = RenewEvery * (Grace + 1) + RenewEvery * d
      BY <2>1, <2>2 DEF LeaseConstants
    <2>4. RenewEvery * d \in Nat /\ RenewEvery * (Grace + 1) \in Nat
      BY <2>1, Times
    <2> QED  BY <1>1, <2>1, <2>3, <2>4
  <1> QED  BY <1>1, <1>2, GraceOK

\* In every reachable state the row outlasts what its owner was told.
THEOREM LeaseInvariant == Spec => []LeaseInv
  <1>1. Init => LeaseInv  BY InitInv
  <1>2. LeaseInv /\ [Next]_vars => LeaseInv'
    BY TypeStep, KeptStep, PhasesStep, SpentStep DEF LeaseInv
  <1> QED  BY <1>1, <1>2, PTL DEF Spec

\* No two instances are told that they own the shard within one TTL: the
\* conditional upsert of AcquireOrRenewDiscordShard is an exclusive lease.
THEOREM LeaseExclusiveHolds == Spec => []LeaseExclusive
  <1>1. LeaseInv => LeaseExclusive  BY DEF LeaseInv, LeaseKept, LeaseExclusive
  <1> QED  BY <1>1, LeaseInvariant, PTL

\* Two instances are connected only after one of them went a whole lease
\* without a renewal: the intervals it missed, the current one and the time for
\* which its reconciler was late are longer than TTL, in the same unit of time,
\* whatever TTL and renewal interval are configured.  Until then each of the
\* two would still hold the lease it was told of.
THEOREM OverlapNeedsMissesHolds == Spec => []OverlapNeedsMisses
  <1>1. LeaseInv => OverlapNeedsMisses
    <2> SUFFICES ASSUME LeaseInv, NEW i \in Inst, NEW j \in Inst, i # j,
                        session[i], session[j]
                 PROVE  \E k \in {i, j} : RenewEvery * (missed[k] + 1) + overdue[k] > TTL
      BY DEF OverlapNeedsMisses
    <2>1. ASSUME NEW k \in Inst, session[k],
                 ~(RenewEvery * (missed[k] + 1) + overdue[k] > TTL)
          PROVE  held[k] >= 0
      <3>1. /\ missed[k] \in Nat /\ overdue[k] \in Nat /\ held[k] \in -1..TTL
            /\ UntilRenewal(k) \in 0..RenewEvery /\ RenewEvery * missed[k] \in Nat
            /\ RenewEvery * (missed[k] + 1) = RenewEvery * missed[k] + RenewEvery
        BY SpentTypes DEF LeaseInv
      <3>2. RenewEvery * (missed[k] + 1) + overdue[k] <= TTL  BY <2>1, <3>1
      <3>3. missed[k] < Grace /\ overdue[k] < TTL  BY <3>1, <3>2, GraceFits
      <3>4. TTL - held[k] + UntilRenewal(k)
              <= RenewEvery * missed[k] + RenewEvery + overdue[k]
        BY <2>1, <3>3 DEF LeaseInv, LeaseSpent
      <3> QED  BY <3>1, <3>2, <3>4
    <2>2. held[i] < 0 \/ held[j] < 0
      BY DEF LeaseInv, LeaseKept, TypeOK
    <2> QED  BY <2>1, <2>2 DEF LeaseInv, TypeOK
  <1> QED  BY <1>1, LeaseInvariant, PTL
=============================================================================
