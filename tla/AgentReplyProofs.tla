-------------------------- MODULE AgentReplyProofs --------------------------
(* What the transcript of a conversation says of the replies: proofs that  *)
(* every row and queued job stands for a reply that was sent, that what    *)
(* counts as sent was recorded, and that skipped messages were superseded. *)
EXTENDS AgentRunProofs, FiniteSetTheorems, FunctionTheorems

USE ConstantsOK

-----------------------------------------------------------------------------
(* How the body of ProcessSync ends a step that began with locals l.       *)

\* It is not closed as skipped, what was told is as in l, and only on the
\* web is a reply recorded that no provider accepted.
Ends(p, l) ==
    /\ pc'[p] = "finish" => loc'[p].fin # "skipped"
    /\ loc'[p].replied = l.replied
    /\ pc'[p] = "record" => ChannelOfCall(p) = "web"

LEMMA ProceedEnds ==
    ASSUME TypeOK, NEW p \in Call, NEW l \in Locals,
           NEW place \in Working \ {"finish"}, Proceed(p, l, place),
           place = "record" => ChannelOfCall(p) = "web"
    PROVE  Ends(p, l)
  BY DEF TypeOK, Proceed, Ends

LEMMA CloseEnds ==
    ASSUME TypeOK, NEW p \in Call, NEW l \in Locals,
           NEW status \in {"completed", "failed"}, CloseAs(p, l, status)
    PROVE  Ends(p, l)
  <1>1. [l EXCEPT !.fin = status].fin = status
        /\ [l EXCEPT !.fin = status].replied = l.replied
    BY DEF Locals
  <1> QED  BY <1>1 DEF TypeOK, CloseAs, Ends

LEMMA NextToolEnds ==
    ASSUME TypeOK, NEW p \in Call, NEW l \in Locals, l.todo # <<>>,
           NextTool(p, l)
    PROVE  Ends(p, l)
  <1> DEFINE rest == [l EXCEPT !.todo = Tail(@), !.sending = "nobody"]
  <1>1. rest \in Locals  BY LocalsUpdate
  <1>2. rest.replied = l.replied  BY DEF Locals
  <1> HIDE DEF rest
  <1>3. CASE Proceed(p, rest, "tools") \/ Proceed(p, rest, "model")
    <2>1. Ends(p, rest)  BY <1>1, <1>3, ProceedEnds DEF Working
    <2> QED  BY <1>2, <2>1 DEF Ends
  <1>4. CASE CloseAs(p, rest, "failed")
    <2>1. Ends(p, rest)  BY <1>1, <1>4, CloseEnds
    <2> QED  BY <1>2, <2>1 DEF Ends
  <1> QED  BY <1>3, <1>4 DEF NextTool, rest

LEMMA BeginSendEnds ==
    ASSUME TypeOK, NEW p \in Call, NEW l \in Locals,
           NEW who \in {"pong", "tool", "auto"}, BeginSend(p, l, who)
    PROVE  Ends(p, l)
  <1> DEFINE n == [l EXCEPT !.sending = who]
  <1>1. n \in Locals  BY LocalsUpdate
  <1>2. n.replied = l.replied  BY DEF Locals
  <1> HIDE DEF n
  <1>3. Ends(p, n)
    <2>1. CASE ChannelOfCall(p) = "web" /\ Proceed(p, n, "record")
      BY <1>1, <2>1, ProceedEnds DEF Working
    <2>2. CASE Proceed(p, n, "send")
      BY <1>1, <2>2, ProceedEnds DEF Working
    <2> QED  BY <2>1, <2>2 DEF BeginSend, n
  <1> QED  BY <1>2, <1>3 DEF Ends

LEMMA SendOkEnds ==
    ASSUME TypeOK, NEW p \in Call, NEW l \in Locals,
           l.sending = "tool" => l.todo # <<>>, SendOk(p, l)
    PROVE  Ends(p, [l EXCEPT !.replied = TRUE])
  <1> DEFINE told == [l EXCEPT !.replied = TRUE]
  <1>1. told \in Locals  BY LocalsUpdate
  <1>2. told.todo = l.todo  BY DEF Locals
  <1>3. CASE CloseAs(p, told, "completed")
    BY <1>1, <1>3, CloseEnds
  <1>4. CASE l.sending = "tool" /\ NextTool(p, told)
    BY <1>1, <1>2, <1>4, NextToolEnds
  <1> QED  BY <1>3, <1>4 DEF SendOk

LEMMA SendFailedEnds ==
    ASSUME TypeOK, NEW p \in Call, NEW l \in Locals, NEW unavailable \in BOOLEAN,
           l.sending = "tool" => l.todo # <<>>, SendFailed(p, l, unavailable)
    PROVE  Ends(p, l)
  <1> DEFINE n == [l EXCEPT !.sending = "nobody"]
  <1>1. n \in Locals  BY LocalsUpdate
  <1>2. n.replied = l.replied  BY DEF Locals
  <1> HIDE DEF n
  <1>5. CASE Proceed(p, n, "model")
    <2>1. Ends(p, n)  BY <1>1, <1>5, ProceedEnds DEF Working
    <2> QED  BY <1>2, <2>1 DEF Ends
  <1>3. CASE l.sending = "tool" /\ NextTool(p, l)  BY <1>3, NextToolEnds
  <1>4. CASE CloseAs(p, l, "completed") \/ CloseAs(p, l, "failed")
    BY <1>4, CloseEnds
  <1> QED  BY <1>3, <1>4, <1>5 DEF SendFailed, n

-----------------------------------------------------------------------------
(* What a step does to the tables, to the runs and to one call.            *)

\* RecordOutbound commits a row in reply to m.
StoresRow(m) ==
    /\ rows' = rows \cup {OutboundRow(m)}
    /\ now' = now + 1
    /\ UNCHANGED <<channel, stamp>>

LEMMA StoreReplyStores ==
    ASSUME OwnInv, NEW p \in Call, Record(p) \/ RecordFails(p)
    PROVE  /\ req[p] \in Msg
           /\ Record(p) => StoresRow(req[p])
           /\ UNCHANGED tables \/ StoresRow(req[p])
  <1>1. pc[p] \in {"send", "record"}  BY DEF Record, RecordFails
  <1>2. req[p] \in Msg  BY <1>1, Sending
  <1> QED  BY <1>2 DEF Record, RecordFails, StoreReply, StoresRow

LEMMA TableSteps ==
    ASSUME OwnInv, [Next]_vars
    PROVE  \/ UNCHANGED tables
           \/ \E m \in Msg : Arrive(m) \/ Commit(m) \/ StoresRow(m)
  <1>1. CASE UNCHANGED vars  BY <1>1 DEF vars, tables
  <1>2. ASSUME NEW p \in Call,
               \/ \E m \in Msg : Begin(p, m)
               \/ ContextDone(p) \/ Die(p) \/ LoseSession(p) \/ NoRuntime(p)
        PROVE  UNCHANGED tables
    BY <1>2 DEF Begin, ContextDone, Die, LoseSession, NoRuntime
  <1>3. ASSUME NEW p \in Call,
               \/ AcquireLock(p) \/ LockFails(p) \/ StartRun(p) \/ AlreadyStarted(p)
               \/ StartRunFails(p) \/ Finish(p) \/ Unlock(p)
               \/ ListMessages(p) \/ CallModel(p) \/ StepFails(p) \/ RunTool(p)
               \/ ProviderAccepts(p) \/ ProviderFails(p) \/ Enqueue(p) \/ EnqueueFails(p)
        PROVE  UNCHANGED tables
    BY <1>3 DEF AcquireLock, LockFails, StartRun, AlreadyStarted, StartRunFails,
                Finish, Unlock, ListMessages, CallModel, StepFails, RunTool,
                ProviderAccepts, ProviderFails, Enqueue, EnqueueFails
  <1>4. ASSUME NEW p \in Call, Record(p) \/ RecordFails(p)
        PROVE  UNCHANGED tables \/ \E m \in Msg : StoresRow(m)
    BY <1>4, StoreReplyStores
  <1>5. CASE DeliverJob
    <2>1. Head(queue) \in Msg  BY <1>5 DEF DeliverJob, OwnInv, TypeOK
    <2> QED  BY <1>5, <2>1 DEF DeliverJob, StoresRow
  <1> QED  BY <1>1, <1>2, <1>3, <1>4, <1>5 DEF Next, Step

\* Rows stay, and so do channels and the times of messages that have one.
LEMMA TablesGrow ==
    ASSUME OwnInv, [Next]_vars
    PROVE  /\ rows \subseteq rows' /\ channel' = channel /\ now <= now'
           /\ \A m \in Msg : stamp[m] # 0 => stamp'[m] = stamp[m]
  <1>1. now \in Nat /\ stamp \in [Msg -> Nat]  BY DEF OwnInv, TypeOK
  <1>2. CASE UNCHANGED tables  BY <1>1, <1>2 DEF tables
  <1>3. ASSUME NEW m \in Msg, Arrive(m)
        PROVE  /\ rows \subseteq rows' /\ channel' = channel /\ now <= now'
               /\ \A n \in Msg : stamp[n] # 0 => stamp'[n] = stamp[n]
    BY <1>1, <1>3 DEF Arrive
  <1>4. ASSUME NEW m \in Msg, Commit(m) \/ StoresRow(m)
        PROVE  /\ rows \subseteq rows' /\ channel' = channel /\ now <= now'
               /\ \A n \in Msg : stamp[n] # 0 => stamp'[n] = stamp[n]
    BY <1>1, <1>4 DEF Commit, StoresRow
  <1> QED  BY <1>2, <1>3, <1>4, TableSteps

\* What a call may do, as far as what it told and what it is about to write
\* are concerned.  It was not active, waits, or ends a step of the body ...
Rests(p) ==
    /\ loc'[p] = loc[p]
    /\ pc'[p] = pc[p] \/ pc'[p] \notin {"finish", "record", "idle"}
\* ... without a reply,
GoesOn(p) == pc[p] \in Working /\ pc'[p] \in Working /\ Ends(p, loc[p])
\* with one, that is queued for Discord or stored,
Tells(p) ==
    /\ pc[p] \in {"send", "record"} /\ pc'[p] \in Working
    /\ Ends(p, [loc[p] EXCEPT !.replied = TRUE])
    /\ ChannelOfCall(p) = "discord" \/ OutboundRow(req[p]) \in rows'
\* by accepting that the provider took the reply,
Takes(p) == ProviderAccepts(p)
\* or by finding the message superseded.
Skips(p) ==
    /\ pc[p] = "list"
    /\ ~Eligible(req[p])
    /\ CloseAs(p, loc[p], "skipped")

LEMMA BodyActor ==
    ASSUME OwnInv, NEW p \in Call,
           \/ ListMessages(p) \/ CallModel(p) \/ StepFails(p) \/ RunTool(p)
           \/ ProviderAccepts(p) \/ ProviderFails(p) \/ Enqueue(p)
           \/ EnqueueFails(p) \/ NoRuntime(p) \/ Record(p) \/ RecordFails(p)
    PROVE  /\ GoesOn(p) \/ Tells(p) \/ Takes(p) \/ Skips(p)
           /\ pc[p] \in Working /\ Fits(p)
  <1> USE DEF Working
  <1>0. TypeOK  BY DEF OwnInv
  <1>1. CASE ListMessages(p)
    <2>1. pc[p] \in Working /\ loc[p] \in Locals  BY <1>0, <1>1 DEF ListMessages, TypeOK
    <2>2. CASE BeginSend(p, loc[p], "pong") \/ Proceed(p, loc[p], "model")
      <3>1. Ends(p, loc[p]) /\ Fits(p)
        BY <1>0, <2>1, <2>2, BeginSendEnds, ProceedEnds, BeginSendFits, ProceedFits
      <3> QED  BY <2>1, <3>1 DEF GoesOn, Fits
    <2>3. CASE ~Eligible(req[p]) /\ CloseAs(p, loc[p], "skipped")
      <3>1. Fits(p)  BY <1>0, <2>1, <2>3, CloseFits DEF Closed
      <3> QED  BY <1>1, <2>1, <2>3, <3>1 DEF Skips, ListMessages
    <2> QED  BY <1>1, <2>2, <2>3 DEF ListMessages
  <1>2. CASE CallModel(p)
    <2>1. pc[p] \in Working /\ loc[p] \in Locals  BY <1>0, <1>2 DEF CallModel, TypeOK
    <2>2. PICK hasText \in BOOLEAN, calls \in ToolLists :
            LET l == [loc[p] EXCEPT !.step = @ + 1, !.todo = calls,
                                    !.text = @ \/ hasText] IN
            \/ calls # <<>> /\ Proceed(p, l, "tools")
            \/ BeginSend(p, l, "auto")
            \/ CloseAs(p, l, "completed")
      BY <1>2 DEF CallModel
    <2> DEFINE l == [loc[p] EXCEPT !.step = @ + 1, !.todo = calls,
                                   !.text = @ \/ hasText]
    <2>3. calls \in Seq(Tools)  BY ToolListsAreSeqs
    <2>4. l \in Locals /\ l.todo = calls /\ l.replied = loc[p].replied
      <3>1. loc[p].step + 1 \in Nat  BY <2>1 DEF Locals
      <3>2. (loc[p].text \/ hasText) \in BOOLEAN  OBVIOUS
      <3> QED  BY <2>1, <2>3, <3>1, <3>2 DEF Locals
    <2>5. \/ calls # <<>> /\ Proceed(p, l, "tools")
          \/ BeginSend(p, l, "auto")
          \/ CloseAs(p, l, "completed")
      BY <2>2
    <2> HIDE DEF l
    <2>6. Ends(p, l)
      BY <1>0, <2>4, <2>5, ProceedEnds, BeginSendEnds, CloseEnds
    <2>7. Fits(p)
      BY <1>0, <2>4, <2>5, ProceedFits, BeginSendFits, CloseFits DEF Closed
    <2> QED  BY <2>1, <2>4, <2>6, <2>7 DEF GoesOn, Fits, Ends
  <1>3. CASE StepFails(p)
    <2>1. pc[p] \in Working /\ loc[p] \in Locals  BY <1>0, <1>3 DEF StepFails, TypeOK
    <2>2. Ends(p, loc[p]) /\ Fits(p)
      BY <1>0, <1>3, <2>1, CloseEnds, CloseFits DEF StepFails, Closed
    <2> QED  BY <2>1, <2>2 DEF GoesOn, Fits
  <1>4. CASE RunTool(p)
    <2>1. pc[p] \in Working /\ loc[p] \in Locals /\ loc[p].todo # <<>>
      BY <1>4 DEF RunTool, OwnInv, TypeOK, LocalsFit
    <2>2. \/ BeginSend(p, loc[p], "tool") \/ NextTool(p, loc[p])
          \/ CloseAs(p, loc[p], "failed")
      BY <1>4 DEF RunTool
    <2>3. Ends(p, loc[p])
      BY <1>0, <2>1, <2>2, BeginSendEnds, NextToolEnds, CloseEnds
    <2>4. Fits(p)
      BY <1>0, <2>1, <2>2, BeginSendFits, NextToolFits, CloseFits DEF Closed
    <2> QED  BY <2>1, <2>3, <2>4 DEF GoesOn, Fits
  <1>5. CASE ProviderAccepts(p)
    <2>1. pc[p] \in {"send", "record"}  BY <1>5 DEF ProviderAccepts
    <2>2. Fits(p)  BY <1>0, <1>5, <2>1, Sending, ProceedFits DEF ProviderAccepts
    <2> QED  BY <1>5, <2>1, <2>2 DEF Takes
  <1>6. CASE ProviderFails(p) \/ EnqueueFails(p) \/ NoRuntime(p) \/ RecordFails(p)
    <2>1. pc[p] \in {"send", "record"}
      BY <1>6 DEF ProviderFails, EnqueueFails, NoRuntime, RecordFails
    <2>2. \E unavailable \in BOOLEAN : SendFailed(p, loc[p], unavailable)
      BY <1>6 DEF ProviderFails, EnqueueFails, NoRuntime, RecordFails
    <2>3. Ends(p, loc[p]) /\ Fits(p)
      BY <1>0, <2>1, <2>2, Sending, SendFailedEnds, SendFailedFits
    <2> QED  BY <2>1, <2>3 DEF GoesOn, Fits
  <1>7. CASE Enqueue(p) \/ Record(p)
    <2>1. pc[p] \in {"send", "record"} /\ SendOk(p, loc[p])
      BY <1>7 DEF Enqueue, Record
    <2>2. Ends(p, [loc[p] EXCEPT !.replied = TRUE]) /\ Fits(p)
      BY <1>0, <2>1, Sending, SendOkEnds, SendOkFits
    <2>3. ChannelOfCall(p) = "discord" \/ OutboundRow(req[p]) \in rows'
      BY <1>7, StoreReplyStores DEF Enqueue, StoresRow
    <2> QED  BY <2>1, <2>2, <2>3 DEF Tells, Fits
  <1> QED  BY <1>1, <1>2, <1>3, <1>4, <1>5, <1>6, <1>7

\* Each call does one of these in every step, and keeps its message.
LEMMA CallSteps ==
    ASSUME OwnInv, [Next]_vars, NEW q \in Call
    PROVE  /\ Rests(q) \/ GoesOn(q) \/ Tells(q) \/ Takes(q) \/ Skips(q)
           /\ pc[q] # "idle" => req'[q] = req[q]
           /\ \/ pc'[q] # "idle" /\ pc[q] # "idle"
              \/ pc'[q] = "idle" /\ pc[q] = "idle"
              \/ \E m \in Msg : Begin(q, m)
  <1> DEFINE Same == Rests(q) /\ pc'[q] = pc[q] /\ req'[q] = req[q]
  <1>0. TypeOK  BY DEF OwnInv
  <1>1. CASE UNCHANGED vars  BY <1>1 DEF vars, Rests
  <1>2. CASE DeliverJob \/ \E m \in Msg : Arrive(m) \/ Commit(m)
    BY <1>2 DEF DeliverJob, Arrive, Commit, Rests
  <1>3. ASSUME NEW p \in Call, NEW m \in Msg, Begin(p, m)
        PROVE  Same \/ (q = p /\ Rests(q) /\ pc[q] = "idle")
    BY <1>0, <1>3 DEF Begin, Rests, TypeOK
  <1>4. ASSUME NEW p \in Call, ContextDone(p) \/ LoseSession(p) PROVE Same
    BY <1>4 DEF ContextDone, LoseSession, Rests
  <1>5. ASSUME NEW p \in Call,
               \/ Die(p) \/ AcquireLock(p) \/ LockFails(p) \/ StartRun(p)
               \/ AlreadyStarted(p) \/ StartRunFails(p) \/ Finish(p) \/ Unlock(p)
        PROVE  /\ Rests(q) /\ req'[q] = req[q]
               /\ pc'[q] = pc[q] \/ (pc[q] # "idle" /\ pc'[q] # "idle")
    BY <1>0, <1>5 DEF Die, AcquireLock, LockFails, StartRun, AlreadyStarted,
                      StartRunFails, Finish, Unlock, Rests, TypeOK, Locked, Working
  <1>6. ASSUME NEW p \in Call,
               \/ ListMessages(p) \/ CallModel(p) \/ StepFails(p) \/ RunTool(p)
               \/ ProviderAccepts(p) \/ ProviderFails(p) \/ Enqueue(p)
               \/ EnqueueFails(p) \/ NoRuntime(p) \/ Record(p) \/ RecordFails(p)
        PROVE  /\ Rests(q) \/ GoesOn(q) \/ Tells(q) \/ Takes(q) \/ Skips(q)
               /\ req'[q] = req[q]
               /\ pc'[q] = pc[q] \/ (pc[q] # "idle" /\ pc'[q] # "idle")
    <2>1. /\ GoesOn(p) \/ Tells(p) \/ Takes(p) \/ Skips(p)
          /\ pc[p] \in Working /\ Fits(p)
      BY <1>6, BodyActor
    <2>2. req' = req
      BY <1>6 DEF ListMessages, CallModel, StepFails, RunTool, ProviderAccepts,
                  ProviderFails, Enqueue, EnqueueFails, NoRuntime, Record,
                  RecordFails
    <2>3. q # p => Rests(q) /\ pc'[q] = pc[q]
      BY <1>0, <2>1 DEF Fits, Rests, TypeOK
    <2>4. pc[p] # "idle" /\ pc'[p] # "idle"  BY <2>1 DEF Fits, Working
    <2> QED  BY <2>1, <2>2, <2>3, <2>4
  <1> QED  BY <1>1, <1>2, <1>3, <1>4, <1>5, <1>6 DEF Next, Step

\* A run changes its status when a call starts it or closes it.
LEMMA RunMoves ==
    ASSUME OwnInv, [Next]_vars, NEW m \in Msg, run'[m] # run[m]
    PROVE  \E p \in Call :
             /\ req[p] = m
             /\ \/ pc[p] = "start" /\ run'[m] = "running"
                \/ pc[p] = "finish" /\ run'[m] = loc[p].fin
  <1>0. run \in [Msg -> RunStatus]  BY DEF OwnInv, TypeOK
  <1>1. \E p \in Call : StartRun(p) \/ StartRunFails(p) \/ Finish(p)
    <2>1. ~UNCHANGED run  OBVIOUS
    <2>2. ASSUME NEW p \in Call,
                 \/ ContextDone(p) \/ Die(p) \/ LoseSession(p) \/ AcquireLock(p)
                 \/ LockFails(p) \/ AlreadyStarted(p) \/ Unlock(p)
                 \/ \E n \in Msg : Begin(p, n)
          PROVE  UNCHANGED run
      BY <2>2 DEF ContextDone, Die, LoseSession, AcquireLock, LockFails,
                  AlreadyStarted, Unlock, Begin
    <2>3. ASSUME NEW p \in Call,
                 \/ ListMessages(p) \/ CallModel(p) \/ StepFails(p) \/ RunTool(p)
                 \/ ProviderAccepts(p) \/ ProviderFails(p) \/ Enqueue(p)
                 \/ EnqueueFails(p) \/ NoRuntime(p) \/ Record(p) \/ RecordFails(p)
          PROVE  UNCHANGED run
      BY <2>3 DEF ListMessages, CallModel, StepFails, RunTool, ProviderAccepts,
                  ProviderFails, Enqueue, EnqueueFails, NoRuntime, Record,
                  RecordFails
    <2>4. DeliverJob \/ UNCHANGED vars \/ (\E n \in Msg : Arrive(n) \/ Commit(n))
            => UNCHANGED run
      BY DEF DeliverJob, vars, Arrive, Commit
    <2> QED  BY <2>1, <2>2, <2>3, <2>4 DEF Next, Step
  <1>2. PICK p \in Call : StartRun(p) \/ StartRunFails(p) \/ Finish(p)  BY <1>1
  <1> QED  BY <1>0, <1>2 DEF StartRun, StartRunFails, Finish

-----------------------------------------------------------------------------
(* The invariant, conjunct by conjunct.                                    *)

LEMMA RowsDatedStep ==
    ASSUME OwnInv, RowsDated, [Next]_vars
    PROVE  RowsDated'
  <1>0. now \in Nat /\ stamp \in [Msg -> Nat] /\ rows \subseteq Row
    BY DEF OwnInv, TypeOK
  <1>1. \A m \in Msg : stamp'[m] <= now' /\ (stamp[m] # 0 => stamp'[m] # 0)
    <2> TAKE m \in Msg
    <2>1. stamp[m] <= now  BY DEF RowsDated
    <2>2. ASSUME NEW n \in Msg, Arrive(n)
          PROVE  stamp'[m] <= now' /\ (stamp[m] # 0 => stamp'[m] # 0)
      BY <1>0, <2>1, <2>2 DEF Arrive
    <2>3. ASSUME UNCHANGED stamp, now <= now', now' \in Nat
          PROVE  stamp'[m] <= now' /\ (stamp[m] # 0 => stamp'[m] # 0)
      BY <1>0, <2>1, <2>3
    <2>4. ASSUME NEW n \in Msg, Commit(n) \/ StoresRow(n)
          PROVE  UNCHANGED stamp /\ now <= now' /\ now' \in Nat
      BY <1>0, <2>4 DEF Commit, StoresRow
    <2> QED  BY <1>0, <2>2, <2>3, <2>4, TableSteps DEF tables
  <1>2. \A m \in Msg : run'[m] # "none" => stamp'[m] # 0
    <2> SUFFICES ASSUME NEW m \in Msg, run'[m] # "none" PROVE stamp[m] # 0
      BY <1>1
    <2>1. CASE run'[m] = run[m]  BY <2>1 DEF RowsDated
    <2>2. CASE run'[m] # run[m]  BY <2>2, RunMoves DEF RowsDated
    <2> QED  BY <2>1, <2>2
  <1>3. \A r \in rows' : r.at <= now' /\ (r.dir = "inbound" => stamp'[r.msg] # 0)
    <2> SUFFICES ASSUME NEW r \in rows'
                 PROVE  r.at <= now' /\ (r.dir = "inbound" => stamp'[r.msg] # 0)
      OBVIOUS
    <2>0. now <= now' /\ now' \in Nat
      <3>1. OwnInv'  BY NextInv
      <3> QED  BY <3>1, TablesGrow DEF OwnInv, TypeOK
    <2>1. CASE r \in rows
      <3>1. r.at \in Nat /\ r.msg \in Msg /\ r.at <= now
            /\ (r.dir = "inbound" => stamp[r.msg] # 0)
        BY <1>0, <2>1 DEF RowsDated, Row
      <3> QED  BY <1>0, <1>1, <2>0, <3>1
    <2>2. ASSUME NEW m \in Msg, Commit(m), r = InboundRow(m)
          PROVE  r.at <= now' /\ stamp'[r.msg] # 0
      BY <2>2 DEF Commit, InboundRow, RowsDated
    <2>3. ASSUME NEW m \in Msg, StoresRow(m), r = OutboundRow(m)
          PROVE  r.at <= now' /\ r.dir # "inbound"
      BY <1>0, <2>3 DEF StoresRow, OutboundRow
    <2> QED
      BY <2>1, <2>2, <2>3, TableSteps DEF tables, Arrive, Commit, StoresRow
  <1>4. \A p \in Call : pc'[p] # "idle" => stamp'[req'[p]] # 0
    <2> SUFFICES ASSUME NEW p \in Call, pc'[p] # "idle" PROVE stamp'[req'[p]] # 0
      OBVIOUS
    <2>1. CASE pc[p] # "idle"
      <3>1. req'[p] = req[p] /\ req[p] \in Msg
        BY <2>1, CallSteps DEF OwnInv, Asked
      <3> QED  BY <1>1, <2>1, <3>1 DEF RowsDated
    <2>2. ASSUME NEW m \in Msg, Begin(p, m) PROVE stamp'[req'[p]] # 0
      <3>1. InboundRow(m).dir = "inbound" /\ InboundRow(m).msg = m
        BY DEF InboundRow
      <3>2. stamp[m] # 0  BY <2>2, <3>1 DEF Begin, RowsDated
      <3> QED  BY <1>1, <2>2, <3>2 DEF Begin, OwnInv, TypeOK
    <2> QED  BY <2>1, <2>2, CallSteps
  <1> QED  BY <1>1, <1>2, <1>3, <1>4 DEF RowsDated

\* What superseded a message goes on to do so.
LEMMA SupersededStays ==
    ASSUME OwnInv, [Next]_vars, NEW m \in Msg, stamp[m] # 0, Superseded(m)
    PROVE  Superseded(m)'
  <1>1. rows \subseteq rows' /\ stamp'[m] = stamp[m]  BY TablesGrow
  <1> QED  BY <1>1 DEF Superseded

LEMMA SkipsStep ==
    ASSUME OwnInv, RowsDated, SkipsExplained, [Next]_vars
    PROVE  SkipsExplained'
  <1>0. rows \subseteq Row /\ stamp \in [Msg -> Nat] /\ loc \in [Call -> Locals]
        /\ pc \in [Call -> PC]
    BY DEF OwnInv, TypeOK
  <1>1. ASSUME NEW p \in Call, pc'[p] = "finish", loc'[p].fin = "skipped",
               req'[p] \notin System
        PROVE  Superseded(req[p])'
    <2>1. pc[p] # "idle"
      <3>1. ASSUME NEW m \in Msg, Begin(p, m) PROVE FALSE
        BY <1>0, <1>1, <3>1 DEF Begin
      <3> QED  BY <1>1, <3>1, CallSteps
    <2>2. req'[p] = req[p] /\ req[p] \in Msg /\ stamp[req[p]] # 0
      BY <2>1, CallSteps DEF OwnInv, Asked, RowsDated
    <2>3. CASE Rests(p)
      <3>1. Superseded(req[p])  BY <1>1, <2>2, <2>3 DEF Rests, SkipsExplained
      <3> QED  BY <2>2, <3>1, SupersededStays DEF Superseded
    <2>4. CASE GoesOn(p) \/ Tells(p)
      BY <1>1, <2>4 DEF GoesOn, Tells, Ends
    <2>5. CASE Takes(p)
      BY <1>0, <1>1, <2>5 DEF Takes, ProviderAccepts, Proceed
    <2>6. CASE Skips(p)
      <3>1. ~IsNewest(req[p])  BY <1>1, <2>2, <2>6 DEF Skips, Eligible
      <3>2. PICK r \in rows : ConvOf[r.msg] = ConvOf[req[p]] /\ ~(r.at <= stamp[req[p]])
        BY <3>1 DEF IsNewest
      <3>3. r.at \in Nat /\ stamp[req[p]] \in Nat  BY <1>0, <2>2 DEF Row
      <3>4. Superseded(req[p])  BY <3>2, <3>3 DEF Superseded
      <3> QED  BY <2>2, <3>4, SupersededStays DEF Superseded
    <2> QED  BY <2>3, <2>4, <2>5, <2>6, CallSteps
  <1>2. ASSUME NEW m \in Msg, run'[m] = "skipped", m \notin System
        PROVE  Superseded(m)'
    <2>1. CASE run'[m] = run[m]
      <3>1. Superseded(m) /\ stamp[m] # 0
        BY <1>2, <2>1 DEF SkipsExplained, RowsDated
      <3> QED  BY <3>1, SupersededStays
    <2>2. CASE run'[m] # run[m]
      <3>1. PICK p \in Call : req[p] = m /\ pc[p] = "finish" /\ loc[p].fin = "skipped"
        BY <1>2, <2>2, RunMoves
      <3>2. Superseded(m) /\ stamp[m] # 0
        BY <1>2, <3>1 DEF SkipsExplained, RowsDated
      <3> QED  BY <3>2, SupersededStays
    <2> QED  BY <2>1, <2>2
  <1> QED  BY <1>1, <1>2 DEF SkipsExplained

LEMMA RepliesStoredStep ==
    ASSUME OwnInv, RepliesStored, [Next]_vars
    PROVE  RepliesStored'
  <1> SUFFICES ASSUME NEW q \in Call, loc'[q].replied
               PROVE  /\ pc'[q] # "idle"
                      /\ ChannelOfCall(q)' # "discord" => Outbound(req[q])' # {}
    BY DEF RepliesStored
  <1>0. loc \in [Call -> Locals] /\ loc[q] \in Locals /\ pc \in [Call -> PC]
    BY DEF OwnInv, TypeOK
  <1>1. pc[q] # "idle"
    <2>1. ASSUME pc[q] = "idle" PROVE FALSE
      <3>1. Rests(q)
        BY <2>1, CallSteps DEF GoesOn, Tells, Takes, ProviderAccepts, Skips, Working
      <3> QED  BY <2>1, <3>1 DEF Rests, RepliesStored
    <2> QED  BY <2>1
  <1>2. pc'[q] # "idle" /\ req'[q] = req[q]
    <2>1. ASSUME NEW m \in Msg, Begin(q, m) PROVE FALSE
      BY <1>1, <2>1 DEF Begin
    <2> QED  BY <1>1, <2>1, CallSteps
  <1>3. ChannelOfCall(q)' = ChannelOfCall(q)
    BY <1>2, TablesGrow DEF ChannelOfCall
  <1>4. CASE loc[q].replied
    <2>1. ASSUME ChannelOfCall(q) # "discord" PROVE Outbound(req[q])' # {}
      <3>1. Outbound(req[q]) # {}  BY <1>4, <2>1 DEF RepliesStored
      <3>2. rows \subseteq rows'  BY TablesGrow
      <3> QED  BY <1>2, <3>1, <3>2 DEF Outbound
    <2> QED  BY <1>2, <1>3, <2>1
  <1>5. CASE ~loc[q].replied
    <2>1. Tells(q)
      <3>1. ~Rests(q) /\ ~GoesOn(q)  BY <1>5 DEF Rests, GoesOn, Ends
      <3>2. ~Takes(q)
        BY <1>0, <1>5 DEF Takes, ProviderAccepts, Proceed
      <3>3. ~Skips(q)
        <4>1. [loc[q] EXCEPT !.fin = "skipped"].replied = loc[q].replied
          BY <1>0 DEF Locals
        <4> QED  BY <1>0, <1>5, <4>1 DEF Skips, CloseAs
      <3> QED  BY <3>1, <3>2, <3>3, CallSteps
    <2>2. ASSUME ChannelOfCall(q) # "discord" PROVE Outbound(req[q])' # {}
      <3>1. OutboundRow(req[q]) \in rows'  BY <2>1, <2>2 DEF Tells
      <3>2. OutboundRow(req[q]).dir = "outbound" /\ OutboundRow(req[q]).msg = req[q]
        BY DEF OutboundRow
      <3> QED  BY <1>2, <3>1, <3>2 DEF Outbound
    <2> QED  BY <1>2, <1>3, <2>2
  <1> QED  BY <1>4, <1>5

-----------------------------------------------------------------------------
(* Counting rows, jobs and replies.                                        *)

Counted(m) ==
    /\ IsFiniteSet(Outbound(m))
    /\ Cardinality(Outbound(m)) + Cardinality(Queued(m))
         + (IF Unrecorded(m) THEN 1 ELSE 0) <= Sent(m)

\* What is counted is a number.
LEMMA CountsAreNumbers ==
    ASSUME OwnInv, NEW m \in Msg
    PROVE  /\ IsFiniteSet(Queued(m)) /\ Cardinality(Queued(m)) \in Nat
           /\ IsFiniteSet(Outbound(m)) => Cardinality(Outbound(m)) \in Nat
           /\ Sent(m) \in Nat
  <1>1. queue \in Seq(Msg)  BY DEF OwnInv, TypeOK
  <1>2. IsFiniteSet(1..Len(queue))  BY <1>1, FS_Interval
  <1>3. Queued(m) \subseteq 1..Len(queue)  BY <1>1 DEF Queued
  <1>4. IsFiniteSet(Queued(m))  BY <1>2, <1>3, FS_Subset
  <1>5. Sent(m) \in Nat  BY DEF OwnInv, TypeOK, Sent
  <1> QED  BY <1>4, <1>5, FS_CardinalityType

LEMMA CountsStayNumbers ==
    ASSUME OwnInv', NEW m \in Msg
    PROVE  Cardinality(Queued(m)') \in Nat /\ Sent(m)' \in Nat
  <1>1. queue' \in Seq(Msg)  BY DEF OwnInv, TypeOK
  <1>2. IsFiniteSet(1..Len(queue'))  BY <1>1, FS_Interval
  <1>3. Queued(m)' \subseteq 1..Len(queue')  BY <1>1 DEF Queued
  <1>4. IsFiniteSet(Queued(m)')  BY <1>2, <1>3, FS_Subset
  <1>5. Sent(m)' \in Nat  BY DEF OwnInv, TypeOK, Sent
  <1> QED  BY <1>4, <1>5, FS_CardinalityType

\* EnqueueReply adds a job of one message.
LEMMA QueuedAppend ==
    ASSUME OwnInv, NEW m \in Msg, NEW n \in Msg, queue' = Append(queue, n)
    PROVE  Cardinality(Queued(m)') = Cardinality(Queued(m)) + (IF m = n THEN 1 ELSE 0)
  <1>1. queue \in Seq(Msg)  BY DEF OwnInv, TypeOK
  <1> DEFINE last == Len(queue) + 1
  <1>2. /\ DOMAIN queue = 1..Len(queue) /\ DOMAIN queue' = 1..last
        /\ queue'[last] = n /\ \A i \in 1..Len(queue) : queue'[i] = queue[i]
    BY <1>1
  <1>3. CASE m = n
    <2>1. Queued(m)' = Queued(m) \cup {last} /\ last \notin Queued(m)
      BY <1>1, <1>2, <1>3 DEF Queued
    <2> QED  BY <1>3, <2>1, CountsAreNumbers, FS_AddElement
  <1>4. CASE m # n
    <2>1. Queued(m)' = Queued(m)  BY <1>1, <1>2, <1>4 DEF Queued
    <2> QED  BY <1>4, <2>1, CountsAreNumbers
  <1> QED  BY <1>3, <1>4

\* The send loop takes the first job.
LEMMA QueuedTail ==
    ASSUME OwnInv, NEW m \in Msg, queue # <<>>, queue' = Tail(queue)
    PROVE  Cardinality(Queued(m)') =
             Cardinality(Queued(m)) - (IF m = Head(queue) THEN 1 ELSE 0)
  <1>1. queue \in Seq(Msg)  BY DEF OwnInv, TypeOK
  <1>2. /\ Len(queue) \in Nat /\ Len(queue) > 0
        /\ DOMAIN queue = 1..Len(queue) /\ DOMAIN queue' = 1..(Len(queue) - 1)
        /\ \A i \in 1..(Len(queue) - 1) : queue'[i] = queue[i + 1]
        /\ Head(queue) = queue[1]
    BY <1>1
  <1> DEFINE Rest == Queued(m) \ {1}
             f == [i \in Queued(m)' |-> i + 1]
  <1>3. IsFiniteSet(Queued(m)) /\ Cardinality(Queued(m)) \in Nat
    BY CountsAreNumbers
  <1>4. /\ IsFiniteSet(Rest)
        /\ Cardinality(Rest) = Cardinality(Queued(m)) - (IF m = Head(queue) THEN 1 ELSE 0)
    <2>1. 1 \in Queued(m) <=> m = Head(queue)  BY <1>2 DEF Queued
    <2> QED  BY <1>3, <2>1, FS_RemoveElement
  <1>5. Cardinality(Queued(m)') = Cardinality(Rest)
    <2>1. f \in [Queued(m)' -> Rest]  BY <1>2 DEF Queued
    <2>2. \A a, b \in Queued(m)' : f[a] = f[b] => a = b  BY <1>2 DEF Queued
    <2>3. \A t \in Rest : \E s \in Queued(m)' : f[s] = t
      <3> SUFFICES ASSUME NEW t \in Rest PROVE \E s \in Queued(m)' : f[s] = t
        OBVIOUS
      <3>1. t \in 1..Len(queue) /\ t # 1 /\ queue[t] = m  BY <1>2 DEF Queued
      <3>2. t - 1 \in 1..(Len(queue) - 1) /\ (t - 1) + 1 = t  BY <1>2, <3>1
      <3>3. t - 1 \in Queued(m)'  BY <1>2, <3>1, <3>2 DEF Queued
      <3> QED  BY <3>2, <3>3
    <2>4. f \in Bijection(Queued(m)', Rest)  BY <2>1, <2>2, <2>3, Fun_IsBij
    <2>5. ExistsBijection(Queued(m)', Rest)  BY <2>4, Fun_ExistsBij
    <2>6. IsFiniteSet(Queued(m)')
      <3>1. Queued(m)' \subseteq 1..(Len(queue) - 1)  BY <1>2 DEF Queued
      <3>2. IsFiniteSet(1..(Len(queue) - 1))  BY <1>2, FS_Interval
      <3> QED  BY <3>1, <3>2, FS_Subset
    <2> QED  BY <2>5, <2>6, FS_Bijection
  <1> QED  BY <1>4, <1>5

\* A stored reply is a new row: created_at is later than any before.
LEMMA OutboundGrows ==
    ASSUME OwnInv, RowsDated, NEW m \in Msg, NEW n \in Msg, StoresRow(n),
           IsFiniteSet(Outbound(m))
    PROVE  /\ IsFiniteSet(Outbound(m)')
           /\ Cardinality(Outbound(m)') = Cardinality(Outbound(m)) + (IF m = n THEN 1 ELSE 0)
  <1> DEFINE r == OutboundRow(n)
  <1>1. r.at = now + 1 /\ r.dir = "outbound" /\ r.msg = n  BY DEF OutboundRow
  <1>2. r \notin rows  BY <1>1 DEF OwnInv, TypeOK, RowsDated
  <1>3. Cardinality(Outbound(m)) \in Nat  BY FS_CardinalityType
  <1> HIDE DEF r
  <1>4. rows' = rows \cup {r}  BY DEF StoresRow, r
  <1>5. CASE m = n
    <2>1. Outbound(m)' = Outbound(m) \cup {r} /\ r \notin Outbound(m)
      BY <1>1, <1>2, <1>4, <1>5 DEF Outbound
    <2> QED  BY <1>5, <2>1, FS_AddElement
  <1>6. CASE m # n
    <2>1. Outbound(m)' = Outbound(m)  BY <1>1, <1>4, <1>6 DEF Outbound
    <2> QED  BY <1>3, <1>6, <2>1
  <1> QED  BY <1>5, <1>6

\* The debt of a run: what its provider accepted and is not yet recorded.
Debt(m) == IF Unrecorded(m) THEN 1 ELSE 0

\* Rows and jobs stay: the count holds if the debt grows no more than what
\* was sent.
LEMMA CountKept ==
    ASSUME OwnInv, OwnInv', NEW m \in Msg, Counted(m),
           Outbound(m)' = Outbound(m), queue' = queue,
           Debt(m)' + Sent(m) <= Debt(m) + Sent(m)'
    PROVE  Counted(m)'
  <1>1. Queued(m)' = Queued(m)  BY DEF Queued
  <1>2. /\ Cardinality(Outbound(m)) \in Nat /\ Cardinality(Queued(m)) \in Nat
        /\ Sent(m) \in Nat /\ Sent(m)' \in Nat
    BY CountsAreNumbers, CountsStayNumbers DEF Counted
  <1>3. Debt(m) \in Nat /\ Debt(m)' \in Nat  BY DEF Debt
  <1>4. Cardinality(Outbound(m)) + Cardinality(Queued(m)) + Debt(m) <= Sent(m)
    BY DEF Counted, Debt
  <1>5. Cardinality(Outbound(m)') + Cardinality(Queued(m)') + Debt(m)' <= Sent(m)'
    BY <1>1, <1>2, <1>3, <1>4
  <1>6. IsFiniteSet(Outbound(m)')  BY DEF Counted
  <1> QED  BY <1>5, <1>6 DEF Counted, Debt

\* A call in the body answers for its own message, and for no other.
LEMMA ActorCounts ==
    ASSUME OwnInv, NEW p \in Call, pc[p] \in Working, Fits(p),
           UNCHANGED <<channel, owner, req>>, Handed(p) \/ UNCHANGED sends,
           NEW m \in Msg
    PROVE  /\ m # req[p] => Debt(m)' = Debt(m) /\ Sent(m)' = Sent(m)
           /\ m = req[p] =>
                /\ Sent(m) = sends[p] /\ Sent(m)' = sends'[p]
                /\ Debt(m) = IF pc[p] = "record" /\ ChannelOfCall(p) # "web" THEN 1 ELSE 0
                /\ Debt(m)' = IF pc'[p] = "record" /\ ChannelOfCall(p) # "web" THEN 1 ELSE 0
  <1>0. /\ pc \in [Call -> PC] /\ sends \in [Call -> Nat]
        /\ owner[m] \in Call \cup {None} /\ p # None
    BY DEF OwnInv, TypeOK
  <1>1. req[p] \in Msg /\ owner[req[p]] = p  BY WorkerOwns
  <1>2. CASE m # req[p]
    <2>1. owner[m] # p  BY <1>0, <1>2 DEF OwnInv, OwnersAsked
    <2>2. owner[m] # None => pc'[owner[m]] = pc[owner[m]] /\ sends'[owner[m]] = sends[owner[m]]
      BY <1>0, <2>1 DEF Fits, Handed
    <2> QED  BY <1>2, <2>2 DEF Debt, Unrecorded, Sent
  <1>3. CASE m = req[p]
    BY <1>0, <1>1, <1>3 DEF Debt, Unrecorded, Sent, ChannelOfCall
  <1> QED  BY <1>2, <1>3

\* A step of the body without row or job: what it sends may become a debt.
LEMMA CountBody ==
    ASSUME OwnInv, OwnInv', NEW p \in Call, pc[p] \in Working, Fits(p),
           UNCHANGED <<channel, rows, owner, req, queue>>,
           Handed(p) \/ UNCHANGED sends,
           \/ pc'[p] = "record" => ChannelOfCall(p) = "web"
           \/ Takes(p),
           NEW m \in Msg, Counted(m)
    PROVE  Counted(m)'
  <1>1. Outbound(m)' = Outbound(m)  BY DEF Outbound
  <1>2. Sent(m) \in Nat /\ Sent(m)' \in Nat /\ sends \in [Call -> Nat]
    <2>1. sends \in [Call -> Nat]  BY DEF OwnInv, TypeOK
    <2> QED  BY <2>1, CountsAreNumbers, CountsStayNumbers
  <1>3. Debt(m)' + Sent(m) <= Debt(m) + Sent(m)'
    <2>1. Debt(m) \in {0, 1}  BY DEF Debt
    <2>2. CASE m # req[p]  BY <1>2, <2>1, <2>2, ActorCounts
    <2>3. CASE m = req[p] /\ (pc'[p] = "record" => ChannelOfCall(p) = "web")
      <3>1. Debt(m)' = 0 /\ Sent(m) = sends[p] /\ Sent(m)' = sends'[p]
        BY <2>3, ActorCounts
      <3>2. sends'[p] >= sends[p]  BY <1>2 DEF Handed
      <3> QED  BY <1>2, <2>1, <3>1, <3>2
    <2>4. CASE m = req[p] /\ Takes(p)
      <3>1. /\ Sent(m) = sends[p] /\ Sent(m)' = sends'[p] /\ Debt(m)' \in {0, 1}
        BY <2>4, ActorCounts DEF Debt
      <3>2. sends'[p] = sends[p] + 1
        BY <1>2, <2>4 DEF Takes, ProviderAccepts, Handed
      <3> QED  BY <1>2, <2>1, <3>1, <3>2
    <2> QED  BY <2>2, <2>3, <2>4
  <1> QED  BY <1>1, <1>3, CountKept

\* RecordOutbound: the row pays the debt, or is the delivery itself.
LEMMA CountRecorded ==
    ASSUME OwnInv, OwnInv', RowsDated, NEW p \in Call, pc[p] = "record", Fits(p),
           StoreReply(p), UNCHANGED <<owner, req, queue>>,
           pc'[p] = "record" => ChannelOfCall(p) = "web",
           NEW m \in Msg, Counted(m)
    PROVE  Counted(m)'
  <1>1. pc[p] \in Working /\ req[p] \in Msg  BY WorkerOwns DEF Working
  <1>0. UNCHANGED <<channel, owner, req>>  BY DEF StoreReply
  <1>2. StoresRow(req[p]) /\ (Handed(p) \/ UNCHANGED sends)
    BY DEF StoreReply, StoresRow
  <1>3. /\ IsFiniteSet(Outbound(m)')
        /\ Cardinality(Outbound(m)') = Cardinality(Outbound(m)) + (IF m = req[p] THEN 1 ELSE 0)
    <2>1. PICK n \in Msg : n = req[p]  BY <1>1
    <2>2. IsFiniteSet(Outbound(m))  BY DEF Counted
    <2>3. StoresRow(n)  BY <1>2, <2>1 DEF StoresRow, OutboundRow
    <2> QED  BY <2>1, <2>2, <2>3, OutboundGrows
  <1>4. Queued(m)' = Queued(m)  BY DEF Queued
  <1>5. /\ Cardinality(Outbound(m)) \in Nat /\ Cardinality(Queued(m)) \in Nat
        /\ Sent(m) \in Nat /\ Sent(m)' \in Nat /\ sends \in [Call -> Nat]
    <2>1. sends \in [Call -> Nat]  BY DEF OwnInv, TypeOK
    <2>2. IsFiniteSet(Outbound(m))  BY DEF Counted
    <2> QED  BY <2>1, <2>2, CountsAreNumbers, CountsStayNumbers
  <1>6. Cardinality(Outbound(m)) + Cardinality(Queued(m)) + Debt(m) <= Sent(m)
    BY DEF Counted, Debt
  <1>7. Debt(m) \in {0, 1} /\ Debt(m)' \in {0, 1}  BY DEF Debt
  <1>8. Cardinality(Outbound(m)') + Cardinality(Queued(m)') + Debt(m)' <= Sent(m)'
    <2>1. CASE m # req[p]
      <3>1. Debt(m)' = Debt(m) /\ Sent(m)' = Sent(m)  BY <1>0, <1>1, <1>2, <2>1, ActorCounts
      <3> QED  BY <1>3, <1>4, <1>5, <1>6, <1>7, <2>1, <3>1
    <2>2. CASE m = req[p] /\ ChannelOfCall(p) = "web"
      <3>1. Debt(m) = 0 /\ Debt(m)' = 0 /\ Sent(m) = sends[p] /\ Sent(m)' = sends'[p]
        BY <1>0, <1>1, <1>2, <2>2, ActorCounts
      <3>2. sends'[p] = sends[p] + 1  BY <1>5, <2>2 DEF StoreReply, Handed
      <3> QED  BY <1>3, <1>4, <1>5, <1>6, <2>2, <3>1, <3>2
    <2>3. CASE m = req[p] /\ ChannelOfCall(p) # "web"
      <3>1. Debt(m) = 1 /\ Debt(m)' = 0 /\ Sent(m) = sends[p] /\ Sent(m)' = sends'[p]
        BY <1>0, <1>1, <1>2, <2>3, ActorCounts
      <3>2. sends'[p] = sends[p]  BY <2>3 DEF StoreReply
      <3> QED  BY <1>3, <1>4, <1>5, <1>6, <2>3, <3>1, <3>2
    <2> QED  BY <2>1, <2>2, <2>3
  <1> QED  BY <1>3, <1>8 DEF Counted, Debt

LEMMA CountEnqueued ==
    ASSUME OwnInv, OwnInv', NEW p \in Call, Enqueue(p), NEW m \in Msg, Counted(m)
    PROVE  Counted(m)'
  <1>1. /\ pc[p] = "send" /\ pc[p] \in Working /\ Fits(p) /\ req[p] \in Msg
        /\ UNCHANGED <<channel, rows, owner, req>> /\ Handed(p)
        /\ queue' = Append(queue, req[p])
    BY BodyActor, Sending DEF Enqueue, tables, Working
  <1>2. pc'[p] = "record" => ChannelOfCall(p) = "web"
    BY <1>1, BodyActor DEF GoesOn, Tells, Takes, Skips, Ends, ProviderAccepts, Enqueue
  <1>3. Outbound(m)' = Outbound(m)  BY <1>1 DEF Outbound
  <1>4. Cardinality(Queued(m)') = Cardinality(Queued(m)) + (IF m = req[p] THEN 1 ELSE 0)
    BY <1>1, QueuedAppend
  <1>5. /\ Cardinality(Outbound(m)) \in Nat /\ Cardinality(Queued(m)) \in Nat
        /\ Sent(m) \in Nat /\ Sent(m)' \in Nat /\ sends \in [Call -> Nat]
    <2>1. sends \in [Call -> Nat]  BY DEF OwnInv, TypeOK
    <2>2. IsFiniteSet(Outbound(m))  BY DEF Counted
    <2> QED  BY <2>1, <2>2, CountsAreNumbers, CountsStayNumbers
  <1>6. Cardinality(Outbound(m)) + Cardinality(Queued(m)) + Debt(m) <= Sent(m)
    BY DEF Counted, Debt
  <1>7. Debt(m) \in {0, 1} /\ Debt(m)' \in {0, 1}  BY DEF Debt
  <1>8. Cardinality(Outbound(m)') + Cardinality(Queued(m)') + Debt(m)' <= Sent(m)'
    <2>1. CASE m # req[p]
      <3>1. Debt(m)' = Debt(m) /\ Sent(m)' = Sent(m)  BY <1>1, <2>1, ActorCounts
      <3> QED  BY <1>3, <1>4, <1>5, <1>6, <1>7, <2>1, <3>1
    <2>2. CASE m = req[p]
      <3>1. Debt(m) = 0 /\ Debt(m)' = 0 /\ Sent(m) = sends[p] /\ Sent(m)' = sends'[p]
        BY <1>1, <1>2, <2>2, ActorCounts
      <3>2. sends'[p] = sends[p] + 1  BY <1>1, <1>5 DEF Handed
      <3> QED  BY <1>3, <1>4, <1>5, <1>6, <2>2, <3>1, <3>2
    <2> QED  BY <2>1, <2>2
  <1> QED  BY <1>3, <1>8 DEF Counted, Debt

\* The send loop turns a job into a row, or drops it.
LEMMA CountDelivered ==
    ASSUME OwnInv, OwnInv', RowsDated, DeliverJob, NEW m \in Msg, Counted(m)
    PROVE  Counted(m)'
  <1>1. Head(queue) \in Msg /\ queue # <<>> /\ queue' = Tail(queue)
    BY DEF DeliverJob, OwnInv, TypeOK
  <1>2. Cardinality(Queued(m)') = Cardinality(Queued(m)) - (IF m = Head(queue) THEN 1 ELSE 0)
    BY <1>1, QueuedTail
  <1>3. /\ IsFiniteSet(Outbound(m)')
        /\ Cardinality(Outbound(m)') <= Cardinality(Outbound(m)) + (IF m = Head(queue) THEN 1 ELSE 0)
    <2>1. Cardinality(Outbound(m)) \in Nat  BY CountsAreNumbers DEF Counted
    <2>2. CASE UNCHANGED tables
      <3>1. Outbound(m)' = Outbound(m)  BY <2>2 DEF tables, Outbound
      <3> QED  BY <2>1, <3>1 DEF Counted
    <2>3. CASE StoresRow(Head(queue))
      <3>1. PICK n \in Msg : n = Head(queue)  BY <1>1
      <3>2. IsFiniteSet(Outbound(m))  BY DEF Counted
      <3>3. StoresRow(n)  BY <2>3, <3>1 DEF StoresRow, OutboundRow
      <3>4. /\ IsFiniteSet(Outbound(m)')
            /\ Cardinality(Outbound(m)') = Cardinality(Outbound(m)) + (IF m = n THEN 1 ELSE 0)
        BY <3>2, <3>3, OutboundGrows
      <3> QED  BY <2>1, <3>1, <3>4
    <2> QED  BY <2>2, <2>3 DEF DeliverJob, StoresRow
  <1>4. Debt(m)' = Debt(m) /\ Sent(m)' = Sent(m)
    BY DEF DeliverJob, Debt, Unrecorded, Sent, StoresRow, tables
  <1>5. /\ Cardinality(Outbound(m)) \in Nat /\ Cardinality(Queued(m)) \in Nat
        /\ Sent(m) \in Nat /\ Cardinality(Outbound(m)') \in Nat
        /\ Cardinality(Queued(m)') \in Nat
    <2>1. IsFiniteSet(Outbound(m))  BY DEF Counted
    <2>2. Cardinality(Outbound(m)') \in Nat  BY <1>3, FS_CardinalityType
    <2> QED  BY <2>1, <2>2, CountsAreNumbers, CountsStayNumbers
  <1>6. Cardinality(Outbound(m)) + Cardinality(Queued(m)) + Debt(m) <= Sent(m)
    BY DEF Counted, Debt
  <1>7. Debt(m) \in {0, 1}  BY DEF Debt
  <1>8. Cardinality(Outbound(m)') + Cardinality(Queued(m)') + Debt(m)' <= Sent(m)'
    BY <1>2, <1>3, <1>4, <1>5, <1>6, <1>7
  <1> QED  BY <1>3, <1>8 DEF Counted, Debt
\* A step that neither sends nor records leaves the count as it is.
LEMMA CountQuiet ==
    ASSUME OwnInv, OwnInv', UNCHANGED <<channel, owner, sends, queue>>,
           \A q \in Call : pc'[q] = "record" => pc[q] = "record",
           NEW m \in Msg, Outbound(m)' = Outbound(m), Counted(m)
    PROVE  Counted(m)'
  <1>1. Sent(m)' = Sent(m) /\ Sent(m) \in Nat
    <2>1. Sent(m)' = Sent(m)  BY DEF Sent
    <2> QED  BY <2>1, CountsAreNumbers
  <1>2. Unrecorded(m)' => Unrecorded(m)
    <2>1. owner[m] \in Call \cup {None}  BY DEF OwnInv, TypeOK
    <2> QED  BY <2>1 DEF Unrecorded
  <1>3. Debt(m)' <= Debt(m)  BY <1>2 DEF Debt
  <1>4. Debt(m) \in {0, 1} /\ Debt(m)' \in {0, 1}  BY DEF Debt
  <1>5. Debt(m)' + Sent(m) <= Debt(m) + Sent(m)'  BY <1>1, <1>3, <1>4
  <1> QED  BY <1>5, CountKept

\* StartAgentRun: a run is started by a call that has sent nothing.
LEMMA CountStarted ==
    ASSUME OwnInv, OwnInv', NEW p \in Call, StartRun(p), NEW m \in Msg, Counted(m)
    PROVE  Counted(m)'
  <1>1. Outbound(m)' = Outbound(m)  BY DEF StartRun, tables, Outbound
  <1>2. /\ queue' = queue /\ channel' = channel /\ sends' = sends
        /\ pc' = [pc EXCEPT ![p] = "list"] /\ owner' = [owner EXCEPT ![req[p]] = p]
        /\ req[p] \in Msg /\ run[req[p]] = "none"
    BY DEF StartRun, tables, NotStarted, OwnInv, Asked
  <1>3. /\ pc \in [Call -> PC] /\ owner \in [Msg -> Call \cup {None}]
        /\ sends \in [Call -> Nat] /\ p # None
    BY DEF OwnInv, TypeOK
  <1>4. Debt(m) \in {0, 1} /\ Debt(m)' \in {0, 1}  BY DEF Debt
  <1>5. Sent(m) \in Nat /\ Sent(m)' \in Nat  BY CountsAreNumbers, CountsStayNumbers
  <1>6. CASE m = req[p]
    <2>1. owner[m] = None  BY <1>2, <1>6 DEF OwnInv, OwnersAsked
    <2>2. Sent(m) = 0  BY <2>1 DEF Sent
    <2>3. Debt(m)' = 0  BY <1>2, <1>3, <1>6 DEF Debt, Unrecorded
    <2>4. Debt(m)' + Sent(m) <= Debt(m) + Sent(m)'  BY <1>4, <1>5, <2>2, <2>3
    <2> QED  BY <1>1, <1>2, <2>4, CountKept
  <1>7. CASE m # req[p]
    <2>1. owner'[m] = owner[m]  BY <1>2, <1>3, <1>7
    <2>2. Sent(m)' = Sent(m)  BY <1>2, <2>1 DEF Sent
    <2>3. Unrecorded(m)' => Unrecorded(m)  BY <1>2, <1>3, <2>1 DEF Unrecorded
    <2>4. Debt(m)' <= Debt(m)  BY <2>3 DEF Debt
    <2>5. Debt(m)' + Sent(m) <= Debt(m) + Sent(m)'  BY <1>4, <1>5, <2>2, <2>4
    <2> QED  BY <1>1, <1>2, <2>5, CountKept
  <1> QED  BY <1>6, <1>7

LEMMA CountedStep ==
    ASSUME OwnInv, OwnInv', RowsDated, [Next]_vars, NEW m \in Msg, Counted(m)
    PROVE  Counted(m)'
  <1>0. pc \in [Call -> PC]  BY DEF OwnInv, TypeOK
  <1>1. CASE UNCHANGED vars
    BY <1>1, CountQuiet DEF vars, Outbound
  <1>2. ASSUME NEW n \in Msg, Arrive(n) PROVE Counted(m)'
    BY <1>2, CountQuiet DEF Arrive, Outbound
  <1>3. ASSUME NEW n \in Msg, Commit(n) PROVE Counted(m)'
    <2>1. InboundRow(n).dir # "outbound"  BY DEF InboundRow
    <2>2. Outbound(m)' = Outbound(m)  BY <1>3, <2>1 DEF Commit, Outbound
    <2> QED  BY <1>3, <2>2, CountQuiet DEF Commit
  <1>4. ASSUME NEW p \in Call,
               \/ \E n \in Msg : Begin(p, n)
               \/ ContextDone(p) \/ Die(p) \/ LoseSession(p)
               \/ AcquireLock(p) \/ LockFails(p) \/ AlreadyStarted(p)
               \/ StartRunFails(p) \/ Finish(p) \/ Unlock(p)
        PROVE  Counted(m)'
    <2>1. /\ UNCHANGED <<channel, rows, owner, sends, queue>>
          /\ \A q \in Call : pc'[q] = "record" => pc[q] = "record"
      BY <1>0, <1>4 DEF Begin, ContextDone, Die, LoseSession, AcquireLock, LockFails,
                        AlreadyStarted, StartRunFails, Finish, Unlock, tables
    <2>2. Outbound(m)' = Outbound(m)  BY <2>1 DEF Outbound
    <2> QED  BY <2>1, <2>2, CountQuiet
  <1>5. ASSUME NEW p \in Call, StartRun(p) PROVE Counted(m)'
    BY <1>5, CountStarted
  <1>6. ASSUME NEW p \in Call,
               \/ ListMessages(p) \/ CallModel(p) \/ StepFails(p) \/ RunTool(p)
               \/ ProviderAccepts(p) \/ ProviderFails(p) \/ EnqueueFails(p)
               \/ NoRuntime(p) \/ Record(p) \/ RecordFails(p)
        PROVE  Counted(m)'
    <2>1. /\ GoesOn(p) \/ Tells(p) \/ Takes(p) \/ Skips(p)
          /\ pc[p] \in Working /\ Fits(p)
      BY <1>6, BodyActor
    <2>2. (pc'[p] = "record" => ChannelOfCall(p) = "web") \/ Takes(p)
      BY <1>0, <2>1 DEF GoesOn, Tells, Skips, Ends, CloseAs
    <2>3. CASE UNCHANGED tables
      <3>1. /\ UNCHANGED <<channel, rows, owner, req, queue>>
            /\ Handed(p) \/ UNCHANGED sends
        BY <1>6, <2>3
        DEF ListMessages, CallModel, StepFails, RunTool, ProviderAccepts,
            ProviderFails, EnqueueFails, NoRuntime, Record, RecordFails, StoreReply,
            tables
      <3> QED  BY <2>1, <2>2, <3>1, CountBody
    <2>4. CASE ~UNCHANGED tables
      <3>1. Record(p) \/ RecordFails(p)
        BY <1>6, <2>4 DEF ListMessages, CallModel, StepFails, RunTool,
                          ProviderAccepts, ProviderFails, EnqueueFails, NoRuntime
      <3>2. /\ StoreReply(p) /\ UNCHANGED <<owner, req, queue>> /\ pc[p] = "record"
        BY <2>4, <3>1 DEF Record, RecordFails, tables
      <3>3. pc'[p] = "record" => ChannelOfCall(p) = "web"
        BY <2>2, <3>2 DEF Takes, ProviderAccepts
      <3> QED  BY <2>1, <3>2, <3>3, CountRecorded
    <2> QED  BY <2>3, <2>4
  <1>7. ASSUME NEW p \in Call, Enqueue(p) PROVE Counted(m)'
    BY <1>7, CountEnqueued
  <1>8. CASE DeliverJob  BY <1>8, CountDelivered
  <1> QED  BY <1>1, <1>2, <1>3, <1>4, <1>5, <1>6, <1>7, <1>8 DEF Next, Step

-----------------------------------------------------------------------------
(* The invariant and what it says.                                         *)

LEMMA InitReply == Init => ReplyInv
  <1> SUFFICES ASSUME Init PROVE ReplyInv  OBVIOUS
  <1>1. RowsDated  BY DEF Init, RowsDated
  <1>2. SkipsExplained  BY DEF Init, SkipsExplained
  <1>3. RepliesStored  BY DEF Init, RepliesStored, NoLocals
  <1>4. RepliesCounted
    <2> SUFFICES ASSUME NEW m \in Msg PROVE Counted(m)
      BY DEF RepliesCounted, Counted
    <2>1. Outbound(m) = {} /\ Queued(m) = {} /\ Sent(m) = 0 /\ ~Unrecorded(m)
      BY DEF Init, Outbound, Queued, Sent, Unrecorded
    <2> QED  BY <2>1, FS_EmptySet DEF Counted
  <1> QED  BY <1>1, <1>2, <1>3, <1>4 DEF ReplyInv

LEMMA ReplyStep ==
    ASSUME OwnInv, OwnInv', ReplyInv, [Next]_vars
    PROVE  ReplyInv'
  <1>1. RepliesCounted'
    <2> SUFFICES ASSUME NEW m \in Msg PROVE Counted(m)'
      BY DEF RepliesCounted, Counted
    <2>1. Counted(m)  BY DEF ReplyInv, RepliesCounted, Counted
    <2> QED  BY <2>1, CountedStep DEF ReplyInv
  <1> QED
    BY <1>1, RowsDatedStep, SkipsStep, RepliesStoredStep DEF ReplyInv

\* Rows carry times that passed, a run is closed as skipped only when a newer
\* row stands, what counts as sent was recorded, and rows, jobs and the reply
\* being recorded never outnumber the replies handed over.
THEOREM ReplyInvariant == Spec => []ReplyInv
  <1>1. OwnInv /\ OwnInv' /\ ReplyInv /\ [Next]_vars => ReplyInv'  BY ReplyStep
  <1> QED  BY <1>1, InitReply, OwnInvariant, PTL DEF Spec

\* The transcript claims no more replies than the channel was given: no row
\* and no queued job without a reply that was handed over.
THEOREM OutboundBackedHolds == Spec => []OutboundBacked
  <1>1. OwnInv /\ ReplyInv => OutboundBacked
    <2> SUFFICES ASSUME OwnInv, ReplyInv, NEW m \in Msg
                 PROVE  Cardinality(Outbound(m)) + Cardinality(Queued(m)) <= Sent(m)
      BY DEF OutboundBacked
    <2>1. Counted(m)  BY DEF ReplyInv, RepliesCounted, Counted
    <2>2. IsFiniteSet(Outbound(m))  BY <2>1 DEF Counted
    <2>3. /\ Cardinality(Outbound(m)) \in Nat /\ Cardinality(Queued(m)) \in Nat
          /\ Sent(m) \in Nat
      BY <2>2, CountsAreNumbers
    <2>4. Debt(m) \in {0, 1}  BY DEF Debt
    <2>5. Cardinality(Outbound(m)) + Cardinality(Queued(m)) + Debt(m) <= Sent(m)
      BY <2>1 DEF Counted, Debt
    <2> QED  BY <2>3, <2>4, <2>5
  <1> QED  BY <1>1, OwnInvariant, ReplyInvariant, PTL

\* A message that is not refused for its body or sender is skipped only when
\* its conversation has a newer row, which eligibleInbound saw and nothing
\* deletes.
THEOREM SkipJustifiedHolds == Spec => []SkipJustified
  <1>1. ReplyInv => SkipJustified
    BY DEF ReplyInv, SkipsExplained, Superseded, SkipJustified
  <1> QED  BY <1>1, ReplyInvariant, PTL

\* Except on Discord, a reply the run counts as sent is in the transcript:
\* toolSend says "sent" or "stored" only after RecordOutbound committed.
THEOREM AckedReplyStoredHolds == Spec => []AckedReplyStored
  <1>1. ReplyInv => AckedReplyStored
    BY DEF ReplyInv, RepliesStored, AckedReplyStored
  <1> QED  BY <1>1, ReplyInvariant, PTL

\* The invariant of the agent, all parts of it: in every reachable state runs
\* have their owners, the transcript its replies, and loops their turns left.
THEOREM RunInvariant == Spec => []RunInv
  BY OwnInvariant, ReplyInvariant, TurnsFitHolds, PTL DEF RunInv
=============================================================================
