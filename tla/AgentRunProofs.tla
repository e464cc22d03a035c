--------------------------- MODULE AgentRunProofs ---------------------------
(* Proofs about AgentRun: the inductive invariant OwnInv, and what follows *)
(* from it for any number of conversations, messages and calls.            *)
EXTENDS AgentRun, TLAPS

USE ConstantsOK

\* A response of the model is a sequence of tools.
LEMMA ToolListsAreSeqs == ASSUME NEW calls \in ToolLists PROVE calls \in Seq(Tools)
  <1>1. PICK n \in 0..MaxTools : calls \in [1..n -> Tools]  BY DEF ToolLists
  <1> QED  BY <1>1

\* The local variables with one field changed are local variables.
LEMMA LocalsUpdate ==
    ASSUME NEW l \in Locals
    PROVE  /\ \A b \in BOOLEAN : [l EXCEPT !.replied = b] \in Locals
           /\ \A s \in {"nobody", "pong", "tool", "auto"} :
                [l EXCEPT !.sending = s] \in Locals
           /\ \A s \in Closed : [l EXCEPT !.fin = s] \in Locals
           /\ l.todo # <<>> =>
                [l EXCEPT !.todo = Tail(@), !.sending = "nobody"] \in Locals
  <1>1. l.todo # <<>> => Tail(l.todo) \in Seq(Tools)  BY DEF Locals
  <1> QED  BY <1>1 DEF Locals

\* What a step may leave behind when it ends with local variables l of call p.
Fits(p) ==
    /\ pc' = [pc EXCEPT ![p] = pc'[p]]
    /\ loc' = [loc EXCEPT ![p] = loc'[p]]
    /\ pc'[p] \in Working
    /\ loc'[p] \in Locals
    /\ pc'[p] = "tools" \/ (pc'[p] \in {"send", "record"} /\ loc'[p].sending = "tool")
         => loc'[p].todo # <<>>
    /\ pc'[p] = "finish" => loc'[p].fin \in Closed

\* Every way a step of the body can end fits.
LEMMA ProceedFits ==
    ASSUME TypeOK, NEW p \in Call, NEW l \in Locals,
           NEW place \in Working \ {"finish"}, Proceed(p, l, place),
           place = "tools" \/ (place \in {"send", "record"} /\ l.sending = "tool")
             => l.todo # <<>>
    PROVE  Fits(p)
  BY DEF TypeOK, Proceed, Fits, Working

LEMMA CloseFits ==
    ASSUME TypeOK, NEW p \in Call, NEW l \in Locals, NEW status \in Closed,
           CloseAs(p, l, status)
    PROVE  Fits(p)
  <1>1. [l EXCEPT !.fin = status] \in Locals  BY LocalsUpdate
  <1>2. [l EXCEPT !.fin = status].fin = status  BY DEF Locals
  <1> QED  BY <1>1, <1>2 DEF TypeOK, CloseAs, Fits, Working

LEMMA NextToolFits ==
    ASSUME TypeOK, NEW p \in Call, NEW l \in Locals, l.todo # <<>>,
           NextTool(p, l)
    PROVE  Fits(p)
  <1> DEFINE rest == [l EXCEPT !.todo = Tail(@), !.sending = "nobody"]
  <1>1. rest \in Locals  BY LocalsUpdate
  <1>2. rest.sending = "nobody"  BY DEF Locals
  <1>3. CASE rest.todo # <<>> /\ Proceed(p, rest, "tools")
    BY <1>1, <1>3, ProceedFits DEF Working
  <1>4. CASE Proceed(p, rest, "model")
    BY <1>1, <1>2, <1>4, ProceedFits DEF Working
  <1>5. CASE CloseAs(p, rest, "failed")
    BY <1>1, <1>5, CloseFits DEF Closed
  <1> QED  BY <1>3, <1>4, <1>5 DEF NextTool

LEMMA BeginSendFits ==
    ASSUME TypeOK, NEW p \in Call, NEW l \in Locals,
           NEW who \in {"pong", "tool", "auto"}, who = "tool" => l.todo # <<>>,
           BeginSend(p, l, who)
    PROVE  Fits(p)
  <1> DEFINE n == [l EXCEPT !.sending = who]
  <1>1. n \in Locals  BY LocalsUpdate
  <1>2. n.sending = who /\ n.todo = l.todo  BY DEF Locals
  <1>3. CASE Proceed(p, n, "record")
    BY <1>1, <1>2, <1>3, ProceedFits DEF Working
  <1>4. CASE Proceed(p, n, "send")
    BY <1>1, <1>2, <1>4, ProceedFits DEF Working
  <1> QED  BY <1>3, <1>4 DEF BeginSend

LEMMA SendOkFits ==
    ASSUME TypeOK, NEW p \in Call, NEW l \in Locals,
           l.sending = "tool" => l.todo # <<>>, SendOk(p, l)
    PROVE  Fits(p)
  <1> DEFINE told == [l EXCEPT !.replied = TRUE]
  <1>1. told \in Locals  BY LocalsUpdate
  <1>2. told.todo = l.todo  BY DEF Locals
  <1>3. CASE CloseAs(p, told, "completed")
    BY <1>1, <1>3, CloseFits DEF Closed
  <1>4. CASE l.sending = "tool" /\ NextTool(p, told)
    BY <1>1, <1>2, <1>4, NextToolFits
  <1> QED  BY <1>3, <1>4 DEF SendOk

LEMMA SendFailedFits ==
    ASSUME TypeOK, NEW p \in Call, NEW l \in Locals, NEW unavailable \in BOOLEAN,
           l.sending = "tool" => l.todo # <<>>, SendFailed(p, l, unavailable)
    PROVE  Fits(p)
  <1>1. CASE Proceed(p, [l EXCEPT !.sending = "nobody"], "model")
    BY <1>1, LocalsUpdate, ProceedFits DEF Working
  <1>2. CASE l.sending = "tool" /\ NextTool(p, l)
    BY <1>2, NextToolFits
  <1>3. CASE CloseAs(p, l, "completed")
    BY <1>3, CloseFits DEF Closed
  <1>4. CASE CloseAs(p, l, "failed")
    BY <1>4, CloseFits DEF Closed
  <1> QED  BY <1>1, <1>2, <1>3, <1>4 DEF SendFailed

-----------------------------------------------------------------------------
(* The inductive invariant.                                                *)

LEMMA InitInv == Init => OwnInv
  <1> SUFFICES ASSUME Init PROVE OwnInv  OBVIOUS
  <1>1. NoLocals \in Locals  BY DEF NoLocals, Locals
  <1>2. TypeOK  BY <1>1 DEF Init, TypeOK, RunStatus, PC, Locked
  <1> QED
    BY <1>2 DEF Init, OwnInv, Asked, WorkersOwn, OwnersAsked, SendersOwn,
                LocalsFit, Working

\* A row that StoreReply or DeliverJob adds is a row.
LEMMA OutboundRowOK ==
    ASSUME TypeOK, NEW m \in Msg
    PROVE  rows \cup {OutboundRow(m)} \subseteq Row /\ now + 1 \in Nat
  BY DEF TypeOK, OutboundRow, Row

\* A step of the body of ProcessSync: only the place and the locals of p
\* change, and perhaps a reply is handed over, a row or a job added.
LEMMA BodyStep ==
    ASSUME OwnInv, NEW p \in Call, pc[p] \in Working, Fits(p),
           UNCHANGED <<channel, stamp, run, owner, lock, req, ctxDone>>,
           Handed(p) \/ UNCHANGED sends,
           rows' \subseteq Row, now' \in Nat, queue' \in Seq(Msg)
    PROVE  OwnInv'
  <1>1. TypeOK'
    <2>1. pc' \in [Call -> PC]  BY DEF OwnInv, TypeOK, Fits, PC, Locked
    <2>2. loc' \in [Call -> Locals]  BY DEF OwnInv, TypeOK, Fits
    <2>3. sends' \in [Call -> Nat]
      <3>1. sends \in [Call -> Nat] /\ sends[p] + 1 \in Nat
        BY DEF OwnInv, TypeOK
      <3> QED  BY <3>1 DEF Handed
    <2> QED  BY <2>1, <2>2, <2>3 DEF OwnInv, TypeOK
  <1>2. Asked'  BY DEF OwnInv, TypeOK, Asked, Fits, Working
  <1>3. WorkersOwn'  BY DEF OwnInv, TypeOK, WorkersOwn, Fits
  <1>4. OwnersAsked'  BY DEF OwnInv, OwnersAsked
  <1>5. SendersOwn'
    BY DEF OwnInv, TypeOK, Asked, WorkersOwn, SendersOwn, Handed, Working
  <1>6. LocalsFit'  BY DEF OwnInv, TypeOK, LocalsFit, Fits
  <1> QED  BY <1>1, <1>2, <1>3, <1>4, <1>5, <1>6 DEF OwnInv

LEMMA ListMessagesInv ==
    ASSUME OwnInv, NEW p \in Call, ListMessages(p) PROVE OwnInv'
  <1>1. pc[p] \in Working /\ loc[p] \in Locals
    BY DEF ListMessages, Working, OwnInv, TypeOK
  <1>2. CASE CloseAs(p, loc[p], "skipped")
    <2>1. Fits(p)  BY <1>1, <1>2, CloseFits DEF OwnInv, Closed
    <2> QED  BY <1>1, <2>1, BodyStep DEF ListMessages, OwnInv, TypeOK, tables
  <1>3. CASE BeginSend(p, loc[p], "pong")
    <2>1. Fits(p)  BY <1>1, <1>3, BeginSendFits DEF OwnInv
    <2> QED  BY <1>1, <2>1, BodyStep DEF ListMessages, OwnInv, TypeOK, tables
  <1>4. CASE Proceed(p, loc[p], "model")
    <2>1. Fits(p)  BY <1>1, <1>4, ProceedFits DEF OwnInv, Working
    <2> QED  BY <1>1, <2>1, BodyStep DEF ListMessages, OwnInv, TypeOK, tables
  <1> QED  BY <1>2, <1>3, <1>4 DEF ListMessages

LEMMA CallModelInv ==
    ASSUME OwnInv, NEW p \in Call, CallModel(p) PROVE OwnInv'
  <1>1. pc[p] \in Working /\ loc[p] \in Locals
    BY DEF CallModel, Working, OwnInv, TypeOK
  <1>2. PICK hasText \in BOOLEAN, calls \in ToolLists :
          LET l == [loc[p] EXCEPT !.step = @ + 1, !.todo = calls,
                                  !.text = @ \/ hasText] IN
          \/ calls # <<>> /\ Proceed(p, l, "tools")
          \/ calls = <<>> /\ BeginSend(p, l, "auto")
          \/ CloseAs(p, l, "completed")
    BY DEF CallModel
  <1> DEFINE l == [loc[p] EXCEPT !.step = @ + 1, !.todo = calls,
                                 !.text = @ \/ hasText]
  <1>3. calls \in Seq(Tools)  BY ToolListsAreSeqs
  <1>4. l \in Locals /\ l.todo = calls
    <2>1. loc[p].step + 1 \in Nat  BY <1>1 DEF Locals
    <2>2. (loc[p].text \/ hasText) \in BOOLEAN  OBVIOUS
    <2> QED  BY <1>1, <1>3, <2>1, <2>2 DEF Locals
  <1>5. \/ calls # <<>> /\ Proceed(p, l, "tools")
        \/ calls = <<>> /\ BeginSend(p, l, "auto")
        \/ CloseAs(p, l, "completed")
    BY <1>2
  <1> HIDE DEF l
  <1>6. Fits(p)
    <2>1. CASE calls # <<>> /\ Proceed(p, l, "tools")
      BY <1>4, <2>1, ProceedFits DEF OwnInv, Working
    <2>2. CASE BeginSend(p, l, "auto")
      BY <1>4, <2>2, BeginSendFits DEF OwnInv
    <2>3. CASE CloseAs(p, l, "completed")
      BY <1>4, <2>3, CloseFits DEF OwnInv, Closed
    <2> QED  BY <1>5, <2>1, <2>2, <2>3
  <1> QED  BY <1>1, <1>6, BodyStep DEF CallModel, OwnInv, TypeOK, tables

LEMMA StepFailsInv ==
    ASSUME OwnInv, NEW p \in Call, StepFails(p) PROVE OwnInv'
  <1>1. pc[p] \in Working /\ loc[p] \in Locals
    BY DEF StepFails, Working, OwnInv, TypeOK
  <1>2. Fits(p)  BY <1>1, CloseFits DEF StepFails, OwnInv, Closed
  <1> QED  BY <1>1, <1>2, BodyStep DEF StepFails, OwnInv, TypeOK, tables

LEMMA RunToolInv ==
    ASSUME OwnInv, NEW p \in Call, RunTool(p) PROVE OwnInv'
  <1>1. /\ pc[p] \in Working /\ loc[p] \in Locals
        /\ loc[p].todo # <<>>
    BY DEF RunTool, Working, OwnInv, TypeOK, LocalsFit
  <1>2. Fits(p)
    <2>1. CASE BeginSend(p, loc[p], "tool")
      BY <1>1, <2>1, BeginSendFits DEF OwnInv
    <2>2. CASE NextTool(p, loc[p])
      BY <1>1, <2>2, NextToolFits DEF OwnInv
    <2>3. CASE CloseAs(p, loc[p], "failed")
      BY <1>1, <2>3, CloseFits DEF OwnInv, Closed
    <2> QED  BY <2>1, <2>2, <2>3 DEF RunTool
  <1> QED  BY <1>1, <1>2, BodyStep DEF RunTool, OwnInv, TypeOK, tables

\* In toolSend a tool that sends is still the first of the list.
LEMMA Sending ==
    ASSUME OwnInv, NEW p \in Call, pc[p] \in {"send", "record"}
    PROVE  /\ pc[p] \in Working /\ loc[p] \in Locals /\ req[p] \in Msg
           /\ loc[p].sending = "tool" => loc[p].todo # <<>>
  BY DEF Working, OwnInv, TypeOK, LocalsFit, Asked

LEMMA ProviderAcceptsInv ==
    ASSUME OwnInv, NEW p \in Call, ProviderAccepts(p) PROVE OwnInv'
  <1>1. pc[p] \in {"send", "record"}  BY DEF ProviderAccepts
  <1>2. Fits(p)
    BY <1>1, Sending, ProceedFits DEF ProviderAccepts, OwnInv, Working
  <1> QED
    BY <1>1, <1>2, Sending, BodyStep DEF ProviderAccepts, OwnInv, TypeOK, tables

LEMMA ProviderFailsInv ==
    ASSUME OwnInv, NEW p \in Call, ProviderFails(p) PROVE OwnInv'
  <1>1. pc[p] \in {"send", "record"}  BY DEF ProviderFails
  <1>2. Fits(p)  BY <1>1, Sending, SendFailedFits DEF ProviderFails, OwnInv
  <1> QED
    BY <1>1, <1>2, Sending, BodyStep DEF ProviderFails, OwnInv, TypeOK, tables

LEMMA EnqueueInv ==
    ASSUME OwnInv, NEW p \in Call, Enqueue(p) PROVE OwnInv'
  <1>1. pc[p] \in {"send", "record"}  BY DEF Enqueue
  <1>2. Fits(p)  BY <1>1, Sending, SendOkFits DEF Enqueue, OwnInv
  <1>3. queue' \in Seq(Msg)  BY <1>1, Sending DEF Enqueue, OwnInv, TypeOK
  <1> QED
    BY <1>1, <1>2, <1>3, Sending, BodyStep DEF Enqueue, OwnInv, TypeOK, tables

LEMMA EnqueueFailsInv ==
    ASSUME OwnInv, NEW p \in Call, EnqueueFails(p) \/ NoRuntime(p) PROVE OwnInv'
  <1>1. pc[p] \in {"send", "record"}  BY DEF EnqueueFails, NoRuntime
  <1>2. Fits(p)
    BY <1>1, Sending, SendFailedFits DEF EnqueueFails, NoRuntime, OwnInv
  <1> QED
    BY <1>1, <1>2, Sending, BodyStep
    DEF EnqueueFails, NoRuntime, OwnInv, TypeOK, tables

LEMMA RecordInv ==
    ASSUME OwnInv, NEW p \in Call, Record(p) PROVE OwnInv'
  <1>1. pc[p] \in {"send", "record"}  BY DEF Record
  <1>2. Fits(p)  BY <1>1, Sending, SendOkFits DEF Record, OwnInv
  <1>3. rows' \subseteq Row /\ now' \in Nat
    BY <1>1, Sending, OutboundRowOK DEF Record, StoreReply, OwnInv
  <1> QED
    BY <1>1, <1>2, <1>3, Sending, BodyStep
    DEF Record, StoreReply, OwnInv, TypeOK

LEMMA RecordFailsInv ==
    ASSUME OwnInv, NEW p \in Call, RecordFails(p) PROVE OwnInv'
  <1>1. pc[p] \in {"send", "record"}  BY DEF RecordFails
  <1>2. Fits(p)  BY <1>1, Sending, SendFailedFits DEF RecordFails, OwnInv
  <1>3. rows' \subseteq Row /\ now' \in Nat /\ UNCHANGED <<channel, stamp>>
    BY <1>1, Sending, OutboundRowOK
    DEF RecordFails, StoreReply, OwnInv, TypeOK, tables
  <1>4. Handed(p) \/ UNCHANGED sends
    BY DEF RecordFails, StoreReply
  <1> QED
    BY <1>1, <1>2, <1>3, <1>4, Sending, BodyStep
    DEF RecordFails, OwnInv, TypeOK

-----------------------------------------------------------------------------
(* The steps outside the body.                                             *)

LEMMA ArriveInv == ASSUME OwnInv, NEW m \in Msg, Arrive(m) PROVE OwnInv'
  <1>1. TypeOK'  BY DEF OwnInv, TypeOK, Arrive
  <1> QED
    BY <1>1 DEF OwnInv, Arrive, Asked, WorkersOwn, OwnersAsked, SendersOwn,
                LocalsFit

LEMMA CommitInv == ASSUME OwnInv, NEW m \in Msg, Commit(m) PROVE OwnInv'
  <1>1. InboundRow(m) \in Row  BY DEF OwnInv, TypeOK, InboundRow, Row
  <1>2. TypeOK'  BY <1>1 DEF OwnInv, TypeOK, Commit
  <1> QED
    BY <1>2 DEF OwnInv, Commit, Asked, WorkersOwn, OwnersAsked, SendersOwn,
                LocalsFit

\* An idle call has no message yet, so it owns nothing and sent nothing.
LEMMA BeginInv ==
    ASSUME OwnInv, NEW p \in Call, NEW m \in Msg, Begin(p, m) PROVE OwnInv'
  <1>1. TypeOK'  BY DEF OwnInv, TypeOK, Begin, tables, PC, Locked
  <1>2. Asked' /\ WorkersOwn' /\ LocalsFit'
    BY DEF OwnInv, TypeOK, Begin, Asked, WorkersOwn, LocalsFit, Working
  <1>3. OwnersAsked' /\ SendersOwn'
    BY DEF OwnInv, TypeOK, Begin, Asked, OwnersAsked, SendersOwn
  <1> QED  BY <1>1, <1>2, <1>3 DEF OwnInv

LEMMA ContextDoneInv == ASSUME OwnInv, NEW p \in Call, ContextDone(p) PROVE OwnInv'
  <1>1. TypeOK'  BY DEF OwnInv, TypeOK, ContextDone, tables
  <1> QED
    BY <1>1 DEF OwnInv, ContextDone, Asked, WorkersOwn, OwnersAsked, SendersOwn,
                LocalsFit

\* Steps of call p that keep it out of the body.
LEMMA OutsideStep ==
    ASSUME OwnInv, NEW p \in Call, pc[p] # "idle", NEW place \in PC \ (Working \cup {"idle"}),
           pc' = [pc EXCEPT ![p] = place],
           UNCHANGED <<tables, run, owner, req, ctxDone, loc, sends, queue>>,
           lock' \in [Conv -> Call \cup {None}]
    PROVE  OwnInv'
  <1>1. TypeOK'  BY DEF OwnInv, TypeOK, tables
  <1>2. Asked' /\ WorkersOwn' /\ LocalsFit'
    BY DEF OwnInv, TypeOK, Asked, WorkersOwn, LocalsFit, Working
  <1>3. OwnersAsked' /\ SendersOwn'  BY DEF OwnInv, OwnersAsked, SendersOwn
  <1> QED  BY <1>1, <1>2, <1>3 DEF OwnInv

LEMMA Released ==
    ASSUME TypeOK, NEW p \in Call, ReleaseLock(p)
    PROVE  lock' \in [Conv -> Call \cup {None}]
  BY DEF TypeOK, ReleaseLock

LEMMA LockStepsInv ==
    ASSUME OwnInv, NEW p \in Call,
           AcquireLock(p) \/ LockFails(p) \/ AlreadyStarted(p) \/ Unlock(p) \/ Die(p)
    PROVE  OwnInv'
  <1>1. CASE AcquireLock(p)
    BY <1>1, OutsideStep
    DEF AcquireLock, OwnInv, TypeOK, tables, PC, Locked, Working
  <1>2. CASE LockFails(p)
    BY <1>2, OutsideStep
    DEF LockFails, OwnInv, TypeOK, tables, PC, Locked, Working
  <1>3. CASE AlreadyStarted(p)
    BY <1>3, OutsideStep
    DEF AlreadyStarted, OwnInv, TypeOK, tables, PC, Locked, Working
  <1>4. CASE Unlock(p)
    BY <1>4, Released, OutsideStep
    DEF Unlock, OwnInv, TypeOK, tables, PC, Locked, Working
  <1>5. CASE Die(p)
    BY <1>5, Released, OutsideStep
    DEF Die, OwnInv, TypeOK, tables, PC, Locked, Working
  <1> QED  BY <1>1, <1>2, <1>3, <1>4, <1>5

LEMMA LoseSessionInv ==
    ASSUME OwnInv, NEW p \in Call, LoseSession(p) PROVE OwnInv'
  <1>1. TypeOK'  BY Released DEF OwnInv, TypeOK, LoseSession, tables
  <1> QED
    BY <1>1 DEF OwnInv, LoseSession, tables, Asked, WorkersOwn, OwnersAsked,
                SendersOwn, LocalsFit

\* The call that inserts the row owns the run: no one did before.
LEMMA StartRunInv == ASSUME OwnInv, NEW p \in Call, StartRun(p) PROVE OwnInv'
  <1>1. req[p] \in Msg /\ run[req[p]] = "none"
    BY DEF StartRun, NotStarted, OwnInv, TypeOK, Asked
  <1>2. TypeOK'
    BY <1>1 DEF StartRun, OwnInv, TypeOK, tables, RunStatus, PC, Locked, Working
  <1>3. owner[req[p]] = None  BY <1>1 DEF OwnInv, OwnersAsked
  <1>4. Asked' /\ LocalsFit'
    BY <1>1 DEF StartRun, OwnInv, TypeOK, Asked, LocalsFit
  <1>5. WorkersOwn'
    <2> SUFFICES ASSUME NEW q \in Call, pc'[q] \in Working
                 PROVE  owner'[req'[q]] = q /\ run'[req'[q]] = "running"
      BY DEF WorkersOwn
    <2>1. CASE q = p  BY <1>1, <2>1 DEF StartRun, OwnInv, TypeOK
    <2>2. CASE q # p
      <3>1. owner[req[q]] = q /\ run[req[q]] = "running"
        BY <2>2 DEF StartRun, OwnInv, TypeOK, WorkersOwn
      <3>2. req[q] # req[p]  BY <1>1, <3>1
      <3> QED  BY <3>1, <3>2, <1>1 DEF StartRun, OwnInv, TypeOK
    <2> QED  BY <2>1, <2>2
  <1>6. OwnersAsked'
    BY <1>1 DEF StartRun, OwnInv, TypeOK, OwnersAsked
  <1>7. SendersOwn'
    BY <1>1, <1>3 DEF StartRun, OwnInv, TypeOK, SendersOwn
  <1> QED  BY <1>2, <1>4, <1>5, <1>6, <1>7 DEF OwnInv

LEMMA StartRunFailsInv ==
    ASSUME OwnInv, NEW p \in Call, StartRunFails(p) PROVE OwnInv'
  <1>1. CASE UNCHANGED run
    BY <1>1, OutsideStep
    DEF StartRunFails, OwnInv, TypeOK, tables, PC, Locked, Working
  <1>2. CASE NotStarted(req[p]) /\ run' = [run EXCEPT ![req[p]] = "running"]
    <2>1. req[p] \in Msg  BY DEF StartRunFails, OwnInv, Asked
    <2>2. TypeOK'
      BY <1>2 DEF StartRunFails, OwnInv, TypeOK, tables, RunStatus, PC, Locked
    <2>3. Asked' /\ WorkersOwn' /\ LocalsFit'
      BY <1>2, <2>1
      DEF StartRunFails, OwnInv, TypeOK, Asked, WorkersOwn, LocalsFit, Working
    <2>4. OwnersAsked' /\ SendersOwn'
      BY <1>2, <2>1 DEF StartRunFails, OwnInv, TypeOK, OwnersAsked, SendersOwn
    <2> QED  BY <2>2, <2>3, <2>4 DEF OwnInv
  <1> QED  BY <1>1, <1>2 DEF StartRunFails

\* The call that closes a run owns it, so no other call works on it.
LEMMA FinishInv == ASSUME OwnInv, NEW p \in Call, Finish(p) PROVE OwnInv'
  <1>1. CASE UNCHANGED run
    BY <1>1, OutsideStep
    DEF Finish, OwnInv, TypeOK, tables, PC, Locked, Working
  <1>2. CASE run' = [run EXCEPT ![req[p]] = loc[p].fin]
    <2>1. /\ req[p] \in Msg /\ owner[req[p]] = p /\ loc[p].fin \in Closed
      BY DEF Finish, OwnInv, Asked, WorkersOwn, LocalsFit, Working
    <2>2. TypeOK'
      BY <1>2, <2>1 DEF Finish, OwnInv, TypeOK, tables, RunStatus, PC, Locked
    <2>3. Asked' /\ LocalsFit'
      BY DEF Finish, OwnInv, TypeOK, Asked, LocalsFit
    <2>4. WorkersOwn'
      BY <1>2, <2>1 DEF Finish, OwnInv, TypeOK, WorkersOwn, Working
    <2>5. OwnersAsked' /\ SendersOwn'
      BY <1>2, <2>1 DEF Finish, OwnInv, TypeOK, OwnersAsked, SendersOwn, Closed
    <2> QED  BY <2>2, <2>3, <2>4, <2>5 DEF OwnInv
  <1> QED  BY <1>1, <1>2 DEF Finish

LEMMA DeliverJobInv == ASSUME OwnInv, DeliverJob PROVE OwnInv'
  <1>1. Head(queue) \in Msg /\ Tail(queue) \in Seq(Msg)
    BY DEF DeliverJob, OwnInv, TypeOK
  <1>2. rows' \subseteq Row /\ now' \in Nat /\ UNCHANGED <<channel, stamp>>
    BY <1>1, OutboundRowOK DEF DeliverJob, OwnInv, TypeOK, tables
  <1>3. TypeOK'  BY <1>1, <1>2 DEF DeliverJob, OwnInv, TypeOK
  <1> QED
    BY <1>3 DEF OwnInv, DeliverJob, Asked, WorkersOwn, OwnersAsked, SendersOwn,
                LocalsFit

-----------------------------------------------------------------------------
(* The theorems.                                                           *)

\* OwnInv is preserved by every step.
LEMMA NextInv == OwnInv /\ [Next]_vars => OwnInv'
  <1> SUFFICES ASSUME OwnInv, [Next]_vars PROVE OwnInv'  OBVIOUS
  <1>1. CASE UNCHANGED vars
    BY <1>1 DEF vars, OwnInv, TypeOK, Asked, WorkersOwn, OwnersAsked,
                SendersOwn, LocalsFit
  <1>2. ASSUME NEW m \in Msg, Arrive(m) \/ Commit(m) PROVE OwnInv'
    BY <1>2, ArriveInv, CommitInv
  <1>3. ASSUME NEW p \in Call, NEW m \in Msg, Begin(p, m) PROVE OwnInv'
    BY <1>3, BeginInv
  <1>4. ASSUME NEW p \in Call,
               \/ ContextDone(p) \/ Die(p) \/ LoseSession(p)
               \/ LockFails(p) \/ NoRuntime(p)
        PROVE  OwnInv'
    BY <1>4, ContextDoneInv, LockStepsInv, LoseSessionInv, EnqueueFailsInv
  <1>5. ASSUME NEW p \in Call, Step(p) PROVE OwnInv'
    BY <1>5, LockStepsInv, StartRunInv, StartRunFailsInv, ListMessagesInv,
       CallModelInv, StepFailsInv, RunToolInv, ProviderAcceptsInv,
       ProviderFailsInv, EnqueueInv, EnqueueFailsInv, RecordInv,
       RecordFailsInv, FinishInv
    DEF Step
  <1>6. CASE DeliverJob  BY <1>6, DeliverJobInv
  <1> QED  BY <1>1, <1>2, <1>3, <1>4, <1>5, <1>6 DEF Next

\* In every reachable state every variable has its type, and each run is
\* worked on only by the call that StartAgentRun told it started it.
THEOREM OwnInvariant == Spec => []OwnInv
  <1>1. Init => OwnInv  BY InitInv
  <1>2. OwnInv /\ [Next]_vars => OwnInv'  BY NextInv
  <1> QED  BY <1>1, <1>2, PTL DEF Spec

\* One inbound message is never answered by two calls: the unique index on
\* agent_runs.inbound_message_id is enough, whatever happens to the lock.
THEOREM SingleSenderHolds == Spec => []SingleSender
  <1>1. OwnInv => SingleSender  BY DEF OwnInv, SendersOwn, SingleSender
  <1> QED  BY <1>1, OwnInvariant, PTL

-----------------------------------------------------------------------------
(* AgentRun implements RunLedger.                                          *)


\* A step, seen from the ledger, is one of four things or nothing.
Answers(p) ==
    /\ req[p] \in Msg /\ owner[req[p]] = p /\ run[req[p]] = "running"
    /\ Handed(p)
    /\ UNCHANGED <<run, owner>>
Starts(p) ==
    /\ req[p] \in Msg /\ run[req[p]] = "none" /\ owner[req[p]] = None
    /\ sends[p] = 0
    /\ run' = [run EXCEPT ![req[p]] = "running"]
    /\ owner' = [owner EXCEPT ![req[p]] = p]
    /\ UNCHANGED sends
Orphans(p) ==
    /\ req[p] \in Msg /\ run[req[p]] = "none"
    /\ run' = [run EXCEPT ![req[p]] = "running"]
    /\ UNCHANGED <<owner, sends>>
Closes(p) ==
    /\ req[p] \in Msg /\ owner[req[p]] = p /\ run[req[p]] = "running"
    /\ loc[p].fin \in Closed
    /\ run' = [run EXCEPT ![req[p]] = loc[p].fin]
    /\ UNCHANGED <<owner, sends>>

LEMMA WorkerOwns ==
    ASSUME OwnInv, NEW p \in Call, pc[p] \in Working
    PROVE  req[p] \in Msg /\ owner[req[p]] = p /\ run[req[p]] = "running"
  BY DEF OwnInv, Asked, WorkersOwn, Working

LEMMA SendSteps ==
    ASSUME OwnInv, NEW p \in Call,
           ProviderAccepts(p) \/ ProviderFails(p) \/ Enqueue(p) \/ EnqueueFails(p)
             \/ NoRuntime(p) \/ Record(p) \/ RecordFails(p)
    PROVE  Answers(p) \/ UNCHANGED <<run, owner, sends>>
  <1>1. pc[p] \in Working
    BY DEF ProviderAccepts, ProviderFails, Enqueue, EnqueueFails, NoRuntime,
           Record, RecordFails, Working
  <1>2. UNCHANGED <<run, owner>>
    BY DEF ProviderAccepts, ProviderFails, Enqueue, EnqueueFails, NoRuntime,
           Record, RecordFails
  <1>3. Handed(p) \/ UNCHANGED sends
    BY DEF ProviderAccepts, ProviderFails, Enqueue, EnqueueFails, NoRuntime,
           Record, RecordFails, StoreReply
  <1> QED  BY <1>1, <1>2, <1>3, WorkerOwns DEF Answers

LEMMA RunSteps ==
    ASSUME OwnInv, NEW p \in Call, StartRun(p) \/ StartRunFails(p) \/ Finish(p)
    PROVE  Starts(p) \/ Orphans(p) \/ Closes(p) \/ UNCHANGED <<run, owner, sends>>
  <1>1. CASE StartRun(p)
    <2>1. req[p] \in Msg /\ run[req[p]] = "none"
      BY <1>1 DEF StartRun, NotStarted, OwnInv, Asked
    <2>2. owner[req[p]] = None  BY <2>1 DEF OwnInv, OwnersAsked
    <2>3. p # None  BY DEF ConstantsOK
    <2>4. ~ (sends[p] > 0)  BY <2>2, <2>3 DEF OwnInv, SendersOwn
    <2>5. sends[p] = 0  BY <2>4 DEF OwnInv, TypeOK
    <2> QED  BY <1>1, <2>1, <2>2, <2>5 DEF StartRun, Starts
  <1>2. CASE StartRunFails(p)
    <2>1. req[p] \in Msg  BY <1>2 DEF StartRunFails, OwnInv, Asked
    <2> QED  BY <1>2, <2>1 DEF StartRunFails, NotStarted, Orphans
  <1>3. CASE Finish(p)
    <2>1. pc[p] \in Working /\ loc[p].fin \in Closed
      BY <1>3 DEF Finish, Working, OwnInv, LocalsFit
    <2> QED  BY <1>3, <2>1, WorkerOwns DEF Finish, Closes
  <1> QED  BY <1>1, <1>2, <1>3

LEMMA StepSeen ==
    ASSUME OwnInv, [Next]_vars
    PROVE  \/ \E p \in Call : Answers(p) \/ Starts(p) \/ Orphans(p) \/ Closes(p)
           \/ UNCHANGED <<run, owner, sends>>
  <1>1. CASE UNCHANGED vars  BY <1>1 DEF vars
  <1>2. ASSUME NEW m \in Msg, Arrive(m) \/ Commit(m)
        PROVE  UNCHANGED <<run, owner, sends>>
    BY <1>2 DEF Arrive, Commit
  <1>3. ASSUME NEW p \in Call, NEW m \in Msg, Begin(p, m)
        PROVE  UNCHANGED <<run, owner, sends>>
    BY <1>3 DEF Begin
  <1>4. ASSUME NEW p \in Call, ContextDone(p) \/ Die(p) \/ LoseSession(p)
        PROVE  UNCHANGED <<run, owner, sends>>
    BY <1>4 DEF ContextDone, Die, LoseSession
  <1>5. ASSUME NEW p \in Call, Step(p) \/ LockFails(p) \/ NoRuntime(p)
        PROVE  \/ Answers(p) \/ Starts(p) \/ Orphans(p) \/ Closes(p)
               \/ UNCHANGED <<run, owner, sends>>
    <2>1. CASE AcquireLock(p) \/ LockFails(p) \/ AlreadyStarted(p) \/ Unlock(p)
      BY <2>1 DEF AcquireLock, LockFails, AlreadyStarted, Unlock
    <2>2. CASE ListMessages(p) \/ CallModel(p) \/ StepFails(p) \/ RunTool(p)
      BY <2>2 DEF ListMessages, CallModel, StepFails, RunTool
    <2> QED  BY <1>5, <2>1, <2>2, SendSteps, RunSteps DEF Step
  <1>6. CASE DeliverJob  BY <1>6 DEF DeliverJob
  <1> QED  BY <1>1, <1>2, <1>3, <1>4, <1>5, <1>6 DEF Next

\* How the replies of a message move with such a step.
LEMMA SentSame ==
    ASSUME UNCHANGED <<owner, sends>>
    PROVE  [m \in Msg |-> Sent(m)]' = [m \in Msg |-> Sent(m)]
  BY DEF Sent

LEMMA SentAnswered ==
    ASSUME OwnInv, NEW p \in Call, Answers(p)
    PROVE  [m \in Msg |-> Sent(m)]' =
             [[m \in Msg |-> Sent(m)] EXCEPT ![req[p]] = @ + 1]
  <1>1. ASSUME NEW m \in Msg
        PROVE  Sent(m)' = IF m = req[p] THEN Sent(m) + 1 ELSE Sent(m)
    <2>1. CASE m = req[p]
      BY <2>1 DEF Answers, Handed, Sent, OwnInv, TypeOK
    <2>2. CASE m # req[p]
      <3>1. owner[m] # p  BY <2>2 DEF OwnInv, OwnersAsked
      <3>2. owner[m] = None \/ owner[m] \in Call  BY DEF OwnInv, TypeOK
      <3> QED  BY <2>2, <3>1, <3>2 DEF Answers, Handed, Sent, OwnInv, TypeOK
    <2> QED  BY <2>1, <2>2
  <1> QED  BY <1>1

LEMMA SentStarted ==
    ASSUME OwnInv, NEW p \in Call, Starts(p)
    PROVE  [m \in Msg |-> Sent(m)]' = [m \in Msg |-> Sent(m)]
  <1>1. ASSUME NEW m \in Msg PROVE Sent(m)' = Sent(m)
    BY DEF Starts, Sent, OwnInv, TypeOK
  <1> QED  BY <1>1

\* Every step of the agent is a step of the ledger, or leaves it alone.
LEMMA LedgerStep ==
    ASSUME OwnInv, [Next]_vars
    PROVE  [Ledger!LedgerNext]_(Ledger!ledgerVars)
  <1> DEFINE said == [m \in Msg |-> Sent(m)]
  <1>1. ASSUME NEW p \in Call, Answers(p) PROVE Ledger!LedgerNext
    <2>1. said' = [said EXCEPT ![req[p]] = @ + 1]  BY <1>1, SentAnswered
    <2>2. Ledger!Answer(req[p])
      BY <1>1, <2>1 DEF Answers, Ledger!Answer
    <2> QED  BY <1>1, <2>2 DEF Answers, Ledger!LedgerNext
  <1>2. ASSUME NEW p \in Call, Starts(p) PROVE Ledger!LedgerNext
    <2>1. said' = said  BY <1>2, SentStarted
    <2>2. Ledger!Claim(req[p], p)  BY <1>2, <2>1 DEF Starts, Ledger!Claim
    <2> QED  BY <1>2, <2>2 DEF Starts, Ledger!LedgerNext
  <1>3. ASSUME NEW p \in Call, Orphans(p) PROVE Ledger!LedgerNext
    <2>1. said' = said  BY <1>3, SentSame DEF Orphans
    <2>2. Ledger!Orphan(req[p])  BY <1>3, <2>1 DEF Orphans, Ledger!Orphan
    <2> QED  BY <1>3, <2>2 DEF Orphans, Ledger!LedgerNext
  <1>4. ASSUME NEW p \in Call, Closes(p) PROVE Ledger!LedgerNext
    <2>1. said' = said  BY <1>4, SentSame DEF Closes
    <2>2. Ledger!Close(req[p], loc[p].fin)
      BY <1>4, <2>1 DEF Closes, Ledger!Close
    <2> QED
      BY <1>4, <2>2 DEF Closes, Closed, Ledger!LedgerNext, Ledger!Closed
  <1>5. CASE UNCHANGED <<run, owner, sends>>
    BY <1>5, SentSame DEF Ledger!ledgerVars
  <1> QED  BY <1>1, <1>2, <1>3, <1>4, <1>5, StepSeen

LEMMA LedgerStart == Init => Ledger!LedgerInit
  BY DEF Init, Ledger!LedgerInit, Sent

\* The agent implements RunLedger: a message is claimed at most once, replies
\* are made for the claimant while its run is open, a closed run stays closed.
THEOREM LedgerImplemented == Spec => ImplementsLedger
  <1>1. Init => Ledger!LedgerInit  BY LedgerStart
  <1>2. OwnInv /\ [Next]_vars => [Ledger!LedgerNext]_(Ledger!ledgerVars)
    BY LedgerStep
  <1> QED
    BY <1>1, <1>2, OwnInvariant, PTL DEF Spec, ImplementsLedger, Ledger!LedgerSpec

LEMMA ClosedStep ==
    ASSUME OwnInv, [Next]_vars, NEW m \in Msg, run[m] \in Closed
    PROVE  /\ run'[m] = run[m]
           /\ owner'[m] = owner[m]
           /\ owner[m] # None => sends'[owner[m]] = sends[owner[m]]
  <1>1. run[m] # "none" /\ run[m] # "running"  BY DEF Closed
  <1>2. ASSUME NEW p \in Call, Answers(p)
        PROVE  /\ run'[m] = run[m] /\ owner'[m] = owner[m]
               /\ owner[m] # None => sends'[owner[m]] = sends[owner[m]]
    <2>1. m # req[p]  BY <1>1, <1>2 DEF Answers
    <2>2. owner[m] # p  BY <2>1, ConstantsOK DEF OwnInv, OwnersAsked, ConstantsOK
    <2> QED  BY <1>2, <2>2 DEF Answers, Handed, OwnInv, TypeOK
  <1>3. ASSUME NEW p \in Call, Starts(p) \/ Orphans(p) \/ Closes(p)
        PROVE  /\ run'[m] = run[m] /\ owner'[m] = owner[m]
               /\ owner[m] # None => sends'[owner[m]] = sends[owner[m]]
    <2>1. m # req[p]  BY <1>1, <1>3 DEF Starts, Orphans, Closes
    <2> QED  BY <1>3, <2>1 DEF Starts, Orphans, Closes, OwnInv, TypeOK
  <1>4. CASE UNCHANGED <<run, owner, sends>>  BY <1>4
  <1> QED  BY <1>2, <1>3, <1>4, StepSeen

\* A run that was closed keeps its status, and nothing more is sent for it:
\* CompleteAgentRun is the last thing the owner of a run does.
THEOREM ClosedRunsStayHolds == Spec => ClosedRunsStay
  <1> DEFINE Stays == \A m \in Msg : run[m] \in Closed
                        => run'[m] = run[m] /\ Sent(m)' = Sent(m)
  <1>1. OwnInv /\ [Next]_vars => Stays  BY ClosedStep DEF Sent
  <1> QED  BY <1>1, OwnInvariant, PTL DEF Spec, ClosedRunsStay

-----------------------------------------------------------------------------
(* Mutual exclusion.                                                       *)

\* A call inside the callback of WithConversationLock holds the lock.
HoldsLock ==
    \A p \in Call : pc[p] \in Locked => lock[ConvOfCall(p)] = p

\* Steps that leave the locks alone, and take no call into the callback.
LEMMA LockUntouched ==
    ASSUME OwnInv, HoldsLock, UNCHANGED lock,
           \A q \in Call : pc'[q] \in Locked => pc[q] \in Locked /\ req'[q] = req[q]
    PROVE  HoldsLock'
  BY DEF HoldsLock, ConvOfCall

LEMMA BodyKeepsLock ==
    ASSUME OwnInv, HoldsLock, NEW p \in Call, pc[p] \in Locked,
           UNCHANGED <<lock, req>>,
           \E place \in Locked : pc' = [pc EXCEPT ![p] = place]
    PROVE  HoldsLock'
  <1>1. \A q \in Call : pc'[q] \in Locked => pc[q] \in Locked /\ req'[q] = req[q]
    BY DEF OwnInv, TypeOK
  <1> QED  BY <1>1, LockUntouched

\* A call that leaves the callback gives up only its own lock.
LEMMA LeaveKeepsLocks ==
    ASSUME OwnInv, HoldsLock, NEW p \in Call, ReleaseLock(p), UNCHANGED req,
           NEW place \in {"done", "dead"}, pc' = [pc EXCEPT ![p] = place]
    PROVE  HoldsLock'
  <1> SUFFICES ASSUME NEW q \in Call, pc'[q] \in Locked
               PROVE  lock'[ConvOf[req'[q]]] = q
    BY DEF HoldsLock, ConvOfCall
  <1>1. q # p /\ pc[q] \in Locked  BY DEF OwnInv, TypeOK, Locked, Working
  <1>2. lock[ConvOf[req[q]]] = q  BY <1>1 DEF HoldsLock, ConvOfCall
  <1>3. ConvOf[req[q]] \in Conv
    BY <1>1, ConstantsOK DEF OwnInv, Asked, ConstantsOK, Locked, Working
  <1> QED  BY <1>1, <1>2, <1>3 DEF ReleaseLock

\* The places a step of the body leads to.
LEMMA BodyPlaces ==
    ASSUME OwnInv, NEW p \in Call,
           \/ StartRun(p) \/ AlreadyStarted(p) \/ StartRunFails(p) \/ Finish(p)
           \/ ListMessages(p) \/ CallModel(p) \/ StepFails(p) \/ RunTool(p)
           \/ ProviderAccepts(p) \/ ProviderFails(p) \/ Enqueue(p)
           \/ EnqueueFails(p) \/ NoRuntime(p) \/ Record(p) \/ RecordFails(p)
    PROVE  /\ pc[p] \in Locked /\ UNCHANGED <<lock, req>>
           /\ \E place \in Locked : pc' = [pc EXCEPT ![p] = place]
  <1>1. CASE StartRun(p) \/ AlreadyStarted(p) \/ StartRunFails(p) \/ Finish(p)
    BY <1>1 DEF StartRun, AlreadyStarted, StartRunFails, Finish, Locked, Working
  <1> DEFINE Moves == \E place \in Locked : pc' = [pc EXCEPT ![p] = place]
  <1>2. ASSUME NEW l, NEW place \in Working, Proceed(p, l, place) PROVE Moves
    BY <1>2 DEF Proceed, Locked
  <1>3. ASSUME NEW l, NEW status, CloseAs(p, l, status) PROVE Moves
    BY <1>3 DEF CloseAs, Locked, Working
  <1>4. ASSUME NEW l, NextTool(p, l) PROVE Moves
    BY <1>2, <1>3, <1>4 DEF NextTool, Working
  <1>5. ASSUME NEW l, NEW who, BeginSend(p, l, who) PROVE Moves
    BY <1>2, <1>5 DEF BeginSend, Working
  <1>6. ASSUME NEW l, SendOk(p, l) PROVE Moves
    BY <1>3, <1>4, <1>6 DEF SendOk
  <1>7. ASSUME NEW l, NEW unavailable, SendFailed(p, l, unavailable) PROVE Moves
    BY <1>2, <1>3, <1>4, <1>7 DEF SendFailed, Working
  <1> HIDE DEF Moves
  <1>8. CASE ListMessages(p) \/ CallModel(p) \/ StepFails(p) \/ RunTool(p)
    <2>1. Moves
      BY <1>2, <1>3, <1>4, <1>5, <1>8
      DEF ListMessages, CallModel, StepFails, RunTool, Working
    <2> QED
      BY <1>8, <2>1
      DEF ListMessages, CallModel, StepFails, RunTool, Locked, Working, Moves
  <1>9. CASE \/ ProviderAccepts(p) \/ ProviderFails(p) \/ Enqueue(p)
             \/ EnqueueFails(p) \/ NoRuntime(p) \/ Record(p) \/ RecordFails(p)
    <2>1. Moves
      BY <1>2, <1>6, <1>7, <1>9
      DEF ProviderAccepts, ProviderFails, Enqueue, EnqueueFails, NoRuntime,
          Record, RecordFails, Working
    <2> QED
      BY <1>9, <2>1
      DEF ProviderAccepts, ProviderFails, Enqueue, EnqueueFails, NoRuntime,
          Record, RecordFails, Locked, Working, Moves
  <1> QED  BY <1>1, <1>8, <1>9

LEMMA NextHoldsLock ==
    ASSUME ~SessionLoss, OwnInv, HoldsLock, [Next]_vars
    PROVE  HoldsLock'
  <1>1. CASE UNCHANGED vars  BY <1>1 DEF vars, HoldsLock, ConvOfCall
  <1>2. CASE \/ DeliverJob \/ \E m \in Msg : Arrive(m) \/ Commit(m)
             \/ \E p \in Call : ContextDone(p)
    BY <1>2, LockUntouched DEF DeliverJob, Arrive, Commit, ContextDone
  <1>3. ASSUME NEW p \in Call, NEW m \in Msg, Begin(p, m) PROVE HoldsLock'
    <2>1. \A q \in Call : pc'[q] \in Locked => pc[q] \in Locked /\ req'[q] = req[q]
      BY <1>3 DEF Begin, OwnInv, TypeOK, Locked, Working
    <2> QED  BY <1>3, <2>1, LockUntouched DEF Begin
  <1>4. ASSUME NEW p \in Call, AcquireLock(p) PROVE HoldsLock'
    <2> SUFFICES ASSUME NEW q \in Call, pc'[q] \in Locked
                 PROVE  lock'[ConvOf[req'[q]]] = q
      BY DEF HoldsLock, ConvOfCall
    <2>1. ConvOf[req[p]] \in Conv /\ lock[ConvOf[req[p]]] = None
      BY <1>4, ConstantsOK
      DEF AcquireLock, LockFree, ConvOfCall, OwnInv, Asked, ConstantsOK
    <2>2. CASE q = p
      BY <1>4, <2>1, <2>2 DEF AcquireLock, ConvOfCall, OwnInv, TypeOK
    <2>3. CASE q # p
      <3>1. pc[q] \in Locked  BY <1>4, <2>3 DEF AcquireLock, OwnInv, TypeOK
      <3>2. lock[ConvOf[req[q]]] = q  BY <3>1 DEF HoldsLock, ConvOfCall
      <3>3. q # None  BY ConstantsOK DEF ConstantsOK
      <3> QED
        BY <1>4, <2>1, <3>2, <3>3 DEF AcquireLock, ConvOfCall, OwnInv, TypeOK
    <2> QED  BY <2>2, <2>3
  <1>5. ASSUME NEW p \in Call, LockFails(p) PROVE HoldsLock'
    <2>1. \A q \in Call : pc'[q] \in Locked => pc[q] \in Locked /\ req'[q] = req[q]
      BY <1>5 DEF LockFails, OwnInv, TypeOK, Locked, Working
    <2> QED  BY <1>5, <2>1, LockUntouched DEF LockFails
  <1>6. ASSUME NEW p \in Call, Unlock(p) \/ Die(p) PROVE HoldsLock'
    BY <1>6, LeaveKeepsLocks DEF Unlock, Die
  <1>7. ASSUME NEW p \in Call,
               \/ StartRun(p) \/ AlreadyStarted(p) \/ StartRunFails(p) \/ Finish(p)
               \/ ListMessages(p) \/ CallModel(p) \/ StepFails(p) \/ RunTool(p)
               \/ ProviderAccepts(p) \/ ProviderFails(p) \/ Enqueue(p)
               \/ EnqueueFails(p) \/ NoRuntime(p) \/ Record(p) \/ RecordFails(p)
        PROVE  HoldsLock'
    BY <1>7, BodyPlaces, BodyKeepsLock
  <1>8. ASSUME NEW p \in Call, LoseSession(p) PROVE HoldsLock'
    BY <1>8 DEF LoseSession
  <1> QED
    BY <1>1, <1>2, <1>3, <1>4, <1>5, <1>6, <1>7, <1>8 DEF Next, Step

\* Runs of one conversation are worked on one at a time, as long as Postgres
\* does not lose the session that holds the advisory lock.
THEOREM ConversationSerialHolds ==
    ASSUME ~SessionLoss
    PROVE  Spec => []ConversationSerial
  <1>1. Init => HoldsLock  BY DEF Init, HoldsLock, Locked, Working
  <1>2. OwnInv /\ HoldsLock /\ [Next]_vars => HoldsLock'  BY NextHoldsLock
  <1>3. HoldsLock => ConversationSerial
    BY DEF HoldsLock, ConversationSerial
  <1> QED  BY <1>1, <1>2, <1>3, OwnInvariant, PTL DEF Spec

\* Steps after which every lock kept is kept by whom it was, who stays inside.
LEMMA HoldersStay ==
    ASSUME NoLockLeaks,
           \A c \in Conv : lock'[c] # None =>
               /\ lock'[c] = lock[c]
               /\ pc'[lock[c]] \in Locked /\ req'[lock[c]] = req[lock[c]]
    PROVE  NoLockLeaks'
  BY DEF NoLockLeaks, ConvOfCall

LEMMA NextNoLockLeaks ==
    ASSUME OwnInv, NoLockLeaks, [Next]_vars
    PROVE  NoLockLeaks'
  <1> DEFINE Stays(q) == pc[q] \in Locked => pc'[q] \in Locked /\ req'[q] = req[q]
  <1>1. ASSUME UNCHANGED lock, \A q \in Call : Stays(q) PROVE NoLockLeaks'
    <2>1. \A c \in Conv : lock[c] # None => lock[c] \in Call
      BY DEF OwnInv, TypeOK
    <2> QED  BY <1>1, <2>1, HoldersStay DEF NoLockLeaks
  <1>2. CASE UNCHANGED vars  BY <1>1, <1>2 DEF vars
  <1>3. CASE \/ DeliverJob \/ \E m \in Msg : Arrive(m) \/ Commit(m)
             \/ \E p \in Call : ContextDone(p)
    BY <1>1, <1>3 DEF DeliverJob, Arrive, Commit, ContextDone
  <1>4. ASSUME NEW p \in Call, LockFails(p) \/ \E m \in Msg : Begin(p, m)
        PROVE  NoLockLeaks'
    <2>1. \A q \in Call : Stays(q)
      BY <1>4 DEF LockFails, Begin, OwnInv, TypeOK, Locked, Working
    <2> QED  BY <1>1, <1>4, <2>1 DEF LockFails, Begin
  <1>5. ASSUME NEW p \in Call, AcquireLock(p) PROVE NoLockLeaks'
    <2> SUFFICES ASSUME NEW c \in Conv, lock'[c] # None
                 PROVE  pc'[lock'[c]] \in Locked /\ ConvOf[req'[lock'[c]]] = c
      BY DEF NoLockLeaks, ConvOfCall
    <2>1. CASE c = ConvOf[req[p]]
      BY <1>5, <2>1
      DEF AcquireLock, ConvOfCall, OwnInv, TypeOK, Locked
    <2>2. CASE c # ConvOf[req[p]]
      <3>1. lock'[c] = lock[c] /\ lock[c] \in Call
        BY <1>5, <2>2, ConstantsOK
        DEF AcquireLock, ConvOfCall, OwnInv, TypeOK
      <3>2. pc[lock[c]] \in Locked /\ ConvOf[req[lock[c]]] = c
        BY <3>1 DEF NoLockLeaks, ConvOfCall
      <3>3. pc'[lock[c]] \in Locked
        BY <1>5, <3>1, <3>2 DEF AcquireLock, OwnInv, TypeOK, Locked
      <3> QED  BY <1>5, <3>1, <3>2, <3>3 DEF AcquireLock
    <2> QED  BY <2>1, <2>2
  <1>6. ASSUME NEW p \in Call, Unlock(p) \/ Die(p) \/ LoseSession(p)
        PROVE  NoLockLeaks'
    <2>1. ReleaseLock(p) /\ UNCHANGED req
      BY <1>6 DEF Unlock, Die, LoseSession
    <2>2. \A q \in Call : q # p => pc'[q] = pc[q]
      BY <1>6 DEF Unlock, Die, LoseSession, OwnInv, TypeOK
    <2>3. ASSUME NEW c \in Conv, lock'[c] # None
          PROVE  /\ lock'[c] = lock[c]
                 /\ pc'[lock[c]] \in Locked /\ req'[lock[c]] = req[lock[c]]
      <3>1. lock'[c] = lock[c] /\ lock[c] # p
        BY <2>1, <2>3 DEF ReleaseLock
      <3>2. lock[c] \in Call /\ pc[lock[c]] \in Locked
        BY <2>3, <3>1 DEF OwnInv, TypeOK, NoLockLeaks
      <3> QED  BY <2>1, <2>2, <3>1, <3>2
    <2> QED  BY <2>3, HoldersStay
  <1>7. ASSUME NEW p \in Call,
               \/ StartRun(p) \/ AlreadyStarted(p) \/ StartRunFails(p) \/ Finish(p)
               \/ ListMessages(p) \/ CallModel(p) \/ StepFails(p) \/ RunTool(p)
               \/ ProviderAccepts(p) \/ ProviderFails(p) \/ Enqueue(p)
               \/ EnqueueFails(p) \/ NoRuntime(p) \/ Record(p) \/ RecordFails(p)
        PROVE  NoLockLeaks'
    <2>1. /\ UNCHANGED <<lock, req>>
          /\ \E place \in Locked : pc' = [pc EXCEPT ![p] = place]
      BY <1>7, BodyPlaces
    <2>2. \A q \in Call : Stays(q)  BY <2>1 DEF OwnInv, TypeOK
    <2> QED  BY <1>1, <2>1, <2>2
  <1> QED
    BY <1>2, <1>3, <1>4, <1>5, <1>6, <1>7 DEF Next, Step

\* No path out of WithConversationLock keeps its lock, whatever fails, ends
\* or crashes on the way, also where Postgres loses sessions.
THEOREM NoLockLeaksHolds == Spec => []NoLockLeaks
  <1>1. Init => NoLockLeaks  BY DEF Init, NoLockLeaks
  <1>2. OwnInv /\ NoLockLeaks /\ [Next]_vars => NoLockLeaks'
    BY NextNoLockLeaks
  <1> QED  BY <1>1, <1>2, OwnInvariant, PTL DEF Spec

-----------------------------------------------------------------------------
(* Calls end.                                                              *)

\* A turn of the loop is worth what its response can ask for, and more.
LEMMA TurnCounts ==
    ASSUME NEW l \in Locals, l.step <= MaxSteps
    PROVE  /\ TurnsLeft(l) \in Nat /\ TurnsLeft(l) >= 3
           /\ \A n \in Locals : n.step = l.step => TurnsLeft(n) = TurnsLeft(l)
           /\ \A n \in Locals : n.step = l.step + 1
                => TurnsLeft(l) = TurnsLeft(n) + 3 * MaxTools + 3
  <1> DEFINE turn == 3 * MaxTools + 3
  <1>1. turn \in Nat /\ MaxSteps \in Nat /\ MaxTools \in Nat
    BY ConstantsOK DEF ConstantsOK
  <1>2. l.step \in Nat  BY DEF Locals
  <1>3. \A k \in Nat : k * turn \in Nat /\ (k - 1) * turn = k * turn - turn
    BY <1>1
  <1>4. \A n \in Locals : TurnsLeft(n) = 3 + (MaxSteps - n.step) * turn
    BY DEF TurnsLeft
  <1>5. MaxSteps - l.step \in Nat
        /\ MaxSteps - (l.step + 1) = (MaxSteps - l.step) - 1
    BY <1>1, <1>2
  <1> HIDE DEF turn
  <1>6. TurnsLeft(l) \in Nat /\ TurnsLeft(l) >= 3
    <2>1. (MaxSteps - l.step) * turn \in Nat  BY <1>3, <1>5
    <2> QED  BY <1>4, <2>1
  <1>7. ASSUME NEW n \in Locals, n.step = l.step + 1
        PROVE  TurnsLeft(l) = TurnsLeft(n) + turn
    <2> DEFINE k == MaxSteps - l.step
    <2>1. k * turn \in Nat /\ (k - 1) * turn = k * turn - turn  BY <1>3, <1>5
    <2>2. TurnsLeft(l) = 3 + k * turn  BY <1>4
    <2>3. TurnsLeft(n) = 3 + (k - 1) * turn  BY <1>4, <1>5, <1>7
    <2> HIDE DEF k
    <2> QED  BY <1>1, <2>1, <2>2, <2>3
  <1>8. \A n \in Locals : n.step = l.step => TurnsLeft(n) = TurnsLeft(l)
    BY <1>4
  <1>9. \A n \in Locals : n.step = l.step + 1
          => TurnsLeft(l) = TurnsLeft(n) + 3 * MaxTools + 3
    <2> SUFFICES ASSUME NEW n \in Locals, n.step = l.step + 1
                 PROVE  TurnsLeft(l) = TurnsLeft(n) + 3 * MaxTools + 3
      OBVIOUS
    <2>1. TurnsLeft(n) \in Int
      <3>1. (MaxSteps - n.step) * turn \in Int  BY <1>3, <1>5, <1>1, <1>2
      <3> QED  BY <1>4, <3>1
    <2>2. TurnsLeft(l) = TurnsLeft(n) + turn  BY <1>7
    <2> QED  BY <1>1, <2>1, <2>2 DEF turn
  <1> QED  BY <1>6, <1>8, <1>9

\* The weight of each place.
LEMMA StepsAt ==
    ASSUME NEW l
    PROVE  /\ \A place \in {"idle", "lock"} : StepsLeft(place, l) = TurnsLeft(l) + 5
           /\ StepsLeft("start", l) = TurnsLeft(l) + 4
           /\ StepsLeft("list", l) = TurnsLeft(l) + 3
           /\ StepsLeft("model", l) = TurnsLeft(l)
           /\ StepsLeft("tools", l) = TurnsLeft(l) + 3 * Len(l.todo)
           /\ StepsLeft("send", l) = TurnsLeft(l) + SendWeight(l, l.sending)
           /\ StepsLeft("record", l) = TurnsLeft(l) + SendWeight(l, l.sending) - 1
           /\ StepsLeft("finish", l) = 2 /\ StepsLeft("unlock", l) = 1
           /\ \A place \in {"done", "dead"} : StepsLeft(place, l) = 0
  BY DEF StepsLeft, SendWeight

\* A step of p leads to where at most w steps are left.
Lands(p, w) ==
    \E place \in PC, l \in Locals :
        /\ pc' = [pc EXCEPT ![p] = place] /\ loc' = [loc EXCEPT ![p] = l]
        /\ TurnFits(place, l)
        /\ StepsLeft(place, l) \in 0..w

LEMMA LandsSooner ==
    ASSUME NEW p, NEW v \in Int, NEW w \in Int, v <= w, Lands(p, v)
    PROVE  Lands(p, w)
  <1>1. 0..v \subseteq 0..w  OBVIOUS
  <1> QED  BY <1>1 DEF Lands

LEMMA ProceedLands ==
    ASSUME NEW p \in Call, NEW l \in Locals, NEW place \in PC, NEW w \in Int,
           Proceed(p, l, place), TurnFits(place, l),
           StepsLeft(place, l) \in 0..w
    PROVE  Lands(p, w)
  BY DEF Proceed, Lands

LEMMA CloseLands ==
    ASSUME NEW p \in Call, NEW l \in Locals, l.step <= MaxSteps,
           NEW status \in Closed, CloseAs(p, l, status), NEW w \in Int, w >= 2
    PROVE  Lands(p, w)
  <1> DEFINE n == [l EXCEPT !.fin = status]
  <1>1. n \in Locals /\ n.step = l.step  BY DEF Locals
  <1>2. TurnFits("finish", n)  BY <1>1 DEF TurnFits
  <1>3. StepsLeft("finish", n) = 2  BY StepsAt
  <1>4. Proceed(p, n, "finish")  BY DEF CloseAs, Proceed
  <1> HIDE DEF n
  <1> QED  BY <1>1, <1>2, <1>3, <1>4, ProceedLands DEF PC, Locked, Working

LEMMA NextToolLands ==
    ASSUME NEW p \in Call, NEW l \in Locals, l.step <= MaxSteps,
           l.todo # <<>>, NextTool(p, l)
    PROVE  Lands(p, TurnsLeft(l) + 3 * Len(l.todo) - 3)
  <1> DEFINE rest == [l EXCEPT !.todo = Tail(@), !.sending = "nobody"]
             w == TurnsLeft(l) + 3 * Len(l.todo) - 3
  <1>1. /\ rest \in Locals /\ rest.step = l.step /\ rest.sending = "nobody"
        /\ rest.todo = Tail(l.todo)
    <2>1. rest \in Locals  BY LocalsUpdate
    <2> QED  BY <2>1 DEF Locals
  <1>2. /\ Len(l.todo) \in Nat \ {0}
        /\ Len(rest.todo) \in Nat /\ Len(rest.todo) = Len(l.todo) - 1
    <2>1. l.todo \in Seq(Tools)  BY DEF Locals
    <2> QED  BY <1>1, <2>1
  <1>3. /\ TurnsLeft(l) \in Nat /\ TurnsLeft(l) >= 3
        /\ TurnsLeft(rest) = TurnsLeft(l)
    BY <1>1, TurnCounts
  <1>4. w \in Int /\ w >= TurnsLeft(l)  BY <1>2, <1>3
  <1>5. NextTool(p, l) <=>
          \/ rest.todo # <<>> /\ Proceed(p, rest, "tools")
          \/ rest.todo = <<>> /\ MoreSteps(rest) /\ Proceed(p, rest, "model")
          \/ rest.todo = <<>> /\ ~MoreSteps(rest) /\ CloseAs(p, rest, "failed")
    BY DEF NextTool
  <1>6. "tools" \in PC /\ "model" \in PC  BY DEF PC, Locked, Working
  <1> HIDE DEF rest
  <1>7. CASE Proceed(p, rest, "tools")
    <2>1. StepsLeft("tools", rest) = TurnsLeft(l) + 3 * Len(rest.todo)
      BY <1>3, StepsAt
    <2>2. StepsLeft("tools", rest) \in 0..w  BY <1>2, <1>3, <2>1
    <2>3. TurnFits("tools", rest)  BY <1>1 DEF TurnFits
    <2> HIDE DEF w
    <2>4. Lands(p, w)
      BY <1>1, <1>4, <1>6, <1>7, <2>2, <2>3, ProceedLands
    <2> QED  BY <2>4 DEF w
  <1>8. CASE MoreSteps(rest) /\ Proceed(p, rest, "model")
    <2>1. StepsLeft("model", rest) = TurnsLeft(l)  BY <1>3, StepsAt
    <2>2. StepsLeft("model", rest) \in 0..w  BY <1>3, <1>4, <2>1
    <2>3. TurnFits("model", rest)  BY <1>1, <1>8 DEF TurnFits
    <2> HIDE DEF w
    <2>4. Lands(p, w)
      BY <1>1, <1>4, <1>6, <1>8, <2>2, <2>3, ProceedLands
    <2> QED  BY <2>4 DEF w
  <1>9. CASE CloseAs(p, rest, "failed")
    <2>1. w >= 2  BY <1>3, <1>4
    <2> HIDE DEF w
    <2>2. Lands(p, w)  BY <1>1, <1>4, <1>9, <2>1, CloseLands DEF Closed
    <2> QED  BY <2>2 DEF w
  <1> QED  BY <1>5, <1>7, <1>8, <1>9

LEMMA BeginSendLands ==
    ASSUME NEW p \in Call, NEW l \in Locals, l.step <= MaxSteps,
           NEW who \in {"pong", "tool", "auto"},
           who = "tool" => l.todo # <<>>, who = "pong" => MoreSteps(l),
           BeginSend(p, l, who)
    PROVE  Lands(p, TurnsLeft(l) + SendWeight(l, who))
  <1> DEFINE n == [l EXCEPT !.sending = who]
             w == TurnsLeft(l) + SendWeight(l, who)
  <1>1. n \in Locals /\ n.step = l.step /\ n.sending = who /\ n.todo = l.todo
    BY DEF Locals
  <1>2. Len(l.todo) \in Nat /\ (who = "tool" => Len(l.todo) >= 1)
    <2>1. l.todo \in Seq(Tools)  BY DEF Locals
    <2> QED  BY <2>1
  <1>3. /\ TurnsLeft(l) \in Nat /\ TurnsLeft(l) >= 3
        /\ TurnsLeft(n) = TurnsLeft(l)
    BY <1>1, TurnCounts
  <1>4. PICK place \in {"send", "record"} : Proceed(p, n, place)
    BY DEF BeginSend
  <1> HIDE DEF n
  <1>5. StepsLeft(place, n) \in 0..w
    <2>1. SendWeight(n, n.sending) \in Nat \ {0}
      BY <1>1, <1>2 DEF SendWeight
    <2>2. SendWeight(n, n.sending) = SendWeight(l, who)
      BY <1>1 DEF SendWeight
    <2>3. CASE place = "send"
      <3>1. StepsLeft(place, n) = w  BY <1>3, <2>2, <2>3, StepsAt
      <3> QED  BY <1>3, <2>1, <2>2, <3>1
    <2>4. CASE place = "record"
      <3>1. StepsLeft(place, n) = w - 1  BY <1>3, <2>1, <2>2, <2>4, StepsAt
      <3> QED  BY <1>3, <2>1, <2>2, <3>1
    <2> QED  BY <2>3, <2>4
  <1>6. TurnFits(place, n)  BY <1>1 DEF TurnFits, MoreSteps
  <1>7. w \in Int /\ place \in PC
    BY <1>2, <1>3 DEF SendWeight, PC, Locked, Working
  <1> HIDE DEF w
  <1>8. Lands(p, w)  BY <1>1, <1>4, <1>5, <1>6, <1>7, ProceedLands
  <1> QED  BY <1>8 DEF w

\* toolSend returned: what is left of the response, or nothing but closing.
LEMMA SendOkLands ==
    ASSUME NEW p \in Call, NEW l \in Locals, l.step <= MaxSteps,
           l.sending = "tool" => l.todo # <<>>, SendOk(p, l)
    PROVE  IF l.sending = "tool"
             THEN Lands(p, TurnsLeft(l) + 3 * Len(l.todo) - 3)
             ELSE Lands(p, 2)
  <1> DEFINE told == [l EXCEPT !.replied = TRUE]
  <1>1. /\ told \in Locals /\ told.step = l.step /\ told.todo = l.todo
        /\ TurnsLeft(told) = TurnsLeft(l)
    <2>1. told \in Locals /\ told.step = l.step /\ told.todo = l.todo
      BY DEF Locals
    <2> QED  BY <2>1, TurnCounts
  <1>2. CASE l.sending \in {"pong", "auto"} /\ CloseAs(p, told, "completed")
    <2> HIDE DEF told
    <2> QED  BY <1>1, <1>2, CloseLands DEF Closed
  <1>3. CASE l.sending = "tool" /\ NextTool(p, told)
    <2> HIDE DEF told
    <2>1. Lands(p, TurnsLeft(told) + 3 * Len(told.todo) - 3)
      BY <1>1, <1>3, NextToolLands
    <2> QED  BY <1>1, <1>3, <2>1
  <1> QED  BY <1>2, <1>3 DEF SendOk

LEMMA SendFailedLands ==
    ASSUME NEW p \in Call, NEW l \in Locals, l.step <= MaxSteps,
           l.sending = "tool" => l.todo # <<>>,
           l.sending = "pong" => MoreSteps(l),
           NEW unavailable, SendFailed(p, l, unavailable)
    PROVE  IF l.sending = "tool"
             THEN Lands(p, TurnsLeft(l) + 3 * Len(l.todo) - 3)
             ELSE Lands(p, TurnsLeft(l))
  <1>1. TurnsLeft(l) \in Nat /\ TurnsLeft(l) >= 3  BY TurnCounts
  <1>2. CASE l.sending = "tool" /\ NextTool(p, l)
    BY <1>2, NextToolLands
  <1>3. CASE l.sending # "tool" /\ CloseAs(p, l, "completed")
    BY <1>1, <1>3, CloseLands DEF Closed
  <1>4. CASE CloseAs(p, l, "failed")
    <2>1. Lands(p, TurnsLeft(l))  BY <1>1, <1>4, CloseLands DEF Closed
    <2>2. ASSUME l.sending = "tool"
          PROVE  Lands(p, TurnsLeft(l) + 3 * Len(l.todo) - 3)
      <3>1. Len(l.todo) \in Nat /\ Len(l.todo) >= 1
        <4>1. l.todo \in Seq(Tools)  BY DEF Locals
        <4> QED  BY <2>2, <4>1
      <3> DEFINE w == TurnsLeft(l) + 3 * Len(l.todo) - 3
      <3>2. w \in Int /\ w >= 2  BY <1>1, <3>1
      <3> HIDE DEF w
      <3>3. Lands(p, w)  BY <1>4, <3>2, CloseLands DEF Closed
      <3> QED  BY <3>3 DEF w
    <2> QED  BY <2>1, <2>2
  <1>5. CASE /\ l.sending = "pong"
             /\ Proceed(p, [l EXCEPT !.sending = "nobody"], "model")
    <2> DEFINE n == [l EXCEPT !.sending = "nobody"]
    <2>1. n \in Locals /\ n.step = l.step  BY DEF Locals
    <2> HIDE DEF n
    <2>2. TurnsLeft(n) = TurnsLeft(l)  BY <2>1, TurnCounts
    <2>3. StepsLeft("model", n) \in 0..TurnsLeft(l)  BY <1>1, <2>2, StepsAt
    <2>4. TurnFits("model", n)  BY <1>5, <2>1 DEF TurnFits, MoreSteps
    <2>5. Lands(p, TurnsLeft(l))
      BY <1>1, <1>5, <2>1, <2>3, <2>4, ProceedLands DEF n, PC, Locked, Working
    <2> QED  BY <1>5, <2>5
  <1> QED  BY <1>2, <1>3, <1>4, <1>5 DEF SendFailed

\* Each step of a call, by its place.
LEMMA LoopLands ==
    ASSUME OwnInv, TurnsFit, NEW p \in Call,
           ListMessages(p) \/ CallModel(p) \/ StepFails(p) \/ RunTool(p)
    PROVE  Lands(p, StepsLeft(pc[p], loc[p]) - 1)
  <1> DEFINE l == loc[p]
  <1>1. l \in Locals /\ l.step \in Nat /\ l.todo \in Seq(Tools)
    BY DEF OwnInv, TypeOK, Locals
  <1>2. TurnFits(pc[p], l)  BY DEF TurnsFit
  <1>3. l.step <= MaxSteps /\ (pc[p] \in {"list", "model"} => MoreSteps(l))
    BY <1>2 DEF TurnFits
  <1>4. TurnsLeft(l) \in Nat /\ TurnsLeft(l) >= 3  BY <1>1, <1>3, TurnCounts
  <1>5. CASE StepFails(p)
    <2>1. CloseAs(p, l, "failed") /\ pc[p] \in {"list", "model"}
      BY <1>5 DEF StepFails
    <2>2. StepsLeft(pc[p], l) >= 3 /\ StepsLeft(pc[p], l) \in Int
      BY <1>4, <2>1, StepsAt
    <2> QED  BY <1>1, <1>3, <2>1, <2>2, CloseLands DEF Closed
  <1>6. CASE ListMessages(p)
    <2> DEFINE w == TurnsLeft(l) + 2
    <2>1. StepsLeft(pc[p], l) - 1 = w /\ MoreSteps(l)
      BY <1>3, <1>4, <1>6, StepsAt DEF ListMessages
    <2>2. w \in Int /\ w >= 2 /\ TurnsLeft(l) \in 0..w  BY <1>4
    <2>3. CASE CloseAs(p, l, "skipped")
      <3> HIDE DEF w
      <3>1. Lands(p, w)  BY <1>1, <1>3, <2>2, <2>3, CloseLands DEF Closed
      <3> QED  BY <2>1, <3>1
    <2>4. CASE BeginSend(p, l, "pong")
      <3>1. Lands(p, TurnsLeft(l) + SendWeight(l, "pong"))
        BY <1>1, <1>3, <2>1, <2>4, BeginSendLands
      <3> QED  BY <2>1, <3>1 DEF SendWeight
    <2>5. CASE Proceed(p, l, "model")
      <3>1. StepsLeft("model", l) \in 0..w  BY <2>2, StepsAt
      <3>2. TurnFits("model", l)  BY <1>3, <2>1 DEF TurnFits
      <3> HIDE DEF w
      <3>3. Lands(p, w)
        BY <1>1, <2>2, <2>5, <3>1, <3>2, ProceedLands DEF PC, Locked, Working
      <3> QED  BY <2>1, <3>3
    <2> QED  BY <1>6, <2>3, <2>4, <2>5 DEF ListMessages
  <1>7. CASE RunTool(p)
    <2> DEFINE w == TurnsLeft(l) + 3 * Len(l.todo) - 1
    <2>1. l.todo # <<>>  BY <1>7 DEF RunTool, OwnInv, LocalsFit
    <2>2. Len(l.todo) \in Nat /\ Len(l.todo) >= 1  BY <1>1, <2>1
    <2>3. StepsLeft(pc[p], l) - 1 = w
      <3>1. pc[p] = "tools"  BY <1>7 DEF RunTool
      <3>2. StepsLeft("tools", l) = TurnsLeft(l) + 3 * Len(l.todo)  BY StepsAt
      <3> HIDE DEF l
      <3> QED  BY <1>4, <2>2, <3>1, <3>2
    <2>4. w \in Int /\ w >= 2  BY <1>4, <2>2
    <2>5. CASE BeginSend(p, l, "tool")
      <3>1. Lands(p, TurnsLeft(l) + SendWeight(l, "tool"))
        BY <1>1, <1>3, <2>1, <2>5, BeginSendLands
      <3>2. TurnsLeft(l) + SendWeight(l, "tool") = w
        BY <1>4, <2>2 DEF SendWeight
      <3> QED  BY <2>3, <3>1, <3>2
    <2>6. CASE NextTool(p, l)
      <3>1. Lands(p, TurnsLeft(l) + 3 * Len(l.todo) - 3)
        BY <1>1, <1>3, <2>1, <2>6, NextToolLands
      <3>2. Lands(p, w)
        BY <1>4, <2>2, <3>1, LandsSooner
      <3> QED  BY <2>3, <3>2
    <2>7. CASE CloseAs(p, l, "failed")
      <3> HIDE DEF w
      <3>1. Lands(p, w)  BY <1>1, <1>3, <2>4, <2>7, CloseLands DEF Closed
      <3> QED  BY <2>3, <3>1
    <2> QED  BY <1>7, <2>5, <2>6, <2>7 DEF RunTool
  <1>8. CASE CallModel(p)
    <2>1. StepsLeft(pc[p], l) = TurnsLeft(l) /\ MoreSteps(l)
      BY <1>3, <1>8, StepsAt DEF CallModel
    <2>2. PICK hasText \in BOOLEAN, calls \in ToolLists :
            LET n == [loc[p] EXCEPT !.step = @ + 1, !.todo = calls,
                                    !.text = @ \/ hasText] IN
            \/ calls # <<>> /\ Proceed(p, n, "tools")
            \/ calls = <<>> /\ BeginSend(p, n, "auto")
            \/ calls = <<>> /\ CloseAs(p, n, "completed")
      BY <1>8 DEF CallModel
    <2> DEFINE n == [l EXCEPT !.step = @ + 1, !.todo = calls,
                              !.text = @ \/ hasText]
    <2>3. calls \in Seq(Tools) /\ Len(calls) \in 0..MaxTools
      <3>1. PICK k \in 0..MaxTools : calls \in [1..k -> Tools]
        BY DEF ToolLists
      <3>2. Len(calls) = k  BY <3>1, ConstantsOK DEF ConstantsOK
      <3> QED  BY <3>1, <3>2, ToolListsAreSeqs
    <2>4. n \in Locals /\ n.step = l.step + 1 /\ n.todo = calls
      <3>1. l.step + 1 \in Nat  BY <1>1
      <3>2. (l.text \/ hasText) \in BOOLEAN  OBVIOUS
      <3> QED  BY <1>1, <2>3, <3>1, <3>2 DEF Locals
    <2>5. \/ Proceed(p, n, "tools")
          \/ BeginSend(p, n, "auto")
          \/ CloseAs(p, n, "completed")
      BY <2>2
    <2> HIDE DEF n
    <2>6. n.step <= MaxSteps
      BY <1>1, <2>1, <2>4, ConstantsOK DEF MoreSteps, ConstantsOK
    <2>7. TurnsLeft(n) \in Nat /\ TurnsLeft(n) >= 3
      BY <2>4, <2>6, TurnCounts
    <2>8. TurnsLeft(l) = TurnsLeft(n) + 3 * MaxTools + 3
      BY <1>1, <1>3, <2>4, TurnCounts
    <2> DEFINE w == TurnsLeft(l) - 1
    <2>9. w \in Int /\ w >= TurnsLeft(n) + 2 /\ w >= TurnsLeft(n) + 3 * Len(calls)
      BY <2>3, <2>7, <2>8, ConstantsOK DEF ConstantsOK
    <2> HIDE DEF w
    <2>10. CASE Proceed(p, n, "tools")
      <3>1. StepsLeft("tools", n) = TurnsLeft(n) + 3 * Len(calls)
        BY <2>4, StepsAt
      <3>2. StepsLeft("tools", n) \in 0..w  BY <2>3, <2>7, <2>9, <3>1
      <3>3. TurnFits("tools", n)  BY <2>6 DEF TurnFits
      <3>4. Lands(p, w)
        BY <2>4, <2>9, <2>10, <3>2, <3>3, ProceedLands DEF PC, Locked, Working
      <3> QED  BY <2>1, <3>4 DEF w
    <2>11. CASE BeginSend(p, n, "auto")
      <3>1. Lands(p, TurnsLeft(n) + 2)
        BY <2>4, <2>6, <2>11, BeginSendLands DEF SendWeight
      <3>2. Lands(p, w)  BY <2>7, <2>9, <3>1, LandsSooner
      <3> QED  BY <2>1, <3>2 DEF w
    <2>12. CASE CloseAs(p, n, "completed")
      <3>1. w >= 2  BY <2>7, <2>9
      <3>2. Lands(p, w)
        BY <2>4, <2>6, <2>9, <2>12, <3>1, CloseLands DEF Closed
      <3> QED  BY <2>1, <3>2 DEF w
    <2> QED  BY <2>5, <2>10, <2>11, <2>12
  <1> QED  BY <1>5, <1>6, <1>7, <1>8

LEMMA SendLands ==
    ASSUME OwnInv, TurnsFit, NEW p \in Call,
           \/ ProviderAccepts(p) \/ ProviderFails(p) \/ Enqueue(p)
           \/ EnqueueFails(p) \/ NoRuntime(p) \/ Record(p) \/ RecordFails(p)
    PROVE  Lands(p, StepsLeft(pc[p], loc[p]) - 1)
  <1> DEFINE l == loc[p]
  <1>1. l \in Locals /\ l.todo \in Seq(Tools)  BY DEF OwnInv, TypeOK, Locals
  <1>2. pc[p] \in {"send", "record"}
    BY DEF ProviderAccepts, ProviderFails, Enqueue, EnqueueFails, NoRuntime,
           Record, RecordFails
  <1>3. /\ l.step <= MaxSteps
        /\ l.sending = "pong" => MoreSteps(l)
    BY <1>2 DEF TurnsFit, TurnFits
  <1>4. l.sending = "tool" => l.todo # <<>>
    BY <1>2 DEF OwnInv, LocalsFit
  <1>5. TurnsLeft(l) \in Nat /\ TurnsLeft(l) >= 3  BY <1>1, <1>3, TurnCounts
  <1>6. /\ Len(l.todo) \in Nat
        /\ l.sending = "tool" => Len(l.todo) >= 1
    BY <1>1, <1>4
  <1>7. /\ SendWeight(l, l.sending) \in Nat
        /\ SendWeight(l, l.sending) =
             IF l.sending = "tool" THEN 3 * Len(l.todo) - 1 ELSE 2
    BY <1>6 DEF SendWeight
  <1> DEFINE w == TurnsLeft(l) + SendWeight(l, l.sending) - 1
  <1>8. /\ StepsLeft("send", l) - 1 = w
        /\ StepsLeft("record", l) = w /\ StepsLeft("record", l) - 1 = w - 1
    <2>1. /\ StepsLeft("send", l) = TurnsLeft(l) + SendWeight(l, l.sending)
          /\ StepsLeft("record", l) = TurnsLeft(l) + SendWeight(l, l.sending) - 1
      BY StepsAt
    <2> HIDE DEF l
    <2> QED  BY <1>5, <1>7, <2>1
  <1>9. w \in Int /\ w >= 3
    <2>1. SendWeight(l, l.sending) >= 2  BY <1>6, <1>7
    <2> QED  BY <1>5, <1>7, <2>1
  <1> HIDE DEF l, w
  \* One attempt to hand the reply over was the last of toolSend.
  <1>10. ASSUME \/ SendOk(p, l)
                \/ \E unavailable \in BOOLEAN : SendFailed(p, l, unavailable)
         PROVE  Lands(p, w - 1) /\ Lands(p, w)
    <2>1. IF l.sending = "tool"
            THEN Lands(p, TurnsLeft(l) + 3 * Len(l.todo) - 3)
            ELSE Lands(p, 2) \/ Lands(p, TurnsLeft(l))
      BY <1>1, <1>3, <1>4, <1>10, SendOkLands, SendFailedLands
    <2>2. CASE l.sending = "tool"
      <3>1. TurnsLeft(l) + 3 * Len(l.todo) - 3 \in Int
            /\ TurnsLeft(l) + 3 * Len(l.todo) - 3 <= w - 1
        BY <1>5, <1>6, <1>7, <2>2 DEF w
      <3> QED  BY <1>9, <2>1, <2>2, <3>1, LandsSooner
    <2>3. CASE l.sending # "tool"
      <3>1. 2 <= w - 1 /\ TurnsLeft(l) <= w - 1
        BY <1>5, <1>6, <1>7, <2>3 DEF w
      <3> QED  BY <1>5, <1>9, <2>1, <2>3, <3>1, LandsSooner
    <2> QED  BY <2>2, <2>3
  <1>11. CASE ProviderAccepts(p)
    <2>1. Proceed(p, l, "record") /\ pc[p] = "send"
      BY <1>11 DEF ProviderAccepts, l
    <2>2. StepsLeft("record", l) \in 0..w  BY <1>8, <1>9
    <2>3. TurnFits("record", l)  BY <1>3 DEF TurnFits
    <2>4. Lands(p, w)
      BY <1>1, <1>9, <2>1, <2>2, <2>3, ProceedLands DEF PC, Locked, Working
    <2> QED  BY <1>8, <2>1, <2>4 DEF l
  <1>12. CASE \/ ProviderFails(p) \/ Enqueue(p) \/ EnqueueFails(p)
              \/ NoRuntime(p) \/ Record(p) \/ RecordFails(p)
    <2>1. \/ SendOk(p, l)
          \/ \E unavailable \in BOOLEAN : SendFailed(p, l, unavailable)
      BY <1>12
      DEF ProviderFails, Enqueue, EnqueueFails, NoRuntime, Record, RecordFails, l
    <2>2. Lands(p, w - 1) /\ Lands(p, w)  BY <1>10, <2>1
    <2> QED  BY <1>2, <1>8, <2>2 DEF l
  <1> QED  BY <1>11, <1>12

\* Steps that leave the locals alone.
LEMMA OutsideLands ==
    ASSUME OwnInv, TurnsFit, NEW p \in Call,
           \/ AcquireLock(p) \/ LockFails(p) \/ StartRun(p) \/ AlreadyStarted(p)
           \/ StartRunFails(p) \/ Finish(p) \/ Unlock(p) \/ Die(p)
    PROVE  Lands(p, StepsLeft(pc[p], loc[p]) - 1)
  <1> DEFINE l == loc[p]
  <1>1. l \in Locals /\ l.todo \in Seq(Tools) /\ loc' = [loc EXCEPT ![p] = l]
    <2>1. loc' = loc
      BY DEF AcquireLock, LockFails, StartRun, AlreadyStarted, StartRunFails,
             Finish, Unlock, Die
    <2> QED  BY <2>1 DEF OwnInv, TypeOK, Locals
  <1>2. TurnFits(pc[p], l)  BY DEF TurnsFit
  <1>3. TurnsLeft(l) \in Nat /\ TurnsLeft(l) >= 3
    BY <1>1, <1>2, TurnCounts DEF TurnFits
  <1>4. ASSUME NEW place \in PC, pc' = [pc EXCEPT ![p] = place],
               TurnFits(place, l), NEW n \in Int,
               StepsLeft(place, l) \in 0..(n - 1)
        PROVE  Lands(p, n - 1)
    <2>1. Proceed(p, l, place) /\ n - 1 \in Int  BY <1>1, <1>4 DEF Proceed
    <2> HIDE DEF l
    <2> QED  BY <1>1, <1>4, <2>1, ProceedLands
  <1>5. TurnFits("unlock", l) /\ TurnFits("done", l) /\ TurnFits("dead", l)
    BY <1>2 DEF TurnFits
  <1>6. /\ "unlock" \in PC /\ "done" \in PC /\ "dead" \in PC /\ "start" \in PC
        /\ "list" \in PC
    BY DEF PC, Locked, Working
  <1>7. CASE AcquireLock(p)
    <2>1. pc[p] = "lock" /\ pc' = [pc EXCEPT ![p] = "start"]
      BY <1>7 DEF AcquireLock
    <2>2. TurnFits("start", l)  BY <1>2, <2>1 DEF TurnFits
    <2>3. /\ StepsLeft(pc[p], l) = TurnsLeft(l) + 5
          /\ StepsLeft("start", l) = TurnsLeft(l) + 4
      BY <2>1, StepsAt
    <2> HIDE DEF l
    <2>4. /\ StepsLeft(pc[p], l) \in Int
          /\ StepsLeft("start", l) \in 0..(StepsLeft(pc[p], l) - 1)
      BY <1>3, <2>3
    <2> QED  BY <1>4, <1>6, <2>1, <2>2, <2>4 DEF l
  <1>8. CASE LockFails(p)
    <2>1. pc[p] = "lock" /\ pc' = [pc EXCEPT ![p] = "done"]
      BY <1>8 DEF LockFails
    <2>2. StepsLeft(pc[p], l) = TurnsLeft(l) + 5 /\ StepsLeft("done", l) = 0
      BY <2>1, StepsAt
    <2> HIDE DEF l
    <2>3. /\ StepsLeft(pc[p], l) \in Int
          /\ StepsLeft("done", l) \in 0..(StepsLeft(pc[p], l) - 1)
      BY <1>3, <2>2
    <2> QED  BY <1>4, <1>5, <1>6, <2>1, <2>3 DEF l
  <1>9. CASE StartRun(p)
    <2>1. pc[p] = "start" /\ pc' = [pc EXCEPT ![p] = "list"]
      BY <1>9 DEF StartRun
    <2>2. TurnFits("list", l)  BY <1>2, <2>1 DEF TurnFits
    <2>3. /\ StepsLeft(pc[p], l) = TurnsLeft(l) + 4
          /\ StepsLeft("list", l) = TurnsLeft(l) + 3
      BY <2>1, StepsAt
    <2> HIDE DEF l
    <2>4. /\ StepsLeft(pc[p], l) \in Int
          /\ StepsLeft("list", l) \in 0..(StepsLeft(pc[p], l) - 1)
      BY <1>3, <2>3
    <2> QED  BY <1>4, <1>6, <2>1, <2>2, <2>4 DEF l
  <1>10. CASE AlreadyStarted(p) \/ StartRunFails(p) \/ Finish(p)
    <2>1. pc[p] \in {"start", "finish"} /\ pc' = [pc EXCEPT ![p] = "unlock"]
      BY <1>10 DEF AlreadyStarted, StartRunFails, Finish
    <2>2. /\ StepsLeft(pc[p], l) \in Nat /\ StepsLeft(pc[p], l) >= 2
          /\ StepsLeft("unlock", l) = 1
      BY <1>3, <2>1, StepsAt
    <2> HIDE DEF l
    <2>3. /\ StepsLeft(pc[p], l) \in Int
          /\ StepsLeft("unlock", l) \in 0..(StepsLeft(pc[p], l) - 1)
      BY <2>2
    <2> QED  BY <1>4, <1>5, <1>6, <2>1, <2>3 DEF l
  <1>11. CASE Unlock(p)
    <2>1. pc[p] = "unlock" /\ pc' = [pc EXCEPT ![p] = "done"]
      BY <1>11 DEF Unlock
    <2>2. StepsLeft(pc[p], l) = 1 /\ StepsLeft("done", l) = 0
      BY <2>1, StepsAt
    <2> HIDE DEF l
    <2>3. /\ StepsLeft(pc[p], l) \in Int
          /\ StepsLeft("done", l) \in 0..(StepsLeft(pc[p], l) - 1)
      BY <2>2
    <2> QED  BY <1>4, <1>5, <1>6, <2>1, <2>3 DEF l
  <1>12. CASE Die(p)
    <2>1. pc[p] \in Locked \cup {"lock"} /\ pc' = [pc EXCEPT ![p] = "dead"]
      BY <1>12 DEF Die
    <2>2. StepsLeft(pc[p], l) \in Nat /\ StepsLeft(pc[p], l) >= 1
      <3>1. Len(l.todo) \in Nat  BY <1>1
      <3>2. pc[p] \in {"send", "record"} /\ l.sending = "tool" => Len(l.todo) >= 1
        BY <1>1 DEF OwnInv, LocalsFit
      <3>3. pc[p] \in {"send", "record"}
              => SendWeight(l, l.sending) \in Nat /\ SendWeight(l, l.sending) >= 2
        BY <3>1, <3>2 DEF SendWeight
      <3> HIDE DEF l
      <3>4. CASE pc[p] \in {"send", "record"}
        BY <1>3, <3>3, <3>4, StepsAt
      <3>5. CASE pc[p] = "tools"  BY <1>3, <3>1, <3>5, StepsAt
      <3>6. CASE pc[p] \in {"lock", "start", "list", "model", "finish", "unlock"}
        BY <1>3, <3>6, StepsAt
      <3> QED  BY <2>1, <3>4, <3>5, <3>6 DEF Locked, Working
    <2>3. StepsLeft("dead", l) = 0  BY StepsAt
    <2> HIDE DEF l
    <2>4. /\ StepsLeft(pc[p], l) \in Int
          /\ StepsLeft("dead", l) \in 0..(StepsLeft(pc[p], l) - 1)
      BY <2>2, <2>3
    <2> QED  BY <1>4, <1>5, <1>6, <2>1, <2>4 DEF l
  <1> QED  BY <1>7, <1>8, <1>9, <1>10, <1>11, <1>12

LEMMA NextLands ==
    ASSUME OwnInv, TurnsFit, [Next]_vars
    PROVE  \/ UNCHANGED <<pc, loc>>
           \/ \E p \in Call : Lands(p, StepsLeft(pc[p], loc[p]) - 1)
           \/ \E p \in Call : /\ pc[p] = "idle" /\ UNCHANGED loc
                             /\ pc' = [pc EXCEPT ![p] = "lock"]
  <1>1. CASE UNCHANGED vars  BY <1>1 DEF vars
  <1>2. CASE \/ DeliverJob \/ \E m \in Msg : Arrive(m) \/ Commit(m)
             \/ \E p \in Call : ContextDone(p) \/ LoseSession(p)
    BY <1>2 DEF DeliverJob, Arrive, Commit, ContextDone, LoseSession
  <1>3. ASSUME NEW p \in Call, NEW m \in Msg, Begin(p, m)
        PROVE  /\ pc[p] = "idle" /\ UNCHANGED loc
               /\ pc' = [pc EXCEPT ![p] = "lock"]
    BY <1>3 DEF Begin
  <1>4. ASSUME NEW p \in Call, Die(p) \/ LockFails(p) \/ NoRuntime(p) \/ Step(p)
        PROVE  Lands(p, StepsLeft(pc[p], loc[p]) - 1)
    BY <1>4, LoopLands, SendLands, OutsideLands DEF Step
  <1> QED  BY <1>1, <1>2, <1>3, <1>4 DEF Next

LEMMA NextTurnsFit ==
    ASSUME OwnInv, TurnsFit, [Next]_vars
    PROVE  TurnsFit'
  <1>1. CASE UNCHANGED <<pc, loc>>  BY <1>1 DEF TurnsFit
  <1>2. ASSUME NEW p \in Call, Lands(p, StepsLeft(pc[p], loc[p]) - 1)
        PROVE  TurnsFit'
    BY <1>2 DEF Lands, TurnsFit, OwnInv, TypeOK
  <1>3. ASSUME NEW p \in Call, pc[p] = "idle", UNCHANGED loc,
               pc' = [pc EXCEPT ![p] = "lock"]
        PROVE  TurnsFit'
    <2>1. TurnFits("lock", loc[p])  BY <1>3 DEF TurnsFit, TurnFits
    <2> QED  BY <1>3, <2>1 DEF TurnsFit, OwnInv, TypeOK
  <1> QED  BY <1>1, <1>2, <1>3, NextLands

\* No run asks the model more than MaxSteps times.
THEOREM TurnsFitHolds == Spec => []TurnsFit
  <1>1. Init => TurnsFit
    BY ConstantsOK
    DEF Init, TurnsFit, TurnFits, MoreSteps, NoLocals, ConstantsOK
  <1>2. OwnInv /\ TurnsFit /\ [Next]_vars => TurnsFit'  BY NextTurnsFit
  <1> QED  BY <1>1, <1>2, OwnInvariant, PTL DEF Spec

\* Whatever a call does brings its end nearer: a call that is not kept
\* waiting returns within StepsLeft steps, for any limit of steps and any
\* number of tools in a response.
THEOREM CallsWindDownHolds == Spec => CallsWindDown
  <1> DEFINE Down(p) ==
        pc[p] # "idle" /\ <<pc'[p], loc'[p]>> # <<pc[p], loc[p]>>
          => StepsLeft(pc'[p], loc'[p]) \in 0..(StepsLeft(pc[p], loc[p]) - 1)
  <1>1. ASSUME OwnInv, TurnsFit, [Next]_vars, NEW q \in Call PROVE Down(q)
    <2>1. CASE UNCHANGED <<pc, loc>>  BY <2>1
    <2>2. ASSUME NEW p \in Call, Lands(p, StepsLeft(pc[p], loc[p]) - 1)
          PROVE  Down(q)
      <3>1. PICK place \in PC, l \in Locals :
              /\ pc' = [pc EXCEPT ![p] = place] /\ loc' = [loc EXCEPT ![p] = l]
              /\ StepsLeft(place, l) \in 0..(StepsLeft(pc[p], loc[p]) - 1)
        BY <2>2 DEF Lands
      <3>2. pc \in [Call -> PC] /\ loc \in [Call -> Locals]
        BY <1>1 DEF OwnInv, TypeOK
      <3>3. CASE q = p
        <4>1. pc'[q] = place /\ loc'[q] = l  BY <3>1, <3>2, <3>3
        <4> QED  BY <3>1, <3>3, <4>1
      <3>4. CASE q # p
        <4>1. pc'[q] = pc[q] /\ loc'[q] = loc[q]  BY <3>1, <3>2, <3>4
        <4> QED  BY <4>1
      <3> QED  BY <3>3, <3>4
    <2>3. ASSUME NEW p \in Call, pc[p] = "idle", UNCHANGED loc,
                 pc' = [pc EXCEPT ![p] = "lock"]
          PROVE  Down(q)
      <3>1. q = p \/ (pc'[q] = pc[q] /\ loc'[q] = loc[q])
        BY <1>1, <2>3 DEF OwnInv, TypeOK
      <3> QED  BY <2>3, <3>1
    <2> QED  BY <1>1, <2>1, <2>2, <2>3, NextLands
  <1>2. OwnInv /\ TurnsFit /\ [Next]_vars => [\A p \in Call : Down(p)]_vars
    BY <1>1
  <1> QED
    BY <1>2, OwnInvariant, TurnsFitHolds, PTL DEF Spec, CallsWindDown
=============================================================================
