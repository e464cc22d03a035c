--------------------------- MODULE IssuesProofs ---------------------------
(* Reports of a bug make one open issue and are each counted once: proofs  *)
(* for any number of reports, conversations, texts and hashes.             *)
EXTENDS Issues, FiniteSetTheorems, TLAPS

USE IssueConstants

\* What a report does to the table, with whichever statement.
Counts(p, i) ==
    /\ counted' = [counted EXCEPT ![p] = i]
    /\ issue' = [issue EXCEPT ![i] =
         Row(req[p].hash,
             IF issue[i].status = "none" THEN "open" ELSE issue[i].status,
             issue[i].count + 1, req[p].conv)]

\* The fields of an issue.
LEMMA IssueFields ==
    ASSUME TypeOK, NEW i \in Report
    PROVE  /\ issue[i].hash \in Hash \cup {None}
           /\ issue[i].status \in {"none", "open", "closed"}
           /\ issue[i].count \in Nat /\ issue[i].conv \in Conversation \cup {None}
           /\ issue[i] = [hash |-> issue[i].hash, status |-> issue[i].status,
                          count |-> issue[i].count, conv |-> issue[i].conv]
  BY DEF TypeOK

\* The issue of a report is one that is there, or one of its own.
LEMMA UpsertCounts ==
    ASSUME IssueInv, NEW p \in Report, pc[p] = "insert",
           NEW i \in Report, Upsert(p, i)
    PROVE  /\ Counts(p, i)
           /\ issue[i].status = "none" => i = p /\ Conflicts(p) = {}
           /\ issue[i].status # "none" => i \in Conflicts(p)
           /\ issue[p].status = "none" /\ issue[p].count = 0
  <1>1. TypeOK /\ Fits /\ issue \in [Report -> [hash : Hash \cup {None},
                             status : {"none", "open", "closed"},
                             count : Nat, conv : Conversation \cup {None}]]
    BY DEF IssueInv, TypeOK
  <1>2. issue[p].status = "none" /\ issue[p].count = 0
    BY <1>1 DEF Fits, NoIssue, Row
  <1>3. CASE Conflicts(p) = {}
    <2>1. i = p /\ Insert(p) /\ counted' = [counted EXCEPT ![p] = i]
      BY <1>3 DEF Upsert
    <2>2. issue[i].status = "none" /\ issue[i].count + 1 = 1  BY <1>2, <2>1
    <2> QED  BY <1>2, <1>3, <2>1, <2>2 DEF Counts, Insert
  <1>4. CASE Conflicts(p) # {}
    <2>1. i \in Conflicts(p) /\ Bump(i, p) /\ counted' = [counted EXCEPT ![p] = i]
      BY <1>4 DEF Upsert
    <2>2. issue[i].status = "open" /\ issue[i].hash = req[p].hash
      BY <2>1 DEF Conflicts
    <2>3. issue' = [issue EXCEPT ![i] =
             Row(issue[i].hash, issue[i].status, issue[i].count + 1, req[p].conv)]
      BY <1>1, <2>1 DEF Bump
    <2> QED  BY <1>2, <2>1, <2>2, <2>3 DEF Counts
  <1> QED  BY <1>3, <1>4

LEMMA UpdateCounts ==
    ASSUME IssueInv, NEW p \in Report, pc[p] = "update", Update(p)
    PROVE  /\ seen[p].id \in Report /\ Counts(p, seen[p].id)
           /\ issue[seen[p].id].status # "none"
  <1>1. TypeOK /\ Fits  BY DEF IssueInv
  <1> DEFINE i == seen[p].id
  <1>2. /\ i \in Report /\ issue[i].status # "none"
        /\ issue[i].hash = req[p].hash
    BY <1>1 DEF Fits
  <1>3. issue' = [issue EXCEPT ![i] =
           Row(issue[i].hash, issue[i].status, issue[i].count + 1, req[p].conv)]
    BY <1>1, <1>2 DEF Update, Bump
  <1> QED  BY <1>2, <1>3 DEF Counts, Update

\* A report that counts, and what it is told.
Told(p, i) ==
    /\ pc[p] \in {"insert", "update"}
    /\ Counts(p, i)
    /\ Goto(p, "done")
    /\ pc[p] = "insert" =>
         /\ issue[p].status = "none" /\ issue[p].count = 0
         /\ issue[i].status = "none" => i = p /\ Conflicts(p) = {}
         /\ issue[i].status # "none" => i \in Conflicts(p)
    /\ pc[p] = "update" => i = seen[p].id /\ issue[i].status # "none"
    /\ \/ result' = [result EXCEPT ![p] = Failed]
       \/ /\ pc[p] = "insert"
          /\ result' = [result EXCEPT ![p] = Answer(i, i = p, issue'[i].count)]
       \/ /\ pc[p] = "update"
          /\ result' = [result EXCEPT ![p] = Answer(i, FALSE, seen[p].count + 1)]
    /\ UNCHANGED <<infers, req, seen>>

\* A step of a report that leaves the table alone.
Quiet(p) ==
    \/ \E conv \in Conversation, text \in Text, given \in Hash \cup {None} :
         Call(p, conv, text, given)
    \/ CannotInfer(p) \/ Find(p) \/ Fails(p)

LEMMA Steps ==
    ASSUME IssueInv, [Next]_vars
    PROVE  \/ \E p, i \in Report : Told(p, i)
           \/ \E p \in Report : Quiet(p)
           \/ \E i \in Report : Close(i)
           \/ UNCHANGED <<issue, pc, req, seen, counted, result>>
              /\ infers' \in {infers, FALSE}
  <1>1. ASSUME NEW p \in Report, Upserted(p) \/ UpsertLost(p)
        PROVE  \E i \in Report : Told(p, i)
    <2>1. PICK i \in Report : /\ Upsert(p, i)
                              /\ \/ Return(p, Answer(i, i = p, issue'[i].count))
                                 \/ Return(p, Failed)
      BY <1>1 DEF Upserted, UpsertLost
    <2>2. pc[p] = "insert" /\ UNCHANGED <<infers, req, seen>>
      BY <1>1 DEF Upserted, UpsertLost
    <2>3. Told(p, i)  BY <2>1, <2>2, UpsertCounts DEF Told, Return
    <2> QED  BY <2>3
  <1>2. ASSUME NEW p \in Report, Updated(p) \/ UpdateLost(p)
        PROVE  \E i \in Report : Told(p, i)
    <2>1. /\ pc[p] = "update" /\ Update(p) /\ UNCHANGED <<infers, req, seen>>
          /\ \/ Return(p, Answer(seen[p].id, FALSE, seen[p].count + 1))
             \/ Return(p, Failed)
      BY <1>2 DEF Updated, UpdateLost
    <2>2. seen[p].id \in Report /\ Told(p, seen[p].id)
      BY <2>1, UpdateCounts DEF Told, Return
    <2> QED  BY <2>2
  <1>3. ASSUME NEW p \in Report, Quiet(p) PROVE \E q \in Report : Quiet(q)
    BY <1>3
  <1> QED  BY <1>1, <1>2 DEF Next, Step, Quiet, MoveDatabase, vars

-----------------------------------------------------------------------------
(* The invariant.                                                          *)

Issues == [hash : Hash \cup {None}, status : {"none", "open", "closed"},
           count : Nat, conv : Conversation \cup {None}]
Results == [kind : {"none", "ok", "failed"}, id : Report \cup {None},
            created : BOOLEAN, count : Nat]

LEMMA Types ==
    ASSUME TypeOK
    PROVE  /\ infers \in BOOLEAN /\ issue \in [Report -> Issues]
           /\ pc \in [Report -> {"idle", "insert", "find", "update", "done"}]
           /\ req \in [Report -> [conv : Conversation \cup {None},
                                  hash : Hash \cup {None}]]
           /\ seen \in [Report -> [id : Report \cup {None}, count : Nat]]
           /\ counted \in [Report -> Report \cup {None}]
           /\ result \in [Report -> Results]
  BY DEF TypeOK, Issues, Results

\* What a report that counts found, and what it leaves.
LEMMA ToldEffect ==
    ASSUME IssueInv, NEW p \in Report, NEW i \in Report, Told(p, i)
    PROVE  /\ counted[p] = None /\ result[p] = NoResult /\ issue[p] = NoIssue
           /\ req[p].hash \in Hash
           /\ pc' = [pc EXCEPT ![p] = "done"]
           /\ counted' = [counted EXCEPT ![p] = i]
           /\ issue'[i] = Row(req[p].hash,
                  IF issue[i].status = "none" THEN "open" ELSE issue[i].status,
                  issue[i].count + 1, req[p].conv)
           /\ issue' \in [Report -> Issues]
           /\ issue'[i].count = issue[i].count + 1 /\ issue'[i].count \in Nat
           /\ issue'[i].hash = req[p].hash /\ issue'[i].status # "none"
           /\ \A j \in Report : j # i => issue'[j] = issue[j]
           /\ issue[i].status # "none" => issue[i].hash = req[p].hash
           /\ issue[i].status # "none" => issue'[i].status = issue[i].status
           /\ issue[i].status = "none" => i = p /\ pc[p] = "insert"
           /\ UNCHANGED <<infers, req, seen>>
  <1>1. TypeOK /\ Fits  BY DEF IssueInv
  <1>2. /\ counted[p] = None /\ result[p] = NoResult /\ issue[p] = NoIssue
        /\ req[p].hash \in Hash
    BY <1>1 DEF Told, Fits
  <1>3. /\ issue[i] \in Issues /\ issue[i].count \in Nat
        /\ issue[i].status \in {"none", "open", "closed"}
        /\ req[p].conv \in Conversation \cup {None}
    BY <1>1, Types DEF Issues
  <1> DEFINE r == Row(req[p].hash,
                  IF issue[i].status = "none" THEN "open" ELSE issue[i].status,
                  issue[i].count + 1, req[p].conv)
  <1>4. /\ r \in Issues /\ r.count = issue[i].count + 1
        /\ r.hash = req[p].hash /\ r.status # "none"
        /\ issue[i].status # "none" => r.status = issue[i].status
    BY <1>2, <1>3 DEF Row, Issues
  <1>5. issue' = [issue EXCEPT ![i] = r]  BY DEF Told, Counts
  <1>6. issue[i].status # "none" => issue[i].hash = req[p].hash
    BY <1>1 DEF Told, Conflicts, Fits
  <1>7. issue[i].status = "none" => i = p /\ pc[p] = "insert"
    BY DEF Told
  <1>8. /\ issue'[i] = r /\ issue' \in [Report -> Issues]
        /\ \A j \in Report : j # i => issue'[j] = issue[j]
    <2> HIDE DEF r
    <2> QED  BY <1>1, <1>4, <1>5, Types
  <1>9. /\ pc' = [pc EXCEPT ![p] = "done"]
        /\ counted' = [counted EXCEPT ![p] = i]
        /\ UNCHANGED <<infers, req, seen>>
    BY DEF Told, Counts, Goto
  <1> QED  BY <1>2, <1>3, <1>4, <1>6, <1>7, <1>8, <1>9

\* What a report is told.
LEMMA ToldResult ==
    ASSUME IssueInv, NEW p \in Report, NEW i \in Report, Told(p, i)
    PROVE  /\ result' \in [Report -> Results]
           /\ \A q \in Report : q # p => result'[q] = result[q]
           /\ result'[p].kind = "ok" =>
                /\ result'[p].id = i /\ result'[p].count \in 1..issue'[i].count
                /\ pc[p] = "insert" => result'[p].count = issue'[i].count
           /\ result'[p].created => i = p /\ result'[p].id = p
                                   /\ result'[p].count = 1
           /\ result'[p].kind # "none"
  <1>1. TypeOK /\ Fits  BY DEF IssueInv
  <1>2. issue'[i].count = issue[i].count + 1 /\ issue[i].count \in Nat
    BY <1>1, ToldEffect, Types DEF Issues
  <1>3. CASE result' = [result EXCEPT ![p] = Failed]
    <2>1. /\ Failed \in Results /\ Failed.kind = "failed"
          /\ Failed.created = FALSE
      BY DEF Failed, NoResult, Results
    <2> QED  BY <1>1, <1>3, <2>1, Types
  <1>4. CASE /\ pc[p] = "insert"
             /\ result' = [result EXCEPT ![p] = Answer(i, i = p, issue'[i].count)]
    <2>1. i = p => issue'[i].count = 1
      BY <1>2, <1>4 DEF Told
    <2>2. PICK b \in BOOLEAN : b = (i = p)  OBVIOUS
    <2>3. PICK r : r = Answer(i, b, issue'[i].count)  OBVIOUS
    <2>4. /\ r \in Results /\ r.kind = "ok" /\ r.id = i /\ r.created = b
          /\ r.count = issue'[i].count
      BY <1>2, <2>3 DEF Answer, Results
    <2>5. result' = [result EXCEPT ![p] = r]  BY <1>4, <2>2, <2>3
    <2>6. /\ result' \in [Report -> Results] /\ result'[p] = r
          /\ \A q \in Report : q # p => result'[q] = result[q]
      BY <1>1, <2>4, <2>5, Types
    <2>7. issue'[i].count \in 1..issue'[i].count  BY <1>2
    <2>8. r.created => i = p  BY <2>2, <2>4
    <2> QED  BY <2>1, <2>4, <2>6, <2>7, <2>8
  <1>5. CASE /\ pc[p] = "update"
             /\ result' = [result EXCEPT ![p] = Answer(i, FALSE, seen[p].count + 1)]
    <2>1. seen[p].count <= issue[i].count /\ seen[p].count \in Nat
      BY <1>1, <1>5, Types DEF Told, Fits
    <2>2. /\ Answer(i, FALSE, seen[p].count + 1) \in Results
          /\ result'[p] = Answer(i, FALSE, seen[p].count + 1)
      BY <1>1, <1>5, <2>1, Types DEF Answer, Results
    <2> QED  BY <1>1, <1>2, <1>5, <2>1, <2>2, Types DEF Answer
  <1> QED  BY <1>3, <1>4, <1>5 DEF Told

LEMMA TypeStep == ASSUME IssueInv, [Next]_vars PROVE TypeOK'
  <1>t. TypeOK /\ Fits  BY DEF IssueInv
  <1> USE DEF Issues, Results
  <1>1. ASSUME NEW p \in Report, NEW i \in Report, Told(p, i) PROVE TypeOK'
    <2>1. /\ issue' \in [Report -> Issues] /\ result' \in [Report -> Results]
          /\ pc' = [pc EXCEPT ![p] = "done"]
          /\ counted' = [counted EXCEPT ![p] = i] /\ UNCHANGED <<infers, req, seen>>
      BY <1>1, ToldEffect, ToldResult
    <2> QED  BY <1>t, <2>1 DEF TypeOK
  <1>2. ASSUME NEW p \in Report, Quiet(p) PROVE TypeOK'
    <2>1. ASSUME NEW conv \in Conversation, NEW text \in Text,
                 NEW given \in Hash \cup {None}, Call(p, conv, text, given)
          PROVE  TypeOK'
      <3>1. (IF given # None THEN given ELSE Digest[text]) \in Hash  OBVIOUS
      <3> QED  BY <1>t, <2>1, <3>1 DEF Call, Goto, TypeOK
    <2>2. CASE CannotInfer(p)  BY <1>t, <2>2 DEF CannotInfer, Goto, TypeOK
    <2>3. CASE Find(p)
      <3>1. PICK i \in Report :
              seen' = [seen EXCEPT ![p] = [id |-> i, count |-> issue[i].count]]
        BY <2>3 DEF Find, Conflicts
      <3>2. [id |-> i, count |-> issue[i].count]
              \in [id : Report \cup {None}, count : Nat]
        BY <1>t DEF TypeOK
      <3>3. seen' \in [Report -> [id : Report \cup {None}, count : Nat]]
        BY <1>t, <3>1, <3>2 DEF TypeOK
      <3> QED  BY <1>t, <2>3, <3>3 DEF Find, Goto, TypeOK
    <2>4. CASE Fails(p)
      <3>1. Failed \in Results  BY DEF Failed, NoResult
      <3> QED  BY <1>t, <2>4, <3>1 DEF Fails, Return, Goto, TypeOK
    <2> QED  BY <1>2, <2>1, <2>2, <2>3, <2>4 DEF Quiet
  <1>3. ASSUME NEW i \in Report, Close(i) PROVE TypeOK'
    <2>1. PICK r : r = Row(issue[i].hash, "closed", issue[i].count, issue[i].conv)
      OBVIOUS
    <2>2. r \in Issues  BY <1>t, <2>1, IssueFields DEF Row
    <2>3. issue' = [issue EXCEPT ![i] = r]  BY <1>3, <2>1 DEF Close
    <2>4. issue' \in [Report -> Issues]  BY <1>t, <2>2, <2>3, Types
    <2> QED  BY <1>t, <1>3, <2>4 DEF Close, TypeOK
  <1>4. CASE UNCHANGED <<issue, pc, req, seen, counted, result>>
             /\ infers' \in {infers, FALSE}
    BY <1>t, <1>4 DEF TypeOK
  <1> QED  BY <1>1, <1>2, <1>3, <1>4, Steps

\* A step of a report that leaves the table alone, as the invariant sees it.
QuietMove(p) ==
    /\ UNCHANGED <<issue, counted>>
    /\ pc[p] # "done"
    /\ pc' = [pc EXCEPT ![p] = pc'[p]]
    /\ \/ UNCHANGED result /\ pc'[p] # "done"
       \/ result' = [result EXCEPT ![p] = Failed] /\ pc'[p] = "done"
    /\ pc'[p] # "idle" /\ req'[p].hash \in Hash
    /\ \A q \in Report : q # p => req'[q] = req[q] /\ seen'[q] = seen[q]
    /\ pc'[p] = "insert" => seen'[p].id = None
    /\ pc'[p] = "update" =>
         /\ seen'[p].id \in Report
         /\ issue[seen'[p].id].status = "open"
         /\ issue[seen'[p].id].hash = req'[p].hash
         /\ seen'[p].count = issue[seen'[p].id].count

LEMMA QuietEffect ==
    ASSUME IssueInv, NEW p \in Report, Quiet(p) PROVE QuietMove(p)
  <1>1. TypeOK /\ Fits  BY DEF IssueInv
  <1>2. /\ req \in [Report -> [conv : Conversation \cup {None}, hash : Hash \cup {None}]]
        /\ seen \in [Report -> [id : Report \cup {None}, count : Nat]]
        /\ pc \in [Report -> {"idle", "insert", "find", "update", "done"}]
        /\ pc[p] # "idle" => req[p].hash \in Hash
        /\ pc[p] = "idle" => seen[p].id = None
    BY <1>1, Types DEF Fits
  <1>3. ASSUME NEW conv \in Conversation, NEW text \in Text,
               NEW given \in Hash \cup {None}, Call(p, conv, text, given)
        PROVE  QuietMove(p)
    <2>1. PICK d \in Hash : d = IF given # None THEN given ELSE Digest[text]
      OBVIOUS
    <2>2. /\ req' = [req EXCEPT ![p] = [conv |-> conv, hash |-> d]]
          /\ pc[p] = "idle" /\ pc' = [pc EXCEPT ![p] = "insert"]
          /\ UNCHANGED <<issue, counted, seen, result>>
      BY <1>3, <2>1 DEF Call, Goto
    <2>3. req'[p].hash = d /\ pc'[p] = "insert"  BY <1>2, <2>2
    <2> QED  BY <1>2, <2>2, <2>3 DEF QuietMove
  <1>4. CASE CannotInfer(p)
    <2>1. /\ pc[p] = "insert" /\ pc' = [pc EXCEPT ![p] = "find"]
          /\ UNCHANGED <<issue, counted, seen, req, result>>
      BY <1>4 DEF CannotInfer, Goto
    <2> QED  BY <1>2, <2>1 DEF QuietMove
  <1>5. CASE Find(p)
    <2>1. PICK i \in Conflicts(p) :
            seen' = [seen EXCEPT ![p] = [id |-> i, count |-> issue[i].count]]
      BY <1>5 DEF Find
    <2>2. /\ i \in Report /\ issue[i].status = "open"
          /\ issue[i].hash = req[p].hash
      BY DEF Conflicts
    <2>3. /\ pc[p] = "find" /\ pc' = [pc EXCEPT ![p] = "update"]
          /\ UNCHANGED <<issue, counted, req, result>>
      BY <1>5 DEF Find, Goto
    <2>4. seen'[p].id = i /\ seen'[p].count = issue[i].count
      BY <1>2, <2>1
    <2> QED  BY <1>2, <2>1, <2>2, <2>3, <2>4 DEF QuietMove
  <1>6. CASE Fails(p)
    <2>1. /\ pc[p] \in {"insert", "find", "update"}
          /\ pc' = [pc EXCEPT ![p] = "done"]
          /\ result' = [result EXCEPT ![p] = Failed]
          /\ UNCHANGED <<issue, counted, seen, req>>
      BY <1>6 DEF Fails, Return, Goto
    <2> QED  BY <1>2, <2>1 DEF QuietMove
  <1> QED  BY <1>3, <1>4, <1>5, <1>6 DEF Quiet

LEMMA ClosedRow ==
    ASSUME TypeOK, NEW i \in Report, Close(i)
    PROVE  /\ issue[i].status = "open" /\ issue'[i].status = "closed"
           /\ issue'[i].hash = issue[i].hash /\ issue'[i].count = issue[i].count
           /\ \A j \in Report : j # i => issue'[j] = issue[j]
           /\ UNCHANGED <<infers, pc, req, seen, counted, result>>
  <1>1. PICK r : r = Row(issue[i].hash, "closed", issue[i].count, issue[i].conv)
    OBVIOUS
  <1>2. /\ r.status = "closed" /\ r.hash = issue[i].hash
        /\ r.count = issue[i].count
    BY <1>1 DEF Row
  <1>3. issue' = [issue EXCEPT ![i] = r]  BY <1>1 DEF Close
  <1> QED  BY <1>2, <1>3, Types DEF Close

LEMMA OneOpenStep == ASSUME IssueInv, [Next]_vars PROVE OneOpen'
  <1>t. TypeOK /\ Fits /\ OneOpen  BY DEF IssueInv
  <1>1. CASE UNCHANGED issue  BY <1>t, <1>1 DEF OneOpen
  <1>2. ASSUME NEW i \in Report, Close(i) PROVE OneOpen'
    BY <1>t, <1>2, ClosedRow DEF OneOpen
  <1>3. ASSUME NEW p \in Report, NEW i \in Report, Told(p, i) PROVE OneOpen'
    <2>1. \A j \in Report : j # i => issue'[j] = issue[j]  BY <1>3, ToldEffect
    <2>2. CASE issue[i].status = "none"
      <3>1. issue'[i].hash = req[p].hash /\ pc[p] = "insert"
        BY <1>3, <2>2, ToldEffect
      <3>0. Conflicts(p) = {}  BY <1>3, <2>2, <3>1 DEF Told
      <3>2. \A j \in Report : j # i => ~(/\ issue'[j].status = "open"
                                        /\ issue'[j].hash = issue'[i].hash)
        BY <2>1, <3>0, <3>1 DEF Conflicts
      <3> QED  BY <1>t, <2>1, <3>2 DEF OneOpen
    <2>3. CASE issue[i].status # "none"
      <3>1. issue'[i].status = issue[i].status /\ issue'[i].hash = issue[i].hash
        BY <1>3, <2>3, ToldEffect
      <3>2. \A j \in Report : /\ issue'[j].status = issue[j].status
                              /\ issue'[j].hash = issue[j].hash
        BY <2>1, <3>1
      <3> QED  BY <1>t, <3>2 DEF OneOpen
    <2> QED  BY <2>2, <2>3
  <1> QED  BY <1>1, <1>2, <1>3, Steps, QuietEffect DEF QuietMove

LEMMA FitsStep == ASSUME IssueInv, [Next]_vars PROVE Fits'
  <1>t. TypeOK /\ Fits  BY DEF IssueInv
  <1>1. ASSUME NEW p \in Report, Quiet(p) PROVE Fits'
    <2>1. QuietMove(p)  BY <1>1, QuietEffect
    <2>2. ASSUME NEW q \in Report, q # p
          PROVE  /\ pc'[q] = pc[q] /\ counted'[q] = counted[q]
                 /\ result'[q] = result[q] /\ seen'[q] = seen[q]
                 /\ req'[q] = req[q]
      BY <1>t, <2>1, <2>2, Types DEF QuietMove
    <2>3. /\ counted'[p] = None /\ result'[p] \in {NoResult, Failed}
          /\ pc'[p] # "done" => result'[p] = NoResult
          /\ issue[p] = NoIssue
      BY <1>t, <2>1, Types DEF QuietMove, Fits
    <2>4. issue' = issue  BY <2>1 DEF QuietMove
    <2>5. ASSUME NEW q \in Report
          PROVE  /\ pc'[q] # "done" => /\ counted'[q] = None
                                       /\ result'[q] = NoResult
                                       /\ issue[q] = NoIssue
                 /\ pc'[q] \in {"idle", "insert"} => seen'[q].id = None
                 /\ pc'[q] # "idle" => req'[q].hash \in Hash
                 /\ pc'[q] = "update" =>
                      /\ seen'[q].id \in Report
                      /\ issue[seen'[q].id].status # "none"
                      /\ issue[seen'[q].id].hash = req'[q].hash
                      /\ seen'[q].count <= issue[seen'[q].id].count
                 /\ counted'[q] # None => issue[counted'[q]].status # "none"
      <3>1. CASE q = p
        <4>1. pc'[p] # "idle" /\ req'[p].hash \in Hash
              /\ (pc'[p] = "insert" => seen'[p].id = None)
          BY <2>1 DEF QuietMove
        <4>2. CASE pc'[p] = "update"
          <5>1. /\ seen'[p].id \in Report
                /\ issue[seen'[p].id].status = "open"
                /\ issue[seen'[p].id].hash = req'[p].hash
                /\ seen'[p].count = issue[seen'[p].id].count
            BY <2>1, <4>2 DEF QuietMove
          <5>2. issue[seen'[p].id].count \in Nat  BY <1>t, <5>1, IssueFields
          <5> QED  BY <2>3, <3>1, <4>1, <4>2, <5>1, <5>2
        <4> QED  BY <2>3, <3>1, <4>1, <4>2
      <3>2. CASE q # p  BY <1>t, <2>2, <3>2 DEF Fits
      <3> QED  BY <3>1, <3>2
    <2> QED  BY <1>t, <2>4, <2>5 DEF Fits
  <1>2. ASSUME NEW i \in Report, Close(i) PROVE Fits'
    <2>1. ASSUME NEW j \in Report
          PROVE  /\ issue'[j].hash = issue[j].hash
                 /\ issue'[j].count = issue[j].count
                 /\ issue'[j].status = "none" <=> issue[j].status = "none"
                 /\ j # i => issue'[j] = issue[j]
      <3>1. CASE j = i  BY <1>t, <1>2, <3>1, ClosedRow
      <3>2. CASE j # i  BY <1>t, <1>2, <3>2, ClosedRow
      <3> QED  BY <3>1, <3>2
    <2>2. issue[i] # NoIssue /\ issue'[i] # NoIssue
      BY <1>t, <1>2, ClosedRow DEF NoIssue, Row
    <2>3. UNCHANGED <<pc, req, seen, counted, result>>
      BY <1>t, <1>2, ClosedRow
    <2>4. ASSUME NEW q \in Report, pc[q] # "done" PROVE issue'[q] = NoIssue
      BY <1>t, <2>1, <2>2, <2>4 DEF Fits
    <2>5. \A j \in Report : issue'[j].status = "none" <=> issue'[j] = NoIssue
      BY <1>t, <2>1, <2>2, <1>2, ClosedRow DEF Fits
    <2>6. ASSUME NEW q \in Report, pc[q] = "update"
          PROVE  /\ seen[q].id \in Report
                 /\ issue'[seen[q].id].status # "none"
                 /\ issue'[seen[q].id].hash = req[q].hash
                 /\ seen[q].count <= issue'[seen[q].id].count
      BY <1>t, <2>1, <2>6 DEF Fits
    <2>7. \A q \in Report : counted[q] # None =>
             issue'[counted[q]].status # "none"
      BY <1>t, <2>1, Types DEF Fits
    <2> QED  BY <1>t, <2>3, <2>4, <2>5, <2>6, <2>7 DEF Fits
  <1>3. ASSUME NEW p \in Report, NEW i \in Report, Told(p, i) PROVE Fits'
    <2>1. ASSUME NEW j \in Report, issue[j].status # "none"
          PROVE  /\ issue'[j].status # "none" /\ issue'[j].hash = issue[j].hash
                 /\ issue[j].count <= issue'[j].count
      BY <1>t, <1>3, <2>1, ToldEffect, Types DEF Issues
    <2>2. /\ pc' = [pc EXCEPT ![p] = "done"]
          /\ counted' = [counted EXCEPT ![p] = i]
          /\ UNCHANGED <<req, seen>> /\ req[p].hash \in Hash
          /\ issue'[i].status # "none"
          /\ \A j \in Report : j # i => issue'[j] = issue[j]
          /\ \A j \in Report : j # p => result'[j] = result[j]
      BY <1>3, ToldEffect, ToldResult
    <2>3. issue'[i] # NoIssue  BY <2>2 DEF NoIssue, Row
    <2>4. ASSUME NEW q \in Report, q # p, pc[q] # "done" PROVE issue'[q] = NoIssue
      <3>1. issue[q] = NoIssue /\ issue[q].status = "none"
        BY <1>t, <2>4 DEF Fits, NoIssue, Row
      <3>2. q # i  BY <1>3, <2>4, <3>1, ToldEffect
      <3> QED  BY <2>2, <3>1, <3>2
    <2>5. \A j \in Report : issue'[j].status = "none" <=> issue'[j] = NoIssue
      BY <1>t, <2>2, <2>3 DEF Fits
    <2>6. ASSUME NEW q \in Report
          PROVE  /\ pc'[q] # "done" => /\ counted'[q] = None
                                       /\ result'[q] = NoResult
                                       /\ issue'[q] = NoIssue
                 /\ pc'[q] \in {"idle", "insert"} => seen'[q].id = None
                 /\ pc'[q] # "idle" => req'[q].hash \in Hash
                 /\ pc'[q] = "update" =>
                      /\ seen'[q].id \in Report
                      /\ issue'[seen'[q].id].status # "none"
                      /\ issue'[seen'[q].id].hash = req'[q].hash
                      /\ seen'[q].count <= issue'[seen'[q].id].count
                 /\ counted'[q] # None => issue'[counted'[q]].status # "none"
      <3>1. CASE q = p  BY <1>t, <2>2, <3>1, Types
      <3>2. CASE q # p
        <4>1. pc'[q] = pc[q] /\ counted'[q] = counted[q] /\ result'[q] = result[q]
          BY <1>t, <2>2, <3>2, Types
        <4>2. pc[q] = "update" =>
                /\ seen[q].id \in Report
                /\ issue'[seen[q].id].status # "none"
                /\ issue'[seen[q].id].hash = req[q].hash
                /\ seen[q].count <= issue'[seen[q].id].count
          <5>1. SUFFICES ASSUME pc[q] = "update"
                         PROVE  /\ seen[q].id \in Report
                                /\ issue'[seen[q].id].status # "none"
                                /\ issue'[seen[q].id].hash = req[q].hash
                                /\ seen[q].count <= issue'[seen[q].id].count
            OBVIOUS
          <5>2. PICK j \in Report : j = seen[q].id  BY <1>t, <5>1 DEF Fits
          <5>3. /\ issue[j].status # "none" /\ issue[j].hash = req[q].hash
                /\ seen[q].count <= issue[j].count
            BY <1>t, <5>1, <5>2 DEF Fits
          <5>4. /\ issue[j].count \in Nat /\ issue'[j].count \in Nat
                /\ seen[q].count \in Nat
            BY <1>t, <1>3, ToldEffect, Types DEF Issues
          <5> QED  BY <2>1, <5>2, <5>3, <5>4
        <4>3. counted[q] # None => issue'[counted[q]].status # "none"
          BY <1>t, <2>1, Types DEF Fits
        <4> QED  BY <1>t, <2>2, <2>4, <3>2, <4>1, <4>2, <4>3 DEF Fits
      <3> QED  BY <3>1, <3>2
    <2> QED  BY <2>5, <2>6 DEF Fits
  <1>4. CASE UNCHANGED <<issue, pc, req, seen, counted, result>>
    BY <1>t, <1>4 DEF Fits
  <1> QED  BY <1>1, <1>2, <1>3, <1>4, Steps

\* A report is added to the reporters of one issue, and to no others.
LEMMA ReportersGrow ==
    ASSUME TypeOK, NEW p \in Report, NEW i \in Report, counted[p] = None,
           counted' = [counted EXCEPT ![p] = i]
    PROVE  /\ Cardinality(Reporters(i)') = Cardinality(Reporters(i)) + 1
           /\ \A j \in Report : j # i => Reporters(j)' = Reporters(j)
  <1>1. Reporters(i)' = Reporters(i) \cup {p} /\ p \notin Reporters(i)
    BY Types DEF Reporters
  <1>2. IsFiniteSet(Reporters(i))
    <2>1. Reporters(i) \in SUBSET Report  BY DEF Reporters
    <2> QED  BY <2>1, FS_Subset
  <1>3. Cardinality(Reporters(i) \cup {p}) = Cardinality(Reporters(i)) + 1
    BY <1>1, <1>2, FS_AddElement
  <1>4. \A j \in Report : j # i => Reporters(j)' = Reporters(j)
    BY Types DEF Reporters
  <1> QED  BY <1>1, <1>3, <1>4

LEMMA CountedStep == ASSUME IssueInv, [Next]_vars PROVE ReportsCounted'
  <1>t. TypeOK /\ Fits /\ ReportsCounted  BY DEF IssueInv
  <1>1. ASSUME NEW p \in Report, Quiet(p) PROVE ReportsCounted'
    <2>1. QuietMove(p)  BY <1>1, QuietEffect
    <2>2. /\ issue' = issue /\ counted' = counted
          /\ \A i \in Report : Reporters(i)' = Reporters(i)
      BY <2>1 DEF QuietMove, Reporters
    <2>3. Failed.kind = "failed"  BY DEF Failed, NoResult
    <2>4. \A q \in Report : result'[q].kind = "ok" => result'[q] = result[q]
      BY <1>t, <2>1, <2>3, Types DEF QuietMove
    <2>5. counted[p] = None  BY <1>t, <2>1 DEF QuietMove, Fits
    <2>6. \A q \in Report : q # p => req'[q] = req[q]  BY <2>1 DEF QuietMove
    <2> QED  BY <1>t, <2>2, <2>4, <2>5, <2>6 DEF ReportsCounted
  <1>2. ASSUME NEW i \in Report, Close(i) PROVE ReportsCounted'
    <2>1. UNCHANGED <<req, counted, result>>  BY <1>t, <1>2, ClosedRow
    <2>2. ASSUME NEW j \in Report
          PROVE  issue'[j].hash = issue[j].hash /\ issue'[j].count = issue[j].count
      <3>1. CASE j = i  BY <1>t, <1>2, <3>1, ClosedRow
      <3>2. CASE j # i  BY <1>t, <1>2, <3>2, ClosedRow
      <3> QED  BY <3>1, <3>2
    <2>3. \A j \in Report : Reporters(j)' = Reporters(j)
      BY <2>1 DEF Reporters
    <2> QED  BY <1>t, <2>1, <2>2, <2>3, Types DEF ReportsCounted
  <1>3. ASSUME NEW p \in Report, NEW i \in Report, Told(p, i)
        PROVE  ReportsCounted'
    <2>1. /\ counted[p] = None /\ counted' = [counted EXCEPT ![p] = i]
          /\ issue'[i].count = issue[i].count + 1
          /\ issue'[i].hash = req[p].hash /\ req' = req
          /\ issue[i].status # "none" => issue[i].hash = req[p].hash
          /\ \A j \in Report : j # i => issue'[j] = issue[j]
      BY <1>3, ToldEffect
    <2>2. \A j \in Report : issue'[j].count = Cardinality(Reporters(j)')
      BY <1>t, <2>1, ReportersGrow DEF ReportsCounted
    <2>3. ASSUME NEW q \in Report, result'[q].kind = "ok"
          PROVE  counted'[q] = result'[q].id /\ result'[q].id # None
      <3>1. CASE q = p  BY <1>t, <1>3, <2>1, <2>3, <3>1, ToldResult, Types
      <3>2. CASE q # p
        <4>1. result'[q] = result[q] /\ counted'[q] = counted[q]
          BY <1>t, <1>3, <2>1, <3>2, ToldResult, Types
        <4> QED  BY <1>t, <2>3, <4>1 DEF ReportsCounted
      <3> QED  BY <3>1, <3>2
    <2>4. ASSUME NEW q \in Report, counted'[q] # None
          PROVE  issue'[counted'[q]].hash = req'[q].hash
      <3>1. CASE q = p  BY <1>t, <2>1, <3>1, Types
      <3>2. CASE q # p
        <4>1. counted'[q] = counted[q]  BY <1>t, <2>1, <3>2, Types
        <4>2. PICK j \in Report : j = counted[q]  BY <1>t, <2>4, <4>1, Types
        <4>3. issue[j].hash = req[q].hash /\ issue[j].status # "none"
          BY <1>t, <2>4, <4>1, <4>2 DEF ReportsCounted, Fits
        <4>4. issue'[j].hash = issue[j].hash  BY <2>1, <4>3
        <4> QED  BY <2>1, <4>1, <4>2, <4>3, <4>4
      <3> QED  BY <3>1, <3>2
    <2> QED  BY <2>2, <2>3, <2>4 DEF ReportsCounted
  <1>4. CASE UNCHANGED <<issue, pc, req, seen, counted, result>>
    BY <1>t, <1>4 DEF ReportsCounted, Reporters
  <1> QED  BY <1>1, <1>2, <1>3, <1>4, Steps

LEMMA ToldStep ==
    ASSUME IssueInv, [Next]_vars PROVE CountsTold' /\ CreatedOnce'
  <1>t. TypeOK /\ Fits /\ ReportsCounted /\ CountsTold /\ CreatedOnce
    BY DEF IssueInv
  <1>o. \A q \in Report : result[q].kind = "ok" =>
          result[q].id \in Report /\ pc[q] = "done" /\ counted[q] = result[q].id
    BY <1>t, Types DEF Fits, ReportsCounted, NoResult
  <1>1. ASSUME NEW p \in Report, Quiet(p) PROVE CountsTold' /\ CreatedOnce'
    <2>1. QuietMove(p)  BY <1>1, QuietEffect
    <2>2. Failed.kind = "failed" /\ Failed.created = FALSE
      BY DEF Failed, NoResult
    <2>3. \A q \in Report : result'[q].kind = "ok" =>
             result'[q] = result[q] /\ q # p /\ seen'[q] = seen[q]
      BY <1>t, <1>o, <2>1, <2>2, Types DEF QuietMove
    <2>4. issue' = issue  BY <2>1 DEF QuietMove
    <2>5. CountsTold'  BY <1>t, <2>3, <2>4 DEF CountsTold, Guessed
    <2>6. \A q \in Report : result'[q].created => result'[q] = result[q]
      BY <1>t, <2>1, <2>2, Types DEF QuietMove
    <2> QED  BY <1>t, <2>5, <2>6 DEF CreatedOnce
  <1>2. ASSUME NEW i \in Report, Close(i) PROVE CountsTold' /\ CreatedOnce'
    <2>1. UNCHANGED <<seen, result>>  BY <1>t, <1>2, ClosedRow
    <2>2. ASSUME NEW j \in Report PROVE issue'[j].count = issue[j].count
      <3>1. CASE j = i  BY <1>t, <1>2, <3>1, ClosedRow
      <3>2. CASE j # i  BY <1>t, <1>2, <3>2, ClosedRow
      <3> QED  BY <3>1, <3>2
    <2> QED  BY <1>t, <1>o, <2>1, <2>2 DEF CountsTold, CreatedOnce, Guessed
  <1>3. ASSUME NEW p \in Report, NEW i \in Report, Told(p, i)
        PROVE  CountsTold' /\ CreatedOnce'
    <2>1. /\ issue'[i].count = issue[i].count + 1 /\ seen' = seen
          /\ \A j \in Report : j # i => issue'[j] = issue[j]
      BY <1>3, ToldEffect
    <2>2. \A j \in Report : issue[j].count \in Nat  BY <1>t, Types DEF Issues
    <2>3. /\ \A q \in Report : q # p => result'[q] = result[q]
          /\ result'[p].kind = "ok" =>
               /\ result'[p].id = i /\ result'[p].count \in 1..issue'[i].count
               /\ pc[p] = "insert" => result'[p].count = issue'[i].count
          /\ result'[p].created => result'[p].id = p /\ result'[p].count = 1
      BY <1>3, ToldResult
    <2>4. pc[p] \in {"insert", "update"} /\ (pc[p] = "update" => Guessed(p))
      BY <1>t, <1>3 DEF Told, Fits, Guessed
    <2>5. ASSUME NEW q \in Report, q # p, result[q].kind = "ok"
          PROVE  /\ result[q].count \in 1..issue'[result[q].id].count
                 /\ result[q].id = i => result[q].count < issue'[i].count
      <3>1. PICK j \in Report : j = result[q].id  BY <1>o, <2>5
      <3>2. result[q].count \in 1..issue[j].count
        BY <1>t, <2>5, <3>1 DEF CountsTold
      <3>3. CASE j = i  BY <2>1, <2>2, <3>1, <3>2, <3>3
      <3>4. CASE j # i  BY <2>1, <2>2, <3>1, <3>2, <3>4
      <3> QED  BY <3>3, <3>4
    <2>6. \A q \in Report : result'[q].kind = "ok" =>
             result'[q].count \in 1..issue'[result'[q].id].count
      BY <2>3, <2>5
    <2>7. ASSUME NEW q \in Report, NEW r \in Report, q # r,
                 result'[q].kind = "ok", result'[r].kind = "ok",
                 result'[q].id = result'[r].id, ~Guessed(q)', ~Guessed(r)'
          PROVE  result'[q].count # result'[r].count
      <3>1. ~Guessed(q) /\ ~Guessed(r)  BY <2>1, <2>7 DEF Guessed
      <3>2. issue'[i].count \in Nat  BY <2>1, <2>2
      <3>3. CASE q # p /\ r # p
        BY <1>t, <2>3, <2>7, <3>1, <3>3 DEF CountsTold
      <3>4. CASE q = p
        <4>1. /\ result'[q].id = i /\ result'[q].count = issue'[i].count
              /\ result'[r] = result[r] /\ r # p
              /\ result[r].kind = "ok" /\ result[r].id = i
          BY <2>3, <2>4, <2>7, <3>1, <3>4
        <4>2. result[r].count < issue'[i].count /\ result[r].count \in Int
          BY <2>5, <4>1
        <4> QED  BY <3>2, <4>1, <4>2
      <3>5. CASE r = p
        <4>1. /\ result'[r].id = i /\ result'[r].count = issue'[i].count
              /\ result'[q] = result[q] /\ q # p
              /\ result[q].kind = "ok" /\ result[q].id = i
          BY <2>3, <2>4, <2>7, <3>1, <3>5
        <4>2. result[q].count < issue'[i].count /\ result[q].count \in Int
          BY <2>5, <4>1
        <4> QED  BY <3>2, <4>1, <4>2
      <3> QED  BY <3>3, <3>4, <3>5
    <2>8. CountsTold'  BY <2>6, <2>7 DEF CountsTold
    <2>9. CreatedOnce'
      <3> SUFFICES ASSUME NEW q \in Report, result'[q].created
                   PROVE  result'[q].id = q /\ result'[q].count = 1
        BY DEF CreatedOnce
      <3>1. CASE q = p  BY <2>3, <3>1
      <3>2. CASE q # p  BY <1>t, <2>3, <3>2 DEF CreatedOnce
      <3> QED  BY <3>1, <3>2
    <2> QED  BY <2>8, <2>9
  <1>4. CASE UNCHANGED <<issue, pc, req, seen, counted, result>>
    BY <1>t, <1>4 DEF CountsTold, CreatedOnce, Guessed
  <1> QED  BY <1>1, <1>2, <1>3, <1>4, Steps

LEMMA InitInv == Init => IssueInv
  <1> SUFFICES ASSUME Init PROVE IssueInv  OBVIOUS
  <1> USE DEF Init, Row, NoIssue, NoRequest, NoResult
  <1>1. TypeOK  BY DEF TypeOK
  <1>2. Fits /\ OneOpen  BY DEF Fits, OneOpen
  <1>3. ReportsCounted
    <2>1. \A i \in Report : Reporters(i) = {}  BY DEF Reporters
    <2> QED  BY <2>1, FS_EmptySet DEF ReportsCounted
  <1>4. CountsTold /\ CreatedOnce  BY DEF CountsTold, CreatedOnce
  <1> QED  BY <1>1, <1>2, <1>3, <1>4 DEF IssueInv

\* Any number of runs may report bugs at once, be answered or not, with or
\* without the index: the table of issues keeps the invariant.
THEOREM IssueInvariant == Spec => []IssueInv
  <1>1. IssueInv /\ [Next]_vars => IssueInv'
    BY TypeStep, FitsStep, OneOpenStep, CountedStep, ToldStep DEF IssueInv
  <1> QED  BY InitInv, <1>1, PTL DEF Spec

\* One bug has one open issue.
THEOREM OneOpenHolds == Spec => []OneOpen
  <1>1. IssueInv => OneOpen  BY DEF IssueInv
  <1> QED  BY <1>1, IssueInvariant, PTL

\* Each report that takes effect is counted, once, in the issue of its hash.
THEOREM ReportsCountedHolds == Spec => []ReportsCounted
  <1>1. IssueInv => ReportsCounted  BY DEF IssueInv
  <1> QED  BY <1>1, IssueInvariant, PTL

\* Reports that need no SELECT are told different counts.
THEOREM CountsToldHolds == Spec => []CountsTold
  <1>1. IssueInv => CountsTold  BY DEF IssueInv
  <1> QED  BY <1>1, IssueInvariant, PTL

\* A closed issue stays closed, and only an UPDATE that is late touches it.
THEOREM ClosedStaysHolds == Spec => ClosedStays
  <1> DEFINE Kept == \A i \in Report : issue[i].status = "closed" =>
                       /\ issue'[i].status = "closed"
                       /\ issue'[i] # issue[i] =>
                            \E p \in Report : pc[p] = "update" /\ seen[p].id = i
  <1>1. ASSUME IssueInv, [Next]_vars PROVE [Kept]_vars
    <2>t. TypeOK  BY <1>1 DEF IssueInv
    <2>1. ASSUME NEW p \in Report, NEW k \in Report, Told(p, k) PROVE Kept
      <3>1. /\ \A j \in Report : j # k => issue'[j] = issue[j]
            /\ issue[k].status # "none" => issue'[k].status = issue[k].status
        BY <1>1, <2>1, ToldEffect
      <3>2. issue[k].status = "closed" => pc[p] = "update" /\ seen[p].id = k
        BY <2>1 DEF Told, Conflicts
      <3> QED  BY <3>1, <3>2
    <2>2. CASE issue' = issue  BY <2>2
    <2>3. ASSUME NEW k \in Report, Close(k) PROVE Kept
      BY <2>t, <2>3, ClosedRow
    <2> QED  BY <1>1, <2>1, <2>2, <2>3, Steps, QuietEffect DEF QuietMove
  <1> QED  BY <1>1, IssueInvariant, PTL DEF Spec, ClosedStays
=============================================================================
