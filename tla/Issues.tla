------------------------------ MODULE Issues ------------------------------
(***************************************************************************)
(* The issues the agent reports (tool create_issue; UpsertAgentIssue in    *)
(* internal/db/agent.go).  Runs of several conversations report at once; a *)
(* report inserts an issue, or counts in the open one of its hash, in one  *)
(* statement that relies on the partial unique index of open issues.  A    *)
(* PostgreSQL that cannot infer that index gets a SELECT and an UPDATE     *)
(* instead, and people close issues in between.                            *)
(*                                                                         *)
(* Abstracted: what an issue says, which is that of its last report, as    *)
(* its conversation is; empty arguments, which are refused at once.        *)
(***************************************************************************)
EXTENDS Integers, FiniteSets

CONSTANTS
    Report,    \* calls of the tool; an issue is named by the one that made it
    Conversation,
    Text,      \* issue_type, title and body
    Hash,      \* values of dedupe_hash
    Digest,    \* normalizeIssueHash, which folds case: not one to one
    None

ASSUME IssueConstants ==
    /\ IsFiniteSet(Report)
    /\ Digest \in [Text -> Hash]
    /\ None \notin Report \cup Hash \cup Conversation

VARIABLES
    infers,    \* can the database infer the partial index?
    issue,     \* issue[i]: the row that report i inserted
    pc,        \* pc[p]: the statement that comes next for p
    req,       \* req[p]: conversation and hash of p
    seen,      \* seen[p]: what the SELECT of p returned
    counted,   \* history: the issue that p counts in
    result     \* result[p]: what p was told

vars == <<infers, issue, pc, req, seen, counted, result>>

Row(hash, status, count, conv) ==
    [hash |-> hash, status |-> status, count |-> count, conv |-> conv]

NoIssue == Row(None, "none", 0, None)
NoRequest == [conv |-> None, hash |-> None]
NoResult == [kind |-> "none", id |-> None, created |-> FALSE, count |-> 0]
Failed == [NoResult EXCEPT !.kind = "failed"]
Answer(i, new, n) == [kind |-> "ok", id |-> i, created |-> new, count |-> n]

\* No issue or report yet, in a database that the migrations have set up.
Init ==
    /\ infers = TRUE
    /\ issue = [i \in Report |-> NoIssue]
    /\ pc = [p \in Report |-> "idle"]
    /\ req = [p \in Report |-> NoRequest]
    /\ seen = [p \in Report |-> [id |-> None, count |-> 0]]
    /\ counted = [p \in Report |-> None]
    /\ result = [p \in Report |-> NoResult]

Goto(p, l) == pc' = [pc EXCEPT ![p] = l]

Return(p, r) ==
    /\ Goto(p, "done")
    /\ result' = [result EXCEPT ![p] = r]

\* toolCreateIssue: the agent may name a hash, or leave it to the text.
Call(p, conv, text, given) ==
    /\ pc[p] = "idle"
    /\ Goto(p, "insert")
    /\ req' = [req EXCEPT ![p] =
         [conv |-> conv, hash |-> IF given # None THEN given ELSE Digest[text]]]
    /\ UNCHANGED <<infers, issue, seen, counted, result>>

\* mutant: ON CONFLICT for closed issues as well.
AnyStatus(p) == {i \in Report : issue[i].hash = req[p].hash}

\* mutant: the unique index is of open issues per conversation.
SameConversation(p) ==
    {i \in Report : /\ issue[i].hash = req[p].hash /\ issue[i].status = "open"
                    /\ issue[i].conv = req[p].conv}

\* The open issue that report p is about, if there is one.
Conflicts(p) ==
    {i \in Report : issue[i].hash = req[p].hash /\ issue[i].status = "open"}

\* mutant: DO UPDATE forgets the count.
Touch(i, p) == issue' = [issue EXCEPT ![i].conv = req[p].conv]

\* report_count + 1, and what the issue says is what p says.
Bump(i, p) ==
    issue' = [issue EXCEPT ![i] =
                Row(@.hash, @.status, @.count + 1, req[p].conv)]

Insert(p) ==
    issue' = [issue EXCEPT ![p] = Row(req[p].hash, "open", 1, req[p].conv)]

\* INSERT ... ON CONFLICT (dedupe_hash) WHERE status = 'open' DO UPDATE, with
\* issue i, and what it returns.
Upsert(p, i) ==
    /\ IF Conflicts(p) = {} THEN i = p /\ Insert(p)
       ELSE i \in Conflicts(p) /\ Bump(i, p)
    /\ counted' = [counted EXCEPT ![p] = i]

Upserted(p) ==
    /\ pc[p] = "insert" /\ infers
    /\ \E i \in Report :
         /\ Upsert(p, i)
         /\ Return(p, Answer(i, i = p, issue'[i].count))
    /\ UNCHANGED <<infers, req, seen>>

\* The answer of the database is lost, though the statement had its effect.
UpsertLost(p) ==
    /\ pc[p] = "insert" /\ infers
    /\ \E i \in Report : Upsert(p, i)
    /\ Return(p, Failed)
    /\ UNCHANGED <<infers, req, seen>>

\* Error 42P10.
CannotInfer(p) ==
    /\ pc[p] = "insert" /\ ~infers
    /\ Goto(p, "find")
    /\ UNCHANGED <<infers, issue, req, seen, counted, result>>

Find(p) ==
    /\ pc[p] = "find"
    /\ \E i \in Conflicts(p) :
         seen' = [seen EXCEPT ![p] = [id |-> i, count |-> issue[i].count]]
    /\ Goto(p, "update")
    /\ UNCHANGED <<infers, issue, req, counted, result>>

\* mutant: the count that was read is written back.
WriteBack(p) ==
    /\ issue' = [issue EXCEPT ![seen[p].id].count = seen[p].count + 1,
                              ![seen[p].id].conv = req[p].conv]
    /\ counted' = [counted EXCEPT ![p] = seen[p].id]

\* UPDATE ... WHERE id, whatever became of the issue meanwhile.
Update(p) ==
    /\ Bump(seen[p].id, p)
    /\ counted' = [counted EXCEPT ![p] = seen[p].id]

Updated(p) ==
    /\ pc[p] = "update"
    /\ Update(p)
    /\ Return(p, Answer(seen[p].id, FALSE, seen[p].count + 1))
    /\ UNCHANGED <<infers, req, seen>>

UpdateLost(p) ==
    /\ pc[p] = "update"
    /\ Update(p)
    /\ Return(p, Failed)
    /\ UNCHANGED <<infers, req, seen>>

\* A statement fails, the context ends, or the SELECT finds no open issue:
\* without the index no issue is ever inserted.
Fails(p) ==
    /\ pc[p] \in {"insert", "find", "update"}
    /\ Return(p, Failed)
    /\ UNCHANGED <<infers, issue, req, seen, counted>>

\* Someone closes an issue; no code of the repository does.
Close(i) ==
    /\ issue[i].status = "open"
    /\ issue' = [issue EXCEPT ![i] =
                   Row(@.hash, "closed", @.count, @.conv)]
    /\ UNCHANGED <<infers, pc, req, seen, counted, result>>

\* The database moves to a variant that cannot infer partial indexes.
MoveDatabase ==
    /\ infers /\ infers' = FALSE
    /\ UNCHANGED <<issue, pc, req, seen, counted, result>>

Step(p) ==
    \/ \E conv \in Conversation, text \in Text, given \in Hash \cup {None} :
         Call(p, conv, text, given)
    \/ Upserted(p) \/ UpsertLost(p) \/ CannotInfer(p)
    \/ Find(p) \/ Updated(p) \/ UpdateLost(p) \/ Fails(p)

Next ==
    \/ \E p \in Report : Step(p)
    \/ \E i \in Report : Close(i)
    \/ MoveDatabase

Spec == Init /\ [][Next]_vars

-----------------------------------------------------------------------------
(* Properties.                                                             *)

\* Every variable has its type.
TypeOK ==
    /\ infers \in BOOLEAN
    /\ issue \in [Report -> [hash : Hash \cup {None},
                             status : {"none", "open", "closed"},
                             count : Nat, conv : Conversation \cup {None}]]
    /\ pc \in [Report -> {"idle", "insert", "find", "update", "done"}]
    /\ req \in [Report -> [conv : Conversation \cup {None},
                           hash : Hash \cup {None}]]
    /\ seen \in [Report -> [id : Report \cup {None}, count : Nat]]
    /\ counted \in [Report -> Report \cup {None}]
    /\ result \in [Report -> [kind : {"none", "ok", "failed"},
                              id : Report \cup {None}, created : BOOLEAN,
                              count : Nat]]

\* Those who count in issue i.
Reporters(i) == {p \in Report : counted[p] = i}

\* Of one bug there is one open issue, however many runs report it at once.
OneOpen ==
    \A i, j \in Report :
        /\ issue[i].status = "open" /\ issue[j].status = "open"
        /\ issue[i].hash = issue[j].hash
        => i = j

\* report_count is the number of reports that took effect; a report that was
\* answered is one of them, in the issue it was told, and that issue is of
\* its hash.
ReportsCounted ==
    /\ \A i \in Report : issue[i].count = Cardinality(Reporters(i))
    /\ \A p \in Report :
         /\ result[p].kind = "ok" =>
              counted[p] = result[p].id /\ result[p].id # None
         /\ counted[p] # None => issue[counted[p]].hash = req[p].hash

\* Who was told a count after a SELECT.
Guessed(p) == seen[p].id # None

\* Two reports are told one count of an issue only if one of them went by a
\* SELECT; nobody is told more than were counted.
CountsTold ==
    /\ \A p \in Report : result[p].kind = "ok" =>
         result[p].count \in 1..issue[result[p].id].count
    /\ \A p, q \in Report :
         /\ p # q /\ result[p].kind = "ok" /\ result[q].kind = "ok"
         /\ result[p].id = result[q].id /\ ~Guessed(p) /\ ~Guessed(q)
         => result[p].count # result[q].count

\* Exactly the first report of an issue may be told that it made it.
CreatedOnce ==
    \A p \in Report : result[p].created =>
        result[p].id = p /\ result[p].count = 1

\* Why the counts are right.
Fits ==
    /\ \A p \in Report :
         /\ pc[p] # "done" => /\ counted[p] = None /\ result[p] = NoResult
                              /\ issue[p] = NoIssue
         /\ pc[p] \in {"idle", "insert"} => seen[p].id = None
         /\ pc[p] # "idle" => req[p].hash \in Hash
         /\ pc[p] = "update" =>
              /\ seen[p].id \in Report
              /\ issue[seen[p].id].status # "none"
              /\ issue[seen[p].id].hash = req[p].hash
              /\ seen[p].count <= issue[seen[p].id].count
         /\ counted[p] # None => issue[counted[p]].status # "none"
    /\ \A i \in Report : issue[i].status = "none" <=> issue[i] = NoIssue

IssueInv ==
    TypeOK /\ Fits /\ OneOpen /\ ReportsCounted /\ CountsTold /\ CreatedOnce

\* What was closed changes only by an UPDATE whose SELECT saw it open, and is
\* never opened again.
ClosedStays ==
    [][\A i \in Report : issue[i].status = "closed" =>
         /\ issue'[i].status = "closed"
         /\ issue'[i] # issue[i] =>
              \E p \in Report : pc[p] = "update" /\ seen[p].id = i]_vars
=============================================================================
