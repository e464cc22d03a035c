----------------------------- MODULE RunLedger -----------------------------
(***************************************************************************)
(* What the reply agent promises about each inbound message, independent   *)
(* of locks, contexts, language-model calls and providers.  A message is   *)
(* claimed at most once, replies to it are made only on behalf of the      *)
(* claimant and only while its run is open, and a run that was closed      *)
(* stays as it was closed.  AgentRun implements this module.               *)
(*                                                                         *)
(* The states of a run are those of the CHECK constraint on                *)
(* agent_runs.status (migrations/postgres/001_combined.up.sql), plus       *)
(* "none" for a message that has no row in agent_runs.                     *)
(***************************************************************************)
EXTENDS Naturals

CONSTANTS Msg,      \* inbound messages
          Call,     \* executions of ProcessSync
          None      \* no call

VARIABLES status,   \* status[m]: the run of message m
          claimant, \* claimant[m]: the call that will answer m, or None
          replies   \* replies[m]: replies to m handed to its channel

ledgerVars == <<status, claimant, replies>>

Closed == {"completed", "failed", "skipped"}
Status == {"none", "running"} \cup Closed

LedgerInit ==
    /\ status = [m \in Msg |-> "none"]
    /\ claimant = [m \in Msg |-> None]
    /\ replies = [m \in Msg |-> 0]

\* A call claims an unclaimed message.
Claim(m, p) ==
    /\ status[m] = "none"
    /\ status' = [status EXCEPT ![m] = "running"]
    /\ claimant' = [claimant EXCEPT ![m] = p]
    /\ UNCHANGED replies

\* The claim was stored but the caller never learnt of it.
Orphan(m) ==
    /\ status[m] = "none"
    /\ status' = [status EXCEPT ![m] = "running"]
    /\ UNCHANGED <<claimant, replies>>

\* The claimant hands one reply to the channel.
Answer(m) ==
    /\ status[m] = "running"
    /\ claimant[m] # None
    /\ replies' = [replies EXCEPT ![m] = @ + 1]
    /\ UNCHANGED <<status, claimant>>

\* The claimant closes the run.
Close(m, s) ==
    /\ status[m] = "running"
    /\ claimant[m] # None
    /\ status' = [status EXCEPT ![m] = s]
    /\ UNCHANGED <<claimant, replies>>

LedgerNext ==
    \E m \in Msg :
        \/ \E p \in Call : Claim(m, p)
        \/ Orphan(m)
        \/ Answer(m)
        \/ \E s \in Closed : Close(m, s)

LedgerSpec == LedgerInit /\ [][LedgerNext]_ledgerVars
============================================================================
