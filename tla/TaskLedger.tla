----------------------------- MODULE TaskLedger -----------------------------
(***************************************************************************)
(* What the expert-task service promises its users, without processes,     *)
(* leases, heartbeats or sweeps: every task opens while there is room for  *)
(* it, may begin, and is settled once and for good; a question it ends     *)
(* with is answered at most once, by opening its continuation in the same  *)
(* step; and a deleted task never comes back.  AgentTasks implements this  *)
(* specification.                                                          *)
(***************************************************************************)
EXTENDS Integers, FiniteSets

CONSTANTS Task, MaxConcurrent, None

VARIABLES status,    \* [Task -> the life cycle of a task]
          question   \* [Task -> {None, "pending", "answered"}]

ledgerVars == <<status, question>>

Open    == {"pending", "running"}
Settled == {"succeeded", "failed", "cancelled"}

LedgerTypeOK ==
    /\ status \in [Task -> {"absent", "deleted"} \cup Open \cup Settled]
    /\ question \in [Task -> {None, "pending", "answered"}]

LedgerInit ==
    /\ status = [t \in Task |-> "absent"]
    /\ question = [t \in Task |-> None]

Room == \/ MaxConcurrent = 0
        \/ Cardinality({t \in Task : status[t] \in Open}) < MaxConcurrent

\* A submission, or the retry of a task that failed or was cancelled.
OpenTask(t) ==
    /\ status[t] = "absent"
    /\ Room
    /\ status' = [status EXCEPT ![t] = "pending"]
    /\ UNCHANGED question

\* The user answers the question of s; t carries the answer on.
AnswerQuestion(s, t) ==
    /\ question[s] = "pending"
    /\ status[t] = "absent"
    /\ Room
    /\ status' = [status EXCEPT ![t] = "pending"]
    /\ question' = [question EXCEPT ![s] = "answered"]

Begin(t) ==
    /\ status[t] = "pending"
    /\ status' = [status EXCEPT ![t] = "running"]
    /\ UNCHANGED question

Succeed(t, asks) ==
    /\ status[t] = "running"
    /\ status' = [status EXCEPT ![t] = "succeeded"]
    /\ question' = [question EXCEPT ![t] = IF asks THEN "pending" ELSE None]

CancelTask(t) ==
    /\ status[t] \in Open
    /\ status' = [status EXCEPT ![t] = "cancelled"]
    /\ UNCHANGED question

\* Any number of open tasks fail together.
Fail(S) ==
    /\ \A t \in S : status[t] \in Open
    /\ status' = [t \in Task |-> IF t \in S THEN "failed" ELSE status[t]]
    /\ UNCHANGED question

Delete(S) ==
    /\ \A t \in S : status[t] \notin {"absent", "deleted"}
    /\ status' = [t \in Task |-> IF t \in S THEN "deleted" ELSE status[t]]
    /\ question' = [t \in Task |-> IF t \in S THEN None ELSE question[t]]

LedgerNext ==
    \/ \E t \in Task :
          \/ OpenTask(t) \/ Begin(t) \/ CancelTask(t)
          \/ \E asks \in BOOLEAN : Succeed(t, asks)
          \/ \E s \in Task : AnswerQuestion(s, t)
    \/ \E S \in SUBSET Task : Fail(S) \/ Delete(S)

LedgerSpec == LedgerInit /\ [][LedgerNext]_ledgerVars

=============================================================================
