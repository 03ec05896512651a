-------------------------- MODULE AgentTasksProofs --------------------------
(* Theorems about AgentTasks for every choice of its constants.            *)
EXTENDS AgentTasks, FiniteSetTheorems, TLAPS

-----------------------------------------------------------------------------
(* Values that steps write                                                 *)

\* The record every terminal UPDATE leaves behind is a row.
LEMMA EndedType ==
    ASSUME NEW r \in Row, NEW status \in Status
    PROVE  Ended(r, status) \in Row
BY DEF Ended, Row

LEMMA LeasedType ==
    ASSUME NEW r \in Row, NEW p \in Proc
    PROVE  Leased(r, p) \in Row
<1> DEFINE n == r.attempts + 1
<1>1. r.attempts \in Nat /\ n \in Nat
  BY DEF Row
<1>2. "running" \in Status
  BY DEF Status, Active
<1> HIDE DEF n
<1>3. [r EXCEPT !.status = "running", !.owner = p, !.due = FALSE,
                !.attempts = n] \in Row
  BY <1>1, <1>2 DEF Row
<1> QED
  BY <1>3 DEF Leased, n

LEMMA DueType ==
    ASSUME NEW r \in Row, NEW b \in BOOLEAN
    PROVE  [r EXCEPT !.due = b] \in Row
BY DEF Row

LEMMA InteractionType ==
    ASSUME NEW r \in Row, NEW i \in {None, "pending", "answered"}
    PROVE  [r EXCEPT !.interaction = i] \in Row
BY DEF Row

LEMMA NewRowType ==
    ASSUME NEW parent \in Task \cup {None},
           NEW key \in Msg \cup Task \cup {None},
           NEW conv \in Conv \cup {None}
    PROVE  /\ NoRow \in Row
           /\ [NoRow EXCEPT !.status = "deleted"] \in Row
           /\ NewRow(parent, key, conv) \in Row
<1>1. {"absent", "deleted", "pending"} \subseteq Status
  BY DEF Status, Active
<1>2. 0 \in Nat
  OBVIOUS
<1>3. NoRow \in Row
  BY <1>1, <1>2 DEF NoRow, Row
<1> QED
  BY <1>1, <1>3 DEF NewRow, NoRow, Row

LEMMA SucceededType ==
    ASSUME NEW t, row[t] \in Row
    PROVE  Succeeded(t) \in Row
<1>1. "succeeded" \in Status
  BY DEF Status, Terminal
<1>2. Ended(row[t], "succeeded") \in Row
  BY <1>1, EndedType
<1> QED
  BY <1>2, InteractionType DEF Succeeded

-----------------------------------------------------------------------------
(* Type correctness.  The lease a runner takes is that of its process, so  *)
(* the invariant says that a runner has one while it runs.                 *)

RunnerHasProc ==
    \A t \in Task : runner[t].pc \notin {"none", "done"} =>
                       runner[t].proc \in Proc

TypeInv == TypeOK /\ RunnerHasProc

LEMMA RunnerMoves ==
    ASSUME NEW t \in Task, TypeInv, NEW pc \in PC
    PROVE  /\ At(t, pc) \in Runner /\ OutOf(t, pc) \in Runner
           /\ At(t, pc).pc = pc /\ OutOf(t, pc).pc = pc
           /\ At(t, pc).proc = runner[t].proc
           /\ OutOf(t, pc).proc = runner[t].proc
BY DEF TypeInv, TypeOK, Runner, At, OutOf

LEMMA FixedRunners ==
    /\ Finished \in Runner /\ Finished.pc = "done"
    /\ \A p \in Proc : /\ Launched(p) \in Runner
                       /\ Launched(p).proc = p
BY DEF Finished, Launched, Runner, PC

LEMMA AbortType ==
    ASSUME TypeInv, NEW t \in Task
    PROVE  /\ Abort(t) \in Runner
           /\ Abort(t).pc = runner[t].pc
           /\ Abort(t).proc = runner[t].proc
BY DEF TypeInv, TypeOK, Runner, Abort

LEMMA TypeInit == Init => TypeInv
<1> SUFFICES ASSUME Init PROVE TypeInv
    OBVIOUS
<1>1. NoRow \in Row
  BY NewRowType
<1>2. NoRunner \in Runner
  BY DEF NoRunner, Runner, PC
<1> QED
  BY <1>1, <1>2 DEF Init, TypeInv, TypeOK, RunnerHasProc, NoRunner, Phase

\* What a request that inserts a row writes is well typed.
LEMMA InsertType ==
    ASSUME TypeInv, NEW p \in Proc, NEW t \in Task,
           NEW r \in [Task -> Row],
           NEW parent \in Task \cup {None},
           NEW key \in Msg \cup Task \cup {None},
           NEW conv \in Conv \cup {None},
           row' = [r EXCEPT ![t] = NewRow(parent, key, conv)],
           runner' = [runner EXCEPT ![t] = Launched(p)]
    PROVE  /\ row' \in [Task -> Row]
           /\ runner' \in [Task -> Runner]
           /\ RunnerHasProc'
<1>1. row' \in [Task -> Row]
  BY NewRowType
<1>2. runner' \in [Task -> Runner]
  BY FixedRunners DEF TypeInv, TypeOK
<1>3. RunnerHasProc'
  BY FixedRunners DEF TypeInv, TypeOK, RunnerHasProc
<1> QED
  BY <1>1, <1>2, <1>3

\* The runner of t moves to pc, keeping its process, or finishes.
LEMMA MoveType ==
    ASSUME TypeInv, NEW t \in Task, NEW pc \in PC,
           runner[t].pc \notin {"none", "done"},
           \/ runner' = [runner EXCEPT ![t] = At(t, pc)]
           \/ runner' = [runner EXCEPT ![t] = OutOf(t, pc)]
           \/ runner' = [runner EXCEPT ![t] = Finished]
    PROVE  runner' \in [Task -> Runner] /\ RunnerHasProc'
<1>1. runner' \in [Task -> Runner]
  BY RunnerMoves, FixedRunners DEF TypeInv, TypeOK
<1>2. RunnerHasProc'
  <2> SUFFICES ASSUME NEW u \in Task, runner'[u].pc \notin {"none", "done"}
               PROVE  runner'[u].proc \in Proc
      BY DEF RunnerHasProc
  <2>1. CASE u = t
    BY <2>1, RunnerMoves, FixedRunners DEF TypeInv, TypeOK, RunnerHasProc
  <2>2. CASE u # t
    <3>1. runner'[u] = runner[u]
      BY <2>2 DEF TypeInv, TypeOK
    <3> QED
      BY <3>1 DEF TypeInv, RunnerHasProc
  <2> QED
    BY <2>1, <2>2
<1> QED
  BY <1>1, <1>2

\* Every action, and every stuttering step, keeps the type invariant.
LEMMA TypeStep == TypeInv /\ [Next]_vars => TypeInv'
<1> SUFFICES ASSUME TypeInv, [Next]_vars PROVE TypeInv'
    OBVIOUS
<1>0. /\ row \in [Task -> Row] /\ counted \subseteq Task
      /\ runner \in [Task -> Runner] /\ phase \in [Proc -> Phase]
      /\ cancels \subseteq Cancel /\ purges \subseteq Conv \X Proc
      /\ retries \subseteq Task \X Conv \X Proc
  BY DEF TypeInv, TypeOK
<1>a. /\ {"pending", "running", "succeeded", "failed", "cancelled"}
            \subseteq Status
      /\ {"launched", "claimed", "registered", "authorizing", "calling",
          "answered", "asked", "failing"} \subseteq PC
  BY DEF Status, Active, Terminal, PC
<1>1. ASSUME NEW p \in Proc, NEW t \in Task, NEW key \in Msg \cup {None},
             NEW conv \in Conv, Submit(p, t, key, conv)
      PROVE  TypeInv'
  <2>1. row' \in [Task -> Row] /\ runner' \in [Task -> Runner] /\ RunnerHasProc'
    BY <1>0, <1>1, InsertType DEF Submit
  <2> QED
    BY <1>0, <1>1, <2>1 DEF Submit, TypeInv, TypeOK
<1>2. ASSUME NEW p \in Proc, NEW t \in Task, NEW s \in Task, Retry(p, s, t)
      PROVE  TypeInv'
  <2>1. row[s].conv \in Conv \cup {None}
    BY <1>0 DEF Row
  <2>2. row' \in [Task -> Row] /\ runner' \in [Task -> Runner] /\ RunnerHasProc'
    BY <1>0, <1>2, <2>1, InsertType DEF Retry, Reserve
  <2> QED
    BY <1>0, <1>2, <2>2 DEF Retry, Reserve, TypeInv, TypeOK
<1>20. ASSUME NEW p \in Proc, NEW t \in Task, NEW s \in Task, NEW conv \in Conv,
              RetryDeleted(p, s, conv, t)
       PROVE  TypeInv'
  <2>1. row' \in [Task -> Row] /\ runner' \in [Task -> Runner] /\ RunnerHasProc'
    BY <1>0, <1>20, InsertType DEF RetryDeleted, Reserve
  <2> QED
    BY <1>0, <1>20, <2>1 DEF RetryDeleted, Reserve, TypeInv, TypeOK
<1>3. ASSUME NEW p \in Proc, NEW t \in Task, NEW s \in Task,
             NEW key \in Msg \cup {None}, Respond(p, s, t, key)
      PROVE  TypeInv'
  <2> DEFINE r == [row EXCEPT ![s].interaction = "answered"]
  <2>1. row[s].conv \in Conv \cup {None}
    BY <1>0 DEF Row
  <2>2. r \in [Task -> Row]
    BY <1>0, InteractionType
  <2>3. row' = [r EXCEPT ![t] = NewRow(s, key, row[s].conv)]
    BY <1>3 DEF Respond
  <2>4. runner' = [runner EXCEPT ![t] = Launched(p)]
    BY <1>3 DEF Respond
  <2> HIDE DEF r
  <2>5. row' \in [Task -> Row] /\ runner' \in [Task -> Runner] /\ RunnerHasProc'
    BY <2>1, <2>2, <2>3, <2>4, InsertType
  <2> QED
    BY <1>0, <1>3, <2>5 DEF Respond, TypeInv, TypeOK
<1>4. ASSUME NewDay PROVE TypeInv'
  BY <1>0, <1>4 DEF NewDay, TypeInv, TypeOK, RunnerHasProc
<1>5. ASSUME NEW t \in Task, RunnerStep(t) PROVE TypeInv'
  <2>1. runner[t].pc \notin {"none", "done"} /\ runner[t].proc \in Proc
    BY <1>5 DEF RunnerStep, ClaimLease, ClaimFails, Register, ReRead, BeginCall,
                Deliver, DeliverFails, FailTask, TypeInv, RunnerHasProc
  <2>2. row' \in [Task -> Row]
    <3>1. /\ Leased(row[t], runner[t].proc) \in Row
          /\ Succeeded(t) \in Row
          /\ Ended(row[t], "failed") \in Row
      BY <1>0, <1>a, <2>1, LeasedType, SucceededType, EndedType
    <3> QED
      BY <1>0, <1>5, <3>1 DEF RunnerStep, ClaimLease, ClaimFails, Register,
            ReRead, BeginCall, Deliver, DeliverFails, FailTask
  <2>3. \E pc \in PC : \/ runner' = [runner EXCEPT ![t] = At(t, pc)]
                       \/ runner' = [runner EXCEPT ![t] = OutOf(t, pc)]
                       \/ runner' = [runner EXCEPT ![t] = Finished]
    BY <1>5, <1>a DEF RunnerStep, ClaimLease, ClaimFails, Register, ReRead,
                      BeginCall, Deliver, DeliverFails, FailTask
  <2>4. runner' \in [Task -> Runner] /\ RunnerHasProc'
    BY <2>1, <2>3, MoveType
  <2>5. UNCHANGED <<counted, phase, cancels, purges, retries>>
    BY <1>5 DEF RunnerStep, ClaimLease, ClaimFails, Register, ReRead,
                BeginCall, Deliver, DeliverFails, FailTask
  <2> QED
    BY <1>0, <2>2, <2>4, <2>5 DEF TypeInv, TypeOK
<1>6. ASSUME NEW t \in Task,
             RemoteAnswers(t) \/ RemoteFails(t) \/ RemoteAborted(t)
      PROVE  TypeInv'
  <2>1. runner[t].pc = "calling"
    BY <1>6 DEF RemoteAnswers, RemoteFails, RemoteAborted
  <2>2. \E pc \in PC : runner' = [runner EXCEPT ![t] = OutOf(t, pc)]
    BY <1>6, <1>a DEF RemoteAnswers, RemoteFails, RemoteAborted
  <2>3. runner' \in [Task -> Runner] /\ RunnerHasProc'
    BY <2>1, <2>2, MoveType
  <2>4. UNCHANGED <<row, counted, phase, cancels, purges, retries>>
    BY <1>6 DEF RemoteAnswers, RemoteFails, RemoteAborted
  <2> QED
    BY <1>0, <2>3, <2>4 DEF TypeInv, TypeOK
<1>7. ASSUME NEW t \in Task, Heartbeat(t) \/ FallDue(t) PROVE TypeInv'
  <2>1. row' \in [Task -> Row]
    <3>1. PICK b \in BOOLEAN : row' = [row EXCEPT ![t] = [row[t] EXCEPT !.due = b]]
      BY <1>7 DEF Heartbeat, FallDue
    <3>2. [row[t] EXCEPT !.due = b] \in Row
      BY <1>0, DueType
    <3> QED
      BY <1>0, <3>1, <3>2
  <2> QED
    BY <1>0, <1>7, <2>1 DEF Heartbeat, FallDue, TypeInv, TypeOK, RunnerHasProc
<1>8. ASSUME NEW t \in Task, HeartbeatLost(t) PROVE TypeInv'
  <2>1. /\ [runner[t] EXCEPT !.aborted = TRUE] \in Runner
        /\ [runner[t] EXCEPT !.aborted = TRUE].pc = runner[t].pc
        /\ [runner[t] EXCEPT !.aborted = TRUE].proc = runner[t].proc
    BY <1>0 DEF Runner
  <2>2. runner' = [runner EXCEPT ![t] = [runner[t] EXCEPT !.aborted = TRUE]]
    BY <1>8 DEF HeartbeatLost
  <2>3. runner' \in [Task -> Runner]
    BY <1>0, <2>1, <2>2
  <2>4. RunnerHasProc'
    BY <1>0, <2>1, <2>2 DEF TypeInv, RunnerHasProc
  <2> QED
    BY <1>0, <1>8, <2>3, <2>4 DEF HeartbeatLost, TypeInv, TypeOK
<1>9. ASSUME NEW p \in Proc, NEW t \in Task, CancelCheck(p, t) PROVE TypeInv'
  <2>1. [task |-> t, proc |-> p, step |-> "checked"] \in Cancel
    BY DEF Cancel
  <2> QED
    BY <1>0, <1>9, <2>1 DEF CancelCheck, TypeInv, TypeOK, RunnerHasProc
<1>10. ASSUME NEW c \in cancels, CancelUpdate(c) PROVE TypeInv'
  <2>1. /\ c.task \in Task /\ [c EXCEPT !.step = "updated"] \in Cancel
    BY <1>0 DEF Cancel
  <2>2. Ended(row[c.task], "cancelled") \in Row
    BY <1>0, <1>a, <2>1, EndedType
  <2>3. row' \in [Task -> Row]
    BY <1>0, <1>10, <2>1, <2>2 DEF CancelUpdate
  <2>4. cancels' \subseteq Cancel
    BY <1>0, <1>10, <2>1 DEF CancelUpdate
  <2> QED
    BY <1>0, <1>10, <2>3, <2>4 DEF CancelUpdate, TypeInv, TypeOK, RunnerHasProc
<1>11. ASSUME NEW c \in cancels, CancelReply(c) PROVE TypeInv'
  <2>1. /\ c.task \in Task /\ [c EXCEPT !.step = "replied"] \in Cancel
    BY <1>0 DEF Cancel
  <2>2. runner' \in [Task -> Runner]
    BY <1>0, <1>11, <2>1, AbortType DEF CancelReply
  <2>3. RunnerHasProc'
    <3>1. \A u \in Task : /\ runner'[u].pc = runner[u].pc
                          /\ runner'[u].proc = runner[u].proc
      BY <1>0, <1>11, <2>1, AbortType DEF CancelReply
    <3> QED
      BY <3>1 DEF TypeInv, RunnerHasProc
  <2>4. cancels' \subseteq Cancel
    BY <1>0, <1>11, <2>1 DEF CancelReply
  <2> QED
    BY <1>0, <1>11, <2>2, <2>3, <2>4 DEF CancelReply, TypeInv, TypeOK
<1>12. ASSUME NEW p \in Proc, NEW v \in Conv, PurgeCheck(p, v) PROVE TypeInv'
  BY <1>0, <1>12 DEF PurgeCheck, TypeInv, TypeOK, RunnerHasProc
<1>13. ASSUME NEW p \in Proc, NEW v \in Conv, PurgeDelete(v, p) PROVE TypeInv'
  <2>1. row' \in [Task -> Row]
    BY <1>0, <1>13, NewRowType DEF PurgeDelete
  <2>2. retries' \subseteq Task \X Conv \X Proc
    BY <1>0, <1>13 DEF PurgeDelete, Overtaken
  <2> QED
    BY <1>0, <1>13, <2>1, <2>2 DEF PurgeDelete, TypeInv, TypeOK, RunnerHasProc
<1>14. ASSUME NEW p \in Proc, Sweep(p) PROVE TypeInv'
  <2>1. row' \in [Task -> Row]
    BY <1>0, <1>a, <1>14, EndedType DEF Sweep
  <2> QED
    BY <1>0, <1>14, <2>1 DEF Sweep, TypeInv, TypeOK, RunnerHasProc
<1>15. ASSUME NEW p \in Proc, Start(p) PROVE TypeInv'
  BY <1>0, <1>15 DEF Start, Phase, TypeInv, TypeOK, RunnerHasProc
<1>16. ASSUME NEW p \in Proc, BeginStop(p) PROVE TypeInv'
  <2>1. runner' \in [Task -> Runner]
    BY <1>0, <1>16, AbortType DEF BeginStop
  <2>2. \A u \in Task : /\ runner'[u].pc = runner[u].pc
                        /\ runner'[u].proc = runner[u].proc
    BY <1>0, <1>16, AbortType DEF BeginStop
  <2>3. RunnerHasProc'
    BY <2>2 DEF TypeInv, RunnerHasProc
  <2> QED
    BY <1>0, <1>16, <2>1, <2>3 DEF BeginStop, Phase, TypeInv, TypeOK
<1>17. ASSUME NEW p \in Proc, ReleaseLeases(p) PROVE TypeInv'
  <2>1. row' \in [Task -> Row]
    BY <1>0, <1>a, <1>17, EndedType DEF ReleaseLeases
  <2> QED
    BY <1>0, <1>17, <2>1 DEF ReleaseLeases, Phase, TypeInv, TypeOK, RunnerHasProc
<1>18. ASSUME NEW p \in Proc, Exit(p) \/ Crash(p) PROVE TypeInv'
  <2>1. PICK how \in Phase : Vanish(p, how)
    BY <1>18 DEF Exit, Crash, Phase
  <2>2. runner' \in [Task -> Runner] /\ RunnerHasProc'
    BY <1>0, <2>1, FixedRunners DEF Vanish, TypeInv, RunnerHasProc
  <2> QED
    BY <1>0, <2>1, <2>2 DEF Vanish, TypeInv, TypeOK
<1>19. ASSUME UNCHANGED vars PROVE TypeInv'
  BY <1>0, <1>19 DEF vars, TypeInv, TypeOK, RunnerHasProc
<1> QED
  BY <1>1, <1>2, <1>3, <1>4, <1>5, <1>6, <1>7, <1>8, <1>9, <1>10, <1>11,
     <1>12, <1>13, <1>14, <1>15, <1>16, <1>17, <1>18, <1>19, <1>20 DEF Next

\* The variables always have their types.
THEOREM TypeCorrect == Spec => []TypeOK
<1>1. TypeInv => TypeOK
  BY DEF TypeInv
<1> QED
  BY <1>1, TypeInit, TypeStep, PTL DEF Spec

-----------------------------------------------------------------------------
(* The life cycle of a row.  Which rows a statement matches is decided by  *)
(* status and owner, so the two are tied together first; an empty place in *)
(* the table belongs to no conversation, so deleting one does not touch it.*)

EmptyRows ==
    \A t \in Task : ~Present(t) => /\ row[t].conv = None
                                   /\ row[t].interaction = None

RowInv == TypeInv /\ LeaseMatchesStatus /\ EmptyRows

\* What one statement may make of a row.
Advances(r, n) ==
    \/ n.status = r.status
    \/ r.status = "absent" /\ n.status = "pending"
    \/ r.status = "pending" /\ n.status = "running"
    \/ r.status \in Active /\ n.status \in Terminal
    \/ r.status \in Active \cup Terminal /\ n.status = "deleted"

\* What RowInv says of one row.
Consistent(r) ==
    /\ r.owner # None <=> r.status = "running"
    /\ r.status \in {"absent", "deleted"} =>
          r.conv = None /\ r.interaction = None

LEMMA ConsistentRows ==
    ASSUME TypeInv
    PROVE  LeaseMatchesStatus /\ EmptyRows <=> \A t \in Task : Consistent(row[t])
BY DEF LeaseMatchesStatus, EmptyRows, Consistent, Present

LEMMA EndedAdvances ==
    ASSUME NEW r \in Row, Consistent(r), r.status \in Active,
           NEW status \in Terminal
    PROVE  Consistent(Ended(r, status)) /\ Advances(r, Ended(r, status))
BY DEF Row, Consistent, Advances, Ended, Active, Terminal

LEMMA LeasedAdvances ==
    ASSUME NEW r \in Row, Consistent(r), NEW p \in Proc, r.status \in Active
    PROVE  Consistent(Leased(r, p)) /\ Advances(r, Leased(r, p))
<1>1. /\ Leased(r, p).status = "running" /\ Leased(r, p).owner = p
  BY DEF Row, Leased
<1>2. p # None
  BY ConstantsAssumption
<1> QED
  BY <1>1, <1>2 DEF Consistent, Advances, Active

LEMMA NewRowAdvances ==
    ASSUME NEW r \in Row, r.status = "absent", NEW parent, NEW key, NEW conv
    PROVE  /\ Consistent(NewRow(parent, key, conv))
           /\ Advances(r, NewRow(parent, key, conv))
BY DEF Consistent, Advances, NewRow, NoRow

LEMMA SucceededAdvances ==
    ASSUME NEW t, row[t] \in Row, Consistent(row[t]), row[t].status = "running"
    PROVE  Consistent(Succeeded(t)) /\ Advances(row[t], Succeeded(t))
<1> DEFINE e == Ended(row[t], "succeeded")
<1>1. e \in Row /\ e.status = "succeeded" /\ e.owner = None
  <2>1. "succeeded" \in Status
    BY DEF Status, Terminal
  <2>2. e \in Row
    BY <2>1, EndedType
  <2> QED
    BY <2>2 DEF Ended, Row
<1>2. /\ Succeeded(t).status = "succeeded" /\ Succeeded(t).owner = None
  <2> HIDE DEF e
  <2>1. Succeeded(t) = [e EXCEPT
            !.interaction = IF runner[t].pc = "asked" THEN "pending" ELSE None]
    BY DEF Succeeded, e
  <2> QED
    BY <1>1, <2>1 DEF Row
<1> QED
  BY <1>2 DEF Consistent, Advances, Active, Terminal

LEMMA DeletedAdvances ==
    ASSUME NEW r \in Row, Consistent(r), r.status \in Active \cup Terminal
    PROVE  LET d == [NoRow EXCEPT !.status = "deleted"]
           IN  Consistent(d) /\ Advances(r, d)
BY DEF Consistent, Advances, NoRow, Active, Terminal

\* A row whose status, owner, conversation and question stay as they were.
LEMMA SameAdvances ==
    ASSUME NEW r, NEW n, Consistent(r), n.status = r.status, n.owner = r.owner,
           n.conv = r.conv,
           n.interaction = r.interaction \/ r.status \notin {"absent", "deleted"}
    PROVE  Consistent(n) /\ Advances(r, n)
BY DEF Consistent, Advances

\* Every step moves every row forward in its life cycle or leaves it there.
LEMMA RowStep ==
    RowInv /\ [Next]_vars =>
        \A t \in Task : Consistent(row'[t]) /\ Advances(row[t], row'[t])
<1> SUFFICES ASSUME RowInv, [Next]_vars, NEW t \in Task
             PROVE  Consistent(row'[t]) /\ Advances(row[t], row'[t])
    OBVIOUS
<1>0. /\ TypeInv /\ row \in [Task -> Row] /\ row[t] \in Row
      /\ \A u \in Task : Consistent(row[u])
  BY ConsistentRows DEF RowInv, TypeInv, TypeOK
<1>a. /\ {"succeeded", "failed", "cancelled"} \subseteq Terminal
      /\ "running" \in Active /\ "pending" \in Active
  BY DEF Terminal, Active
<1>b. ASSUME row'[t] = row[t]
      PROVE  Consistent(row'[t]) /\ Advances(row[t], row'[t])
  BY <1>0, <1>b DEF Advances
<1>1. ASSUME NEW p \in Proc, NEW u \in Task, NEW key \in Msg \cup {None},
             NEW conv \in Conv, Submit(p, u, key, conv)
      PROVE  Consistent(row'[t]) /\ Advances(row[t], row'[t])
  BY <1>0, <1>1, <1>b, NewRowAdvances DEF Submit
<1>2. ASSUME NEW p \in Proc, NEW u \in Task, NEW s \in Task, Retry(p, s, u)
      PROVE  Consistent(row'[t]) /\ Advances(row[t], row'[t])
  BY <1>0, <1>2, <1>b, NewRowAdvances DEF Retry, Reserve
<1>20. ASSUME NEW p \in Proc, NEW u \in Task, NEW s \in Task, NEW conv \in Conv,
              RetryDeleted(p, s, conv, u)
       PROVE  Consistent(row'[t]) /\ Advances(row[t], row'[t])
  BY <1>0, <1>20, <1>b, NewRowAdvances DEF RetryDeleted, Reserve
<1>3. ASSUME NEW p \in Proc, NEW u \in Task, NEW s \in Task,
             NEW key \in Msg \cup {None}, Respond(p, s, u, key)
      PROVE  Consistent(row'[t]) /\ Advances(row[t], row'[t])
  <2>1. /\ row[s].interaction = "pending" /\ row[u].status = "absent"
        /\ row' = [row EXCEPT ![s].interaction = "answered",
                              ![u] = NewRow(s, key, row[s].conv)]
    BY <1>3 DEF Respond, Answerable
  <2>2. CASE t = u
    <3>1. row'[t] = NewRow(s, key, row[s].conv)
      BY <1>0, <2>1, <2>2
    <3> QED
      BY <1>0, <2>1, <2>2, <3>1, NewRowAdvances
  <2>3. CASE t = s /\ t # u
    <3>1. row'[t] = [row[t] EXCEPT !.interaction = "answered"]
      BY <1>0, <2>1, <2>3
    <3>2. /\ row'[t].status = row[t].status /\ row'[t].owner = row[t].owner
          /\ row'[t].conv = row[t].conv
      BY <1>0, <3>1 DEF Row
    <3>3. row[t].status \notin {"absent", "deleted"}
      <4>1. row[t].interaction # None
        BY <2>1, <2>3, ConstantsAssumption
      <4> QED
        BY <1>0, <4>1 DEF Consistent
    <3> QED
      BY <1>0, <3>2, <3>3, SameAdvances
  <2>4. CASE t # u /\ t # s
    <3>1. row'[t] = row[t]
      BY <1>0, <2>1, <2>4
    <3> QED
      BY <1>b, <3>1
  <2> QED
    BY <2>2, <2>3, <2>4
<1>4. ASSUME NEW u \in Task, ClaimLease(u) \/ ClaimFails(u)
      PROVE  Consistent(row'[t]) /\ Advances(row[t], row'[t])
  <2>1. row' = row \/ /\ row[u].status \in Active
                      /\ row' = [row EXCEPT ![u] = Leased(row[u], runner[u].proc)]
    BY <1>4, <1>a DEF ClaimLease, ClaimFails, Claimable
  <2>2. runner[u].proc \in Proc
    BY <1>0, <1>4 DEF ClaimLease, ClaimFails, TypeInv, RunnerHasProc
  <2> QED
    BY <1>0, <1>b, <2>1, <2>2, LeasedAdvances
<1>5. ASSUME NEW u \in Task, Deliver(u) \/ DeliverFails(u)
      PROVE  Consistent(row'[t]) /\ Advances(row[t], row'[t])
  <2>1. row' = row \/ /\ row[u].status = "running"
                      /\ row' = [row EXCEPT ![u] = Succeeded(u)]
    BY <1>5 DEF Deliver, DeliverFails, OwnsLease
  <2> QED
    BY <1>0, <1>b, <2>1, SucceededAdvances
<1>6. ASSUME NEW u \in Task, FailTask(u)
      PROVE  Consistent(row'[t]) /\ Advances(row[t], row'[t])
  <2>1. row' = row \/ /\ row[u].status = "running"
                      /\ row' = [row EXCEPT ![u] = Ended(row[u], "failed")]
    BY <1>6 DEF FailTask, OwnsLease
  <2> QED
    BY <1>0, <1>a, <1>b, <2>1, EndedAdvances
<1>7. ASSUME NEW u \in Task, Heartbeat(u) \/ FallDue(u)
      PROVE  Consistent(row'[t]) /\ Advances(row[t], row'[t])
  <2>1. \E b \in BOOLEAN : row' = [row EXCEPT ![u].due = b]
    BY <1>7 DEF Heartbeat, FallDue
  <2>2. /\ row'[t].status = row[t].status /\ row'[t].owner = row[t].owner
        /\ row'[t].conv = row[t].conv
        /\ row'[t].interaction = row[t].interaction
    BY <1>0, <2>1 DEF Row
  <2> QED
    BY <1>0, <2>2, SameAdvances
<1>8. ASSUME NEW c \in cancels, CancelUpdate(c)
      PROVE  Consistent(row'[t]) /\ Advances(row[t], row'[t])
  <2>1. row' = row \/ /\ row[c.task].status \in Active
                      /\ row' = [row EXCEPT
                                   ![c.task] = Ended(row[c.task], "cancelled")]
    BY <1>8 DEF CancelUpdate, Cancellable, IsActive
  <2>2. c.task \in Task
    BY <1>0 DEF TypeInv, TypeOK, Cancel
  <2> QED
    BY <1>0, <1>a, <1>b, <2>1, <2>2, EndedAdvances
<1>9. ASSUME NEW p \in Proc, NEW v \in Conv, PurgeDelete(v, p)
      PROVE  Consistent(row'[t]) /\ Advances(row[t], row'[t])
  <2>1. CASE row[t].conv = v
    <3>1. row[t].status \in Active \cup Terminal
      BY <1>0, <2>1, ConstantsAssumption DEF Consistent, Row, Status
    <3>2. row'[t] = [NoRow EXCEPT !.status = "deleted"]
      BY <1>9, <2>1 DEF PurgeDelete
    <3> QED
      BY <1>0, <3>1, <3>2, DeletedAdvances
  <2>2. CASE row[t].conv # v
    BY <1>9, <1>b, <2>2 DEF PurgeDelete
  <2> QED
    BY <2>1, <2>2
<1>10. ASSUME NEW p \in Proc, Sweep(p) \/ ReleaseLeases(p)
       PROVE  Consistent(row'[t]) /\ Advances(row[t], row'[t])
  <2>1. \/ row'[t] = row[t]
        \/ row[t].status \in Active /\ row'[t] = Ended(row[t], "failed")
    BY <1>10, <1>a DEF Sweep, ReleaseLeases, Stale
  <2> QED
    BY <1>0, <1>a, <1>b, <2>1, EndedAdvances
<1>11. ASSUME UNCHANGED row
       PROVE  Consistent(row'[t]) /\ Advances(row[t], row'[t])
  BY <1>b, <1>11
<1>12. CASE UNCHANGED vars
  BY <1>11, <1>12 DEF vars
<1>13. CASE Next
  BY <1>13, <1>1, <1>20, <1>2, <1>3, <1>4, <1>5, <1>6, <1>7, <1>8, <1>9, <1>10, <1>11
     DEF Next, RunnerStep, Register, ReRead, BeginCall, RemoteAnswers,
         RemoteFails, RemoteAborted, HeartbeatLost, CancelCheck, CancelReply,
         PurgeCheck, Start, BeginStop, Exit, Crash, Vanish, NewDay
<1> QED
  BY <1>12, <1>13

LEMMA RowInvStep == RowInv /\ [Next]_vars => RowInv'
<1> SUFFICES ASSUME RowInv, [Next]_vars PROVE RowInv'
    OBVIOUS
<1>1. TypeInv'
  BY TypeStep DEF RowInv
<1>2. \A t \in Task : Consistent(row'[t])
  BY RowStep
<1>3. LeaseMatchesStatus' /\ EmptyRows'
  BY <1>2 DEF LeaseMatchesStatus, EmptyRows, Consistent, Present
<1> QED
  BY <1>1, <1>3 DEF RowInv

LEMMA RowInvInit == Init => RowInv
<1> SUFFICES ASSUME Init PROVE RowInv
    OBVIOUS
<1>1. \A t \in Task : row[t] = NoRow
  BY DEF Init
<1>2. LeaseMatchesStatus /\ EmptyRows
  BY <1>1 DEF LeaseMatchesStatus, EmptyRows, NoRow
<1> QED
  BY <1>2, TypeInit DEF RowInv

\* A row names a lease owner exactly while it is running.
THEOREM LeaseOnlyWhileRunning == Spec => []LeaseMatchesStatus
<1>1. RowInv => LeaseMatchesStatus
  BY DEF RowInv
<1> QED
  BY <1>1, RowInvInit, RowInvStep, PTL DEF Spec

\* An ended task keeps its status until its row is deleted, for good.
THEOREM SettledStaysSettled == Spec => SettledIsFinal
<1>1. RowInv /\ [Next]_vars =>
        [\A t \in Task :
          /\ row[t].status \in Terminal =>
                row'[t].status \in {row[t].status, "deleted"}
          /\ row[t].status = "deleted" => row'[t].status = "deleted"]_vars
  BY RowStep DEF Advances, Active, Terminal
<1> QED
  BY <1>1, RowInvInit, RowInvStep, PTL DEF Spec, SettledIsFinal

-----------------------------------------------------------------------------
(* Cancelling.  A cancel past its UPDATE has found or made the task ended, *)
(* which RowStep keeps so; hence the runner of a task whose cancel its own *)
(* process has answered either fails its re-read of the row or was already *)
(* registered and got the abort.                                           *)

CancelsSettle ==
    \A c \in cancels :
        c.step # "checked" => row[c.task].status \in Terminal \cup {"deleted"}

CancelsExist == \A c \in cancels : row[c.task].status # "absent"

CancelInv == RowInv /\ CancelsSettle /\ CancelsExist /\ LocalCancelStopsCall

\* Where the cancels of the next state come from.
LEMMA CancelOrigin ==
    ASSUME RowInv, [Next]_vars, NEW d \in cancels'
    PROVE  \/ d \in cancels
           \/ IsActive(d.task) /\ d.step = "checked" /\ UNCHANGED row
           \/ \E c \in cancels : /\ CancelUpdate(c)
                                 /\ d = [c EXCEPT !.step = "updated"]
           \/ \E c \in cancels : /\ CancelReply(c)
                                 /\ d = [c EXCEPT !.step = "replied"]
<1>1. ASSUME NEW p \in Proc, NEW t \in Task, CancelCheck(p, t)
      PROVE  \/ d \in cancels
             \/ IsActive(d.task) /\ d.step = "checked" /\ UNCHANGED row
  BY <1>1 DEF CancelCheck
<1>2. ASSUME NEW c \in cancels, CancelUpdate(c)
      PROVE  d \in cancels \/ d = [c EXCEPT !.step = "updated"]
  BY <1>2 DEF CancelUpdate
<1>3. ASSUME NEW c \in cancels, CancelReply(c)
      PROVE  d \in cancels \/ d = [c EXCEPT !.step = "replied"]
  BY <1>3 DEF CancelReply
<1>4. ASSUME NEW p \in Proc, Exit(p) \/ Crash(p)
      PROVE  d \in cancels
  BY <1>4 DEF Exit, Crash, Vanish
<1>5. ASSUME UNCHANGED cancels PROVE d \in cancels
  BY <1>5
<1> QED
  BY <1>1, <1>2, <1>3, <1>4, <1>5 DEF Next, vars, Submit, Retry, RetryDeleted, Reserve, Respond,
     RunnerStep, ClaimLease, ClaimFails, Register, ReRead, BeginCall, Deliver,
     DeliverFails, FailTask, RemoteAnswers, RemoteFails, RemoteAborted,
     Heartbeat, HeartbeatLost, FallDue, PurgeCheck, PurgeDelete, Sweep, Start,
     BeginStop, ReleaseLeases, NewDay

LEMMA CancelStep ==
    CancelInv /\ [Next]_vars => CancelsSettle' /\ CancelsExist'
<1> SUFFICES ASSUME CancelInv, [Next]_vars, NEW d \in cancels'
             PROVE  /\ row'[d.task].status # "absent"
                    /\ d.step # "checked" =>
                          row'[d.task].status \in Terminal \cup {"deleted"}
    BY DEF CancelsSettle, CancelsExist
<1>0. /\ RowInv /\ cancels \subseteq Cancel /\ cancels' \subseteq Cancel
  BY TypeStep DEF CancelInv, RowInv, TypeInv, TypeOK
<1>1. d.task \in Task
  BY <1>0 DEF Cancel
<1>2. Advances(row[d.task], row'[d.task])
  BY <1>0, <1>1, RowStep
<1>3. CASE d \in cancels
  BY <1>2, <1>3 DEF CancelInv, CancelsSettle, CancelsExist, Advances, Active,
                    Terminal
<1>4. CASE IsActive(d.task) /\ d.step = "checked" /\ UNCHANGED row
  BY <1>4 DEF IsActive, Active
<1>5. ASSUME NEW c \in cancels, CancelUpdate(c), d = [c EXCEPT !.step = "updated"]
      PROVE  row'[d.task].status \in Terminal \cup {"deleted"}
  <2>1. d.task = c.task /\ c.task \in Task
    BY <1>0, <1>5 DEF Cancel
  <2>2. row[c.task] \in Row /\ row \in [Task -> Row]
    BY <1>0, <2>1 DEF RowInv, TypeInv, TypeOK
  <2>3. CASE IsActive(c.task)
    <3>1. row'[c.task] = Ended(row[c.task], "cancelled")
      BY <1>5, <2>1, <2>2, <2>3 DEF CancelUpdate, Cancellable
    <3>2. row'[c.task].status = "cancelled"
      BY <2>2, <3>1 DEF Ended, Row
    <3> QED
      BY <2>1, <3>2 DEF Terminal
  <2>4. CASE ~IsActive(c.task)
    <3>1. row'[c.task] = row[c.task]
      BY <1>5, <2>4 DEF CancelUpdate, Cancellable
    <3>2. row[c.task].status # "absent"
      BY DEF CancelInv, CancelsExist
    <3> QED
      BY <2>1, <2>2, <2>4, <3>1, <3>2 DEF IsActive, Row, Status
  <2> QED
    BY <2>3, <2>4
<1>6. ASSUME NEW c \in cancels, CancelReply(c), d = [c EXCEPT !.step = "replied"]
      PROVE  row'[d.task].status \in Terminal \cup {"deleted"}
  <2>1. d.task = c.task /\ c.step = "updated" /\ UNCHANGED row
    BY <1>0, <1>6 DEF CancelReply, Cancel
  <2> QED
    BY <2>1 DEF CancelInv, CancelsSettle
<1> QED
  BY <1>0, <1>3, <1>4, <1>5, <1>6, CancelOrigin DEF Terminal

\* Where the runner of t can be in or before its call after a step.
LEMMA CallingOrigin ==
    ASSUME RowInv, [Next]_vars, NEW t \in Task,
           runner'[t].pc \in {"authorizing", "calling"}
    PROVE  \/ runner'[t] = runner[t]
           \/ runner[t].pc = "registered" /\ OwnsLease(t)
           \/ /\ runner[t].pc = "authorizing" /\ ~runner[t].aborted
              /\ runner'[t].proc = runner[t].proc
           \/ runner'[t].aborted
<1>0. runner \in [Task -> Runner]
  BY DEF RowInv, TypeInv, TypeOK
<1>1. ASSUME NEW p \in Proc, NEW u \in Task,
             runner' = [runner EXCEPT ![u] = Launched(p)]
      PROVE  runner'[t] = runner[t]
  BY <1>0, <1>1 DEF Launched
<1>2. ASSUME NEW u \in Task, NEW pc \in PC \ {"authorizing", "calling"},
             \/ runner' = [runner EXCEPT ![u] = At(u, pc)]
             \/ runner' = [runner EXCEPT ![u] = OutOf(u, pc)]
             \/ runner' = [runner EXCEPT ![u] = Finished]
      PROVE  runner'[t] = runner[t]
  BY <1>0, <1>2, RunnerMoves, FixedRunners DEF RowInv
<1>a. {"claimed", "registered", "answered", "asked", "failing", "done"}
         \subseteq PC \ {"authorizing", "calling"}
  BY DEF PC
<1>3. ASSUME NEW u \in Task,
             ClaimLease(u) \/ ClaimFails(u) \/ Register(u) \/ Deliver(u)
             \/ DeliverFails(u) \/ FailTask(u) \/ RemoteAnswers(u)
             \/ RemoteFails(u) \/ RemoteAborted(u)
      PROVE  runner'[t] = runner[t]
  <2>1. \E pc \in PC \ {"authorizing", "calling"} :
             \/ runner' = [runner EXCEPT ![u] = At(u, pc)]
             \/ runner' = [runner EXCEPT ![u] = OutOf(u, pc)]
             \/ runner' = [runner EXCEPT ![u] = Finished]
    BY <1>3, <1>a DEF ClaimLease, ClaimFails, Register, Deliver, DeliverFails,
                      FailTask, RemoteAnswers, RemoteFails, RemoteAborted
  <2> QED
    BY <1>2, <2>1
<1>4. ASSUME NEW u \in Task, ReRead(u)
      PROVE  \/ runner'[t] = runner[t]
             \/ runner[t].pc = "registered" /\ OwnsLease(t)
  <2>1. CASE runner' = [runner EXCEPT ![u] = At(u, "authorizing")]
             /\ OwnsLease(u)
    BY <1>0, <1>4, <2>1 DEF ReRead
  <2>2. CASE \/ runner' = [runner EXCEPT ![u] = Finished]
             \/ runner' = [runner EXCEPT ![u] = OutOf(u, "failing")]
    BY <1>2, <1>a, <2>2
  <2> QED
    BY <1>4, <2>1, <2>2 DEF ReRead, MayProceed
<1>5. ASSUME NEW u \in Task, BeginCall(u)
      PROVE  \/ runner'[t] = runner[t]
             \/ /\ runner[t].pc = "authorizing" /\ ~runner[t].aborted
                /\ runner'[t].proc = runner[t].proc
  <2>1. CASE runner' = [runner EXCEPT ![u] = At(u, "calling")]
             /\ ~runner[u].aborted
    <3>1. At(u, "calling").proc = runner[u].proc
      BY RunnerMoves DEF RowInv, PC
    <3> QED
      BY <1>0, <1>5, <2>1, <3>1 DEF BeginCall
  <2>2. CASE runner' = [runner EXCEPT ![u] = OutOf(u, "failing")]
    BY <1>2, <1>a, <2>2
  <2> QED
    BY <1>5, <2>1, <2>2 DEF BeginCall
<1>6. ASSUME NEW u \in Task, HeartbeatLost(u)
      PROVE  runner'[t] = runner[t] \/ runner'[t].aborted
  BY <1>0, <1>6 DEF HeartbeatLost, Runner
<1>7. Abort(t) = runner[t] \/ Abort(t).aborted
  BY <1>0 DEF Abort, Runner
<1>8. ASSUME NEW c \in cancels, CancelReply(c)
      PROVE  runner'[t] = runner[t] \/ runner'[t].aborted
  BY <1>0, <1>7, <1>8 DEF CancelReply
<1>9. ASSUME NEW p \in Proc, BeginStop(p)
      PROVE  runner'[t] = runner[t] \/ runner'[t].aborted
  BY <1>7, <1>9 DEF BeginStop
<1>10. ASSUME NEW p \in Proc, Exit(p) \/ Crash(p)
       PROVE  runner'[t] = runner[t]
  BY <1>10, FixedRunners DEF Exit, Crash, Vanish
<1>11. ASSUME UNCHANGED runner PROVE runner'[t] = runner[t]
  BY <1>11
<1> QED
  BY <1>1, <1>3, <1>4, <1>5, <1>6, <1>8, <1>9, <1>10, <1>11
     DEF Next, vars, Submit, Retry, RetryDeleted, Reserve, Respond, RunnerStep, Heartbeat, FallDue,
         CancelCheck, CancelUpdate, PurgeCheck, PurgeDelete, Sweep, Start,
         ReleaseLeases, NewDay

LEMMA LocalCancelStep == CancelInv /\ [Next]_vars => LocalCancelStopsCall'
<1> SUFFICES ASSUME CancelInv, [Next]_vars, NEW d \in cancels',
                    d.step = "replied",
                    runner'[d.task].proc = d.proc,
                    runner'[d.task].pc \in {"authorizing", "calling"}
             PROVE  runner'[d.task].aborted
    BY DEF LocalCancelStopsCall
<1>0. /\ RowInv /\ cancels \subseteq Cancel /\ cancels' \subseteq Cancel
      /\ runner \in [Task -> Runner] /\ row \in [Task -> Row]
  BY TypeStep DEF CancelInv, RowInv, TypeInv, TypeOK
<1> DEFINE t == d.task
<1>1. t \in Task
  BY <1>0 DEF Cancel
<1>2. CASE d \in cancels
  <2>1. ~OwnsLease(t)
    BY <1>2 DEF CancelInv, CancelsSettle, OwnsLease, Terminal
  <2>2. CASE runner'[t] = runner[t]
    BY <1>2, <2>2 DEF CancelInv, LocalCancelStopsCall
  <2>3. CASE /\ runner[t].pc = "authorizing" /\ ~runner[t].aborted
             /\ runner'[t].proc = runner[t].proc
    BY <1>2, <2>3 DEF CancelInv, LocalCancelStopsCall
  <2> QED
    BY <1>0, <1>1, <2>1, <2>2, <2>3, CallingOrigin
<1>3. ASSUME NEW c \in cancels, CancelReply(c), d = [c EXCEPT !.step = "replied"]
      PROVE  runner'[t].aborted
  <2>1. t = c.task /\ d.proc = c.proc
    BY <1>0, <1>3 DEF Cancel
  <2>2. Abort(t).pc = runner[t].pc /\ Abort(t).proc = runner[t].proc
    BY <1>0, <1>1, AbortType DEF RowInv
  <2>3. runner'[t] = IF runner[t].proc = c.proc THEN Abort(t) ELSE runner[t]
    BY <1>0, <1>1, <1>3, <2>1 DEF CancelReply
  <2>4. runner[t].proc = c.proc /\ runner[t].pc \in Abortable
    BY <2>1, <2>2, <2>3 DEF Abortable
  <2> QED
    BY <1>0, <1>1, <2>3, <2>4 DEF Abort, Runner
<1>4. ASSUME NEW c \in cancels, d = [c EXCEPT !.step = "updated"] PROVE FALSE
  BY <1>0, <1>4 DEF Cancel
<1> QED
  BY <1>0, <1>2, <1>3, <1>4, CancelOrigin

LEMMA CancelInvStep == CancelInv /\ [Next]_vars => CancelInv'
BY RowInvStep, CancelStep, LocalCancelStep DEF CancelInv

LEMMA CancelInvInit == Init => CancelInv
BY RowInvInit DEF Init, CancelInv, CancelsSettle, CancelsExist,
                  LocalCancelStopsCall

\* A task whose cancel has been answered is not open any more.
THEOREM RepliedCancelSettles == Spec => []RepliedCancelIsSettled
<1>1. CancelInv => RepliedCancelIsSettled
  BY DEF CancelInv, CancelsSettle, RepliedCancelIsSettled, IsActive, Active,
         Terminal
<1> QED
  BY <1>1, CancelInvInit, CancelInvStep, PTL DEF Spec

\* A cancel answered by the runner's own process has stopped the runner.
THEOREM LocalCancelStops == Spec => []LocalCancelStopsCall
<1>1. CancelInv => LocalCancelStopsCall
  BY DEF CancelInv
<1> QED
  BY <1>1, CancelInvInit, CancelInvStep, PTL DEF Spec

-----------------------------------------------------------------------------
(* The concurrency limit.  Only submit, retry and respond turn an empty    *)
(* place into an open row, one at a time and each after the count.         *)

Opens(u) == row[u].status = "absent" /\ ConcurrencyAllows

LEMMA OnlyRequestsOpen ==
    ASSUME RowInv, [Next]_vars
    PROVE  \/ \A t \in Task : row[t].status = "absent" => row'[t].status = "absent"
           \/ \E u \in Task : Opens(u) /\ \A t \in Task \ {u} :
                  row[t].status = "absent" => row'[t].status = "absent"
<1>0. row \in [Task -> Row] /\ cancels \subseteq Cancel
  BY DEF RowInv, TypeInv, TypeOK
<1> DEFINE Closed == \A t \in Task : row[t].status = "absent" =>
                                        row'[t].status = "absent"
<1>1. ASSUME NEW p \in Proc, NEW u \in Task, NEW parent, NEW key, NEW conv,
             Opens(u), row' = [row EXCEPT ![u] = NewRow(parent, key, conv)]
      PROVE  \A t \in Task \ {u} :
                row[t].status = "absent" => row'[t].status = "absent"
  BY <1>0, <1>1
<1>2. ASSUME NEW p \in Proc, NEW s \in Task, NEW u \in Task,
             NEW key \in Msg \cup {None}, Respond(p, s, u, key)
      PROVE  Opens(u) /\ \A t \in Task \ {u} :
                row[t].status = "absent" => row'[t].status = "absent"
  BY <1>0, <1>2 DEF Respond, Opens, Row
<1>3. ASSUME NEW u \in Task,
             \/ row' = [row EXCEPT ![u] = row'[u]] /\ row[u].status # "absent"
             \/ UNCHANGED row
      PROVE  Closed
  BY <1>0, <1>3
<1>4. ASSUME NEW u \in Task, RunnerStep(u) \/ Heartbeat(u) \/ FallDue(u)
      PROVE  Closed
  <2>1. \/ row' = [row EXCEPT ![u] = row'[u]] /\ row[u].status # "absent"
        \/ UNCHANGED row
    BY <1>0, <1>4 DEF RunnerStep, ClaimLease, ClaimFails, Claimable, Register,
       ReRead, BeginCall, Deliver, DeliverFails, FailTask, OwnsLease, Heartbeat,
       FallDue, IsActive, Active
  <2> QED
    BY <1>3, <2>1
<1>5. ASSUME NEW c \in cancels, CancelUpdate(c) PROVE Closed
  <2>1. c.task \in Task
    BY <1>0 DEF Cancel
  <2>2. \/ row' = [row EXCEPT ![c.task] = row'[c.task]] /\ row[c.task].status # "absent"
        \/ UNCHANGED row
    BY <1>0, <1>5, <2>1 DEF CancelUpdate, Cancellable, IsActive, Active
  <2> QED
    BY <1>3, <2>1, <2>2
<1>6. ASSUME NEW p \in Proc, NEW v \in Conv, PurgeDelete(v, p) PROVE Closed
  <2>1. \A t \in Task : row[t].status = "absent" => row[t].conv # v
    BY ConstantsAssumption DEF RowInv, EmptyRows, Present
  <2> QED
    BY <1>6, <2>1 DEF PurgeDelete
<1>7. ASSUME NEW p \in Proc, Sweep(p) \/ ReleaseLeases(p) PROVE Closed
  BY <1>7 DEF Sweep, ReleaseLeases, Stale
<1>8. ASSUME UNCHANGED row PROVE Closed
  BY <1>8
<1>9. CASE UNCHANGED vars
  BY <1>8, <1>9 DEF vars
<1>10. CASE Next
  <2>1. ASSUME NEW p \in Proc, NEW u \in Task, NEW key \in Msg \cup {None},
               NEW conv \in Conv, Submit(p, u, key, conv)
        PROVE  Opens(u) /\ \A t \in Task \ {u} :
                  row[t].status = "absent" => row'[t].status = "absent"
    BY <1>1, <2>1 DEF Submit, Opens
  <2>2. ASSUME NEW p \in Proc, NEW u \in Task, NEW s \in Task, Retry(p, s, u)
        PROVE  Opens(u) /\ \A t \in Task \ {u} :
                  row[t].status = "absent" => row'[t].status = "absent"
    BY <1>1, <2>2 DEF Retry, Reserve, Opens
  <2>3. ASSUME NEW p \in Proc, NEW u \in Task, NEW s \in Task, NEW conv \in Conv,
               RetryDeleted(p, s, conv, u)
        PROVE  Opens(u) /\ \A t \in Task \ {u} :
                  row[t].status = "absent" => row'[t].status = "absent"
    BY <1>1, <2>3 DEF RetryDeleted, Reserve, Opens
  <2> QED
    BY <1>10, <2>1, <2>2, <2>3, <1>2, <1>4, <1>5, <1>6, <1>7, <1>8
       DEF Next, RemoteAnswers, RemoteFails, RemoteAborted, HeartbeatLost,
           CancelCheck, CancelReply, PurgeCheck, Start, BeginStop, Exit, Crash,
           Vanish, NewDay
<1> QED
  BY <1>9, <1>10

LEMMA ConcurrencyStep ==
    RowInv /\ WithinConcurrency /\ [Next]_vars => WithinConcurrency'
<1> SUFFICES ASSUME RowInv, WithinConcurrency, [Next]_vars, MaxConcurrent > 0
             PROVE  Cardinality(ActiveTasks') <= MaxConcurrent
    BY DEF WithinConcurrency
<1>0. MaxConcurrent \in Nat /\ IsFiniteSet(Task)
  BY ConstantsAssumption
<1>1. IsFiniteSet(ActiveTasks) /\ Cardinality(ActiveTasks) \in Nat
  BY <1>0, FS_Subset, FS_CardinalityType DEF ActiveTasks
<1>2. \A t \in Task : IsActive(t)' => IsActive(t) \/ row[t].status = "absent"
  BY RowStep DEF Advances, IsActive, Active, Terminal
<1>3. CASE \A t \in Task : row[t].status = "absent" => row'[t].status = "absent"
  <2>1. ActiveTasks' \subseteq ActiveTasks
    BY <1>2, <1>3 DEF ActiveTasks, IsActive, Active
  <2>2. Cardinality(ActiveTasks') <= Cardinality(ActiveTasks)
    BY <1>1, <2>1, FS_Subset
  <2>3. Cardinality(ActiveTasks') \in Nat
    BY <1>1, <2>1, FS_Subset, FS_CardinalityType
  <2>4. Cardinality(ActiveTasks) <= MaxConcurrent
    BY DEF WithinConcurrency
  <2> QED
    BY <1>0, <1>1, <2>2, <2>3, <2>4
<1>4. ASSUME NEW u \in Task, Opens(u),
             \A t \in Task \ {u} : row[t].status = "absent" => row'[t].status = "absent"
      PROVE  Cardinality(ActiveTasks') <= MaxConcurrent
  <2>1. ActiveTasks' \subseteq ActiveTasks \cup {u}
    BY <1>2, <1>4 DEF ActiveTasks, IsActive, Active
  <2>2. u \notin ActiveTasks
    BY <1>4 DEF Opens, ActiveTasks, IsActive, Active
  <2>3. /\ IsFiniteSet(ActiveTasks \cup {u})
        /\ Cardinality(ActiveTasks \cup {u}) = Cardinality(ActiveTasks) + 1
    BY <1>1, <2>2, FS_AddElement
  <2>4. /\ Cardinality(ActiveTasks') <= Cardinality(ActiveTasks \cup {u})
        /\ Cardinality(ActiveTasks') \in Nat
    BY <2>1, <2>3, FS_Subset, FS_CardinalityType
  <2>5. Cardinality(ActiveTasks) < MaxConcurrent
    BY <1>0, <1>4 DEF Opens, ConcurrencyAllows, WithinLimit
  <2> QED
    BY <1>0, <1>1, <2>3, <2>4, <2>5
<1> QED
  BY <1>3, <1>4, OnlyRequestsOpen

\* The open tasks of the expert never exceed maxConcurrent.
THEOREM ConcurrencyLimited == Spec => []WithinConcurrency
<1>1. Init => WithinConcurrency
  <2> SUFFICES ASSUME Init PROVE WithinConcurrency
      OBVIOUS
  <2>1. ActiveTasks = {}
    BY DEF Init, ActiveTasks, IsActive, Active, NoRow
  <2>2. Cardinality(ActiveTasks) = 0
    BY <2>1, FS_EmptySet
  <2> QED
    BY <2>2, ConstantsAssumption DEF WithinConcurrency
<1> QED
  BY <1>1, RowInvInit, RowInvStep, ConcurrencyStep, PTL DEF Spec

-----------------------------------------------------------------------------
(* Keys and successors.  Three kinds of statement matter: an insert, which *)
(* takes a free key, the deletion of a conversation, and the rest, which   *)
(* keep a row's key, parent and conversation.  A question exists only on a *)
(* task that succeeded, and a child sits in its parent's conversation, so  *)
(* both are deleted together; a retry is the row keyed by its parent, which *)
(* may be deleted before the retry reserves its row.                       *)

Inserts(u, parent, key, conv) ==
    /\ row[u].status = "absent"
    /\ ~KeyTaken(key)
    /\ row'[u] = NewRow(parent, key, conv)
    /\ \A t \in Task \ {u} :
          row'[t] = IF t = parent /\ Answerable(t)
                    THEN [row[t] EXCEPT !.interaction = "answered"] ELSE row[t]

InsertsSome(u) ==
    \/ \E key \in Msg \cup {None}, conv \in Conv : Inserts(u, None, key, conv)
    \/ \E s \in Task : CanRetry(s) /\ Inserts(u, s, s, row[s].conv)
    \/ \E s \in Task, conv \in Conv : row[s].status = "deleted" /\ Inserts(u, s, s, conv)
    \/ \E s \in Task, key \in Msg \cup {None} :
          Answerable(s) /\ Inserts(u, s, key, row[s].conv)

\* What any other statement may make of a row that it does not delete.
Carries(r, n) ==
    /\ n.key = r.key /\ n.parent = r.parent /\ n.conv = r.conv
    /\ \/ n.status = r.status /\ n.interaction = r.interaction
       \/ /\ r.status \in Active /\ n.status \in Active \cup Terminal
          /\ \/ n.interaction = r.interaction
             \/ n.status = "succeeded" /\ n.interaction # "answered"

Purges(v) ==
    \A t \in Task : row'[t] = IF row[t].conv = v
                              THEN [NoRow EXCEPT !.status = "deleted"]
                              ELSE row[t]

LEMMA EndedCarries ==
    ASSUME NEW r \in Row, r.status \in Active, NEW status \in Terminal
    PROVE  Carries(r, Ended(r, status))
BY DEF Row, Carries, Ended, Terminal

LEMMA LeasedCarries ==
    ASSUME NEW r \in Row, r.status \in Active, NEW p
    PROVE  Carries(r, Leased(r, p))
BY DEF Row, Carries, Leased, Active

LEMMA SucceededCarries ==
    ASSUME NEW t, row[t] \in Row, row[t].status = "running"
    PROVE  Carries(row[t], Succeeded(t))
<1> DEFINE e == Ended(row[t], "succeeded")
           i == IF runner[t].pc = "asked" THEN "pending" ELSE None
<1>1. /\ e \in Row /\ e.status = "succeeded" /\ e.key = row[t].key
      /\ e.parent = row[t].parent /\ e.conv = row[t].conv
  <2>1. "succeeded" \in Status
    BY DEF Status, Terminal
  <2>2. e \in Row
    BY <2>1, EndedType
  <2> QED
    BY <2>2 DEF Ended, Row
<1>2. i # "answered"
  BY ConstantsAssumption
<1>3. Succeeded(t) = [e EXCEPT !.interaction = i]
  BY DEF Succeeded
<1> HIDE DEF e, i
<1>4. /\ Succeeded(t).status = "succeeded" /\ Succeeded(t).key = row[t].key
      /\ Succeeded(t).parent = row[t].parent /\ Succeeded(t).conv = row[t].conv
      /\ Succeeded(t).interaction = i
  BY <1>1, <1>3 DEF Row
<1> QED
  BY <1>2, <1>4 DEF Carries, Active, Terminal

RetriesLate == \A r \in retries : row[r[1]].status = "deleted"

\* Every step is an insert, a deletion or carries all rows on.
LEMMA LineageCases ==
    ASSUME RowInv, RetriesLate, [Next]_vars
    PROVE  \/ \E u \in Task : InsertsSome(u)
           \/ \E v \in Conv : Purges(v)
           \/ \A t \in Task : Carries(row[t], row'[t])
<1> DEFINE Quiet == \A t \in Task : Carries(row[t], row'[t])
<1>0. /\ row \in [Task -> Row] /\ \A t \in Task : row[t] \in Row
      /\ cancels \subseteq Cancel
  BY DEF RowInv, TypeInv, TypeOK
<1>a. /\ {"succeeded", "failed", "cancelled"} \subseteq Terminal
      /\ "running" \in Active /\ "pending" \in Active
  BY DEF Terminal, Active
<1>b. ASSUME NEW t, row'[t] = row[t] PROVE Carries(row[t], row'[t])
  BY <1>b DEF Carries
<1>1. ASSUME NEW p \in Proc, NEW u \in Task, NEW key \in Msg \cup {None},
             NEW conv \in Conv, Submit(p, u, key, conv)
      PROVE  InsertsSome(u)
  <2>1. \A t \in Task : t # None
    BY ConstantsAssumption
  <2>2. Inserts(u, None, key, conv)
    BY <1>0, <1>1, <2>1 DEF Submit, Inserts
  <2> QED
    BY <2>2 DEF InsertsSome
<1>2. ASSUME NEW p \in Proc, NEW u \in Task, NEW s \in Task, Retry(p, s, u)
      PROVE  InsertsSome(u)
  <2>1. ~Answerable(s)
    BY <1>2 DEF Retry, CanRetry, Answerable
  <2>2. Inserts(u, s, s, row[s].conv)
    BY <1>0, <1>2, <2>1 DEF Retry, Reserve, Inserts
  <2> QED
    BY <1>2, <2>2 DEF InsertsSome, Retry
<1>20. ASSUME NEW p \in Proc, NEW u \in Task, NEW s \in Task, NEW conv \in Conv,
              RetryDeleted(p, s, conv, u)
       PROVE  InsertsSome(u)
  <2>1. row[s].status = "deleted"
    BY <1>20 DEF RetryDeleted, RetriesLate
  <2>2. ~Answerable(s)
    BY <2>1, ConstantsAssumption, ConsistentRows DEF RowInv, Consistent, Answerable
  <2>3. Inserts(u, s, s, conv)
    BY <1>0, <1>20, <2>2 DEF RetryDeleted, Reserve, Inserts
  <2> QED
    BY <2>1, <2>3 DEF InsertsSome
<1>3. ASSUME NEW p \in Proc, NEW u \in Task, NEW s \in Task,
             NEW key \in Msg \cup {None}, Respond(p, s, u, key)
      PROVE  InsertsSome(u)
  <2>1. /\ Answerable(s) /\ row[u].status = "absent" /\ ~KeyTaken(key)
        /\ row' = [row EXCEPT ![s].interaction = "answered",
                              ![u] = NewRow(s, key, row[s].conv)]
    BY <1>3 DEF Respond
  <2>2. row'[u] = NewRow(s, key, row[s].conv)
    BY <1>0, <2>1
  <2>3. ASSUME NEW t \in Task \ {u}
        PROVE  row'[t] = IF t = s /\ Answerable(t)
                         THEN [row[t] EXCEPT !.interaction = "answered"]
                         ELSE row[t]
    BY <1>0, <2>1
  <2>4. Inserts(u, s, key, row[s].conv)
    BY <2>1, <2>2, <2>3 DEF Inserts
  <2> QED
    BY <2>1, <2>4 DEF InsertsSome
<1>4. ASSUME NEW u \in Task, RunnerStep(u) \/ Heartbeat(u) \/ FallDue(u)
      PROVE  Quiet
  <2> SUFFICES ASSUME NEW t \in Task PROVE Carries(row[t], row'[t])
      OBVIOUS
  <2>1. CASE Heartbeat(u) \/ FallDue(u)
    <3>1. \E b \in BOOLEAN : row' = [row EXCEPT ![u].due = b]
      BY <2>1 DEF Heartbeat, FallDue
    <3> QED
      BY <1>0, <3>1 DEF Row, Carries
  <2>2. CASE ClaimLease(u) \/ ClaimFails(u)
    <3>1. row' = row \/ /\ row[u].status \in Active
                        /\ row' = [row EXCEPT ![u] = Leased(row[u], runner[u].proc)]
      BY <2>2, <1>a DEF ClaimLease, ClaimFails, Claimable
    <3> QED
      BY <1>0, <1>b, <3>1, LeasedCarries
  <2>3. CASE Deliver(u) \/ DeliverFails(u)
    <3>1. row' = row \/ /\ row[u].status = "running"
                        /\ row' = [row EXCEPT ![u] = Succeeded(u)]
      BY <2>3 DEF Deliver, DeliverFails, OwnsLease
    <3> QED
      BY <1>0, <1>b, <3>1, SucceededCarries
  <2>4. CASE FailTask(u)
    <3>1. row' = row \/ /\ row[u].status = "running"
                        /\ row' = [row EXCEPT ![u] = Ended(row[u], "failed")]
      BY <2>4 DEF FailTask, OwnsLease
    <3> QED
      BY <1>0, <1>a, <1>b, <3>1, EndedCarries
  <2>5. CASE Register(u) \/ ReRead(u) \/ BeginCall(u)
    BY <1>b, <2>5 DEF Register, ReRead, BeginCall
  <2> QED
    BY <1>4, <2>1, <2>2, <2>3, <2>4, <2>5 DEF RunnerStep
<1>5. ASSUME NEW c \in cancels, CancelUpdate(c) PROVE Quiet
  <2>1. row' = row \/ /\ row[c.task].status \in Active
                      /\ row' = [row EXCEPT
                                   ![c.task] = Ended(row[c.task], "cancelled")]
    BY <1>5 DEF CancelUpdate, Cancellable, IsActive
  <2>2. c.task \in Task
    BY <1>0 DEF Cancel
  <2> QED
    BY <1>0, <1>a, <1>b, <2>1, <2>2, EndedCarries
<1>6. ASSUME NEW p \in Proc, NEW v \in Conv, PurgeDelete(v, p) PROVE Purges(v)
  BY <1>6 DEF PurgeDelete, Purges
<1>7. ASSUME NEW p \in Proc, Sweep(p) \/ ReleaseLeases(p) PROVE Quiet
  <2>1. ASSUME NEW t \in Task
        PROVE  \/ row'[t] = row[t]
               \/ row[t].status \in Active /\ row'[t] = Ended(row[t], "failed")
    BY <1>7, <1>a DEF Sweep, ReleaseLeases, Stale
  <2> QED
    BY <1>0, <1>a, <1>b, <2>1, EndedCarries
<1>8. ASSUME UNCHANGED row PROVE Quiet
  BY <1>b, <1>8
<1>9. CASE UNCHANGED vars
  BY <1>8, <1>9 DEF vars
<1>10. CASE Next
  BY <1>10, <1>1, <1>2, <1>3, <1>4, <1>5, <1>6, <1>7, <1>8, <1>20
     DEF Next, RemoteAnswers, RemoteFails, RemoteAborted, HeartbeatLost,
         CancelCheck, CancelReply, PurgeCheck, Start, BeginStop, Exit, Crash,
         Vanish, NewDay
<1> QED
  BY <1>9, <1>10

QuestionsEnd ==
    \A t \in Task : row[t].interaction # None => row[t].status = "succeeded"

ChildrenBelong ==
    \A s, t \in Task : t \in Children(s) =>
        /\ row[s].status # "absent"
        /\ Present(s) => row[t].conv = row[s].conv
        /\ Present(s) => \/ row[s].status \in {"failed", "cancelled"} /\ row[t].key = s
                         \/ row[s].interaction = "answered"

AnswersContinue ==
    \A s \in Task : row[s].interaction = "answered" =>
        \E c \in Task : Children(s) = {c}

LineageInv == RowInv /\ RetriesLate /\ KeysUnique /\ QuestionsEnd /\ ChildrenBelong /\ AnswersContinue

\* What an insert leaves of the table: all the other rows are present as
\* before, under the same key, parent and conversation.
LEMMA InsertKeeps ==
    ASSUME RowInv, [Next]_vars, NEW u \in Task, NEW parent, NEW key, NEW conv,
           Inserts(u, parent, key, conv)
    PROVE  /\ Present(u)' /\ ~Present(u)
           /\ row'[u].key = key /\ row'[u].parent = parent
           /\ row'[u].conv = conv /\ row'[u].interaction = None
           /\ row'[u].status = "pending"
           /\ \A t \in Task \ {u} :
                 /\ Present(t)' <=> Present(t)
                 /\ row'[t].key = row[t].key /\ row'[t].parent = row[t].parent
                 /\ row'[t].conv = row[t].conv /\ row'[t].status = row[t].status
                 /\ row'[t].interaction =
                       IF t = parent /\ Answerable(t) THEN "answered"
                       ELSE row[t].interaction
<1>1. \A t \in Task : row[t] \in Row
  BY DEF RowInv, TypeInv, TypeOK
<1>2. /\ row'[u].key = key /\ row'[u].parent = parent
      /\ row'[u].conv = conv /\ row'[u].interaction = None
      /\ row'[u].status = "pending"
  BY DEF Inserts, NewRow, NoRow
<1>3. ASSUME NEW t \in Task \ {u}
      PROVE  /\ row'[t].key = row[t].key /\ row'[t].parent = row[t].parent
             /\ row'[t].conv = row[t].conv /\ row'[t].status = row[t].status
             /\ row'[t].interaction =
                   IF t = parent /\ Answerable(t) THEN "answered"
                   ELSE row[t].interaction
  BY <1>1 DEF Inserts, Row
<1> QED
  BY <1>2, <1>3 DEF Present, Inserts

LEMMA CarriesKeeps ==
    ASSUME RowInv, QuestionsEnd, \A t \in Task : Carries(row[t], row'[t])
    PROVE  \A t \in Task :
              /\ Present(t)' <=> Present(t)
              /\ row'[t].key = row[t].key /\ row'[t].parent = row[t].parent
              /\ row'[t].conv = row[t].conv
              /\ row[t].status \in {"failed", "cancelled"} =>
                    row'[t].status = row[t].status
              /\ row'[t].interaction = "answered" <=>
                    row[t].interaction = "answered"
              /\ row'[t].interaction # None => row'[t].status = "succeeded"
BY ConstantsAssumption
   DEF Carries, Present, QuestionsEnd, Active, Terminal

\* A place in the table that was taken stays so.
LEMMA CarriesPresence ==
    ASSUME NEW t \in Task, Carries(row[t], row'[t]), row[t].status # "absent"
    PROVE  row'[t].status # "absent"
BY DEF Carries, Active, Terminal

LEMMA PurgeKeeps ==
    ASSUME NEW v, Purges(v), NEW t \in Task
    PROVE  /\ Present(t)' => row[t].conv # v
           /\ row[t].conv # v => row'[t] = row[t]
           /\ row[t].conv = v => row'[t].interaction = None
BY DEF Purges, Present, NoRow

LEMMA KeysStep == LineageInv /\ [Next]_vars => KeysUnique'
<1> SUFFICES ASSUME LineageInv, [Next]_vars, NEW s \in Task, NEW t \in Task,
                    Present(s)', Present(t)', row'[s].key = row'[t].key, s # t
             PROVE  row'[s].key = None
    BY DEF KeysUnique
<1>0. RowInv /\ RetriesLate /\ KeysUnique /\ QuestionsEnd
  BY DEF LineageInv
<1>1. ASSUME NEW u \in Task, NEW parent, NEW key, NEW conv,
             Inserts(u, parent, key, conv)
      PROVE  row'[s].key = None
  <2>1. ~KeyTaken(key)
    BY <1>1 DEF Inserts
  <2> QED
    BY <1>0, <1>1, <2>1, InsertKeeps DEF KeyTaken, KeysUnique
<1>2. ASSUME NEW u \in Task, InsertsSome(u) PROVE row'[s].key = None
  BY <1>1, <1>2 DEF InsertsSome
<1>3. ASSUME NEW v \in Conv, Purges(v) PROVE row'[s].key = None
  <2>1. row'[s] = row[s] /\ row'[t] = row[t]
    BY <1>3, PurgeKeeps
  <2> QED
    BY <1>0, <2>1 DEF KeysUnique, Present
<1>4. CASE \A x \in Task : Carries(row[x], row'[x])
  BY <1>0, <1>4, CarriesKeeps DEF KeysUnique
<1> QED
  BY <1>0, <1>2, <1>3, <1>4, LineageCases

LEMMA QuestionsStep == LineageInv /\ [Next]_vars => QuestionsEnd'
<1> SUFFICES ASSUME LineageInv, [Next]_vars, NEW t \in Task,
                    row'[t].interaction # None
             PROVE  row'[t].status = "succeeded"
    BY DEF QuestionsEnd
<1>0. RowInv /\ RetriesLate /\ QuestionsEnd
  BY DEF LineageInv
<1>1. ASSUME NEW u \in Task, NEW parent, NEW key, NEW conv,
             Inserts(u, parent, key, conv)
      PROVE  row'[t].status = "succeeded"
  <2>1. Answerable(t) => row[t].interaction # None
    BY ConstantsAssumption DEF Answerable
  <2> QED
    BY <1>0, <1>1, <2>1, InsertKeeps DEF QuestionsEnd
<1>2. ASSUME NEW u \in Task, InsertsSome(u) PROVE row'[t].status = "succeeded"
  BY <1>1, <1>2 DEF InsertsSome
<1>3. ASSUME NEW v \in Conv, Purges(v) PROVE row'[t].status = "succeeded"
  BY <1>0, <1>3, PurgeKeeps DEF QuestionsEnd
<1>4. CASE \A x \in Task : Carries(row[x], row'[x])
  BY <1>0, <1>4, CarriesKeeps
<1> QED
  BY <1>0, <1>2, <1>3, <1>4, LineageCases

\* An absent row has no children, and the row it becomes none either.
LEMMA InsertChildren ==
    ASSUME LineageInv, [Next]_vars, NEW u \in Task, NEW parent, NEW key, NEW conv,
           Inserts(u, parent, key, conv), parent # u, NEW s \in Task
    PROVE  Children(s)' = IF s = parent THEN Children(s) \cup {u} ELSE Children(s)
<1>1. RowInv
  BY DEF LineageInv
<1> QED
  BY <1>1, InsertKeeps DEF Children

LEMMA SuccessorsStep ==
    LineageInv /\ [Next]_vars => ChildrenBelong' /\ AnswersContinue'
<1> SUFFICES ASSUME LineageInv, [Next]_vars
             PROVE  ChildrenBelong' /\ AnswersContinue'
    OBVIOUS
<1>0. RowInv /\ RetriesLate /\ QuestionsEnd /\ ChildrenBelong /\ AnswersContinue
  BY DEF LineageInv
<1>a. \A s \in Task : s # None
  BY ConstantsAssumption
<1>1. ASSUME NEW u \in Task, NEW key, NEW conv, Inserts(u, None, key, conv)
      PROVE  ChildrenBelong' /\ AnswersContinue'
  <2>1. \A s \in Task : Children(s)' = Children(s)
    BY <1>1, <1>a, InsertChildren
  <2>2. \A t \in Task \ {u} :
           /\ Present(t)' <=> Present(t)
           /\ row'[t].key = row[t].key /\ row'[t].conv = row[t].conv
           /\ row'[t].status = row[t].status
           /\ row'[t].interaction = row[t].interaction
    BY <1>0, <1>1, <1>a, InsertKeeps
  <2>3. ~Present(u) /\ row'[u].interaction = None
    BY <1>0, <1>1, InsertKeeps
  <2>6. row[u].status = "absent"
    BY <1>1 DEF Inserts
  <2>4. ChildrenBelong'
    BY <1>0, <2>1, <2>2, <2>3, <2>6 DEF ChildrenBelong, Children
  <2>5. AnswersContinue'
    BY <1>0, <2>1, <2>2, <2>3, ConstantsAssumption DEF AnswersContinue
  <2> QED
    BY <2>4, <2>5
<1>2. ASSUME NEW u \in Task, NEW s \in Task, NEW key,
             Inserts(u, s, key, row[s].conv),
             (CanRetry(s) /\ key = s) \/ Answerable(s)
      PROVE  ChildrenBelong' /\ AnswersContinue'
  <2>1. Present(s) /\ s # u
    <3>1. Present(s)
      BY <1>0, <1>2, <1>a, ConstantsAssumption
         DEF CanRetry, Answerable, QuestionsEnd, Present
    <3>2. ~Present(u)
      BY <1>2 DEF Inserts, Present
    <3> QED
      BY <3>1, <3>2
  <2>2. \A x \in Task :
           Children(x)' = IF x = s THEN Children(x) \cup {u} ELSE Children(x)
    BY <1>2, <2>1, InsertChildren
  <2>3. \A t \in Task \ {u} :
           /\ Present(t)' <=> Present(t)
           /\ row'[t].key = row[t].key /\ row'[t].conv = row[t].conv
           /\ row'[t].status = row[t].status
           /\ row'[t].interaction = IF t = s /\ Answerable(t) THEN "answered"
                                    ELSE row[t].interaction
    BY <1>0, <1>2, InsertKeeps
  <2>4. /\ ~Present(u) /\ row'[u].interaction = None
        /\ row'[u].key = key /\ row'[u].conv = row[s].conv
    BY <1>0, <1>2, InsertKeeps
  <2>5. Answerable(s) => Children(s) = {} /\ row'[s].interaction = "answered"
    <3> SUFFICES ASSUME Answerable(s)
                 PROVE  Children(s) = {} /\ row'[s].interaction = "answered"
        OBVIOUS
    <3>1. row[s].interaction = "pending" /\ row[s].status = "succeeded"
      BY <1>0, ConstantsAssumption DEF Answerable, QuestionsEnd
    <3> QED
      BY <1>0, <2>1, <2>3, <3>1 DEF ChildrenBelong, Children
  <2>6. CanRetry(s) => row[s].interaction # "answered"
    BY <1>0, ConstantsAssumption DEF CanRetry, QuestionsEnd
  <2>7. ASSUME NEW x \in Task, NEW t \in Task, t \in Children(x)'
        PROVE  /\ row'[x].status # "absent"
               /\ Present(x)' =>
                    /\ row'[t].conv = row'[x].conv
                    /\ \/ row'[x].status \in {"failed", "cancelled"} /\ row'[t].key = x
                       \/ row'[x].interaction = "answered"
    <3>1. CASE t = u
      <4>1. x = s
        BY <2>2, <2>4, <2>7, <3>1 DEF Children
      <4> QED
        BY <1>2, <2>1, <2>3, <2>4, <2>5, <3>1, <4>1 DEF CanRetry, Present
    <3>2. CASE t # u
      <4>1. t \in Children(x) /\ x # u
        BY <1>0, <1>2, <2>2, <2>7, <3>2 DEF ChildrenBelong, Inserts, Children
      <4> QED
        BY <1>0, <2>3, <3>2, <4>1 DEF ChildrenBelong, Children
    <3> QED
      BY <3>1, <3>2
  <2>8. ASSUME NEW x \in Task, row'[x].interaction = "answered"
        PROVE  \E c \in Task : Children(x)' = {c}
    <3>1. x # u
      BY <2>4, <2>8, ConstantsAssumption
    <3>2. CASE x = s
      <4>1. row[s].interaction = "answered" \/ Answerable(s)
        BY <2>3, <2>8, <3>1, <3>2
      <4>2. Answerable(s)
        BY <1>2, <2>6, <4>1
      <4>3. Children(x)' = {u}
        BY <2>2, <2>5, <3>2, <4>2
      <4> QED
        BY <4>3
    <3>3. CASE x # s
      <4>1. row[x].interaction = "answered" /\ Children(x)' = Children(x)
        BY <2>2, <2>3, <2>8, <3>1, <3>3
      <4> QED
        BY <1>0, <4>1 DEF AnswersContinue
    <3> QED
      BY <3>2, <3>3
  <2>9. ChildrenBelong'
    BY <2>7 DEF ChildrenBelong
  <2>10. AnswersContinue'
    BY <2>8 DEF AnswersContinue
  <2> QED
    BY <2>9, <2>10
\* A late retry adds a child to a row that is no longer there.
<1>6. ASSUME NEW u \in Task, NEW s \in Task, NEW key, NEW conv,
             Inserts(u, s, key, conv), row[s].status = "deleted"
      PROVE  ChildrenBelong' /\ AnswersContinue'
  <2>1. ~Present(s) /\ s # u /\ row[s].interaction = None /\ ~Answerable(s)
    BY <1>0, <1>6, ConstantsAssumption DEF Inserts, QuestionsEnd, Present, Answerable
  <2>2. \A x \in Task :
           Children(x)' = IF x = s THEN Children(x) \cup {u} ELSE Children(x)
    BY <1>6, <2>1, InsertChildren
  <2>3. \A t \in Task \ {u} :
           /\ Present(t)' <=> Present(t)
           /\ row'[t].key = row[t].key /\ row'[t].conv = row[t].conv
           /\ row'[t].status = row[t].status
           /\ row'[t].interaction = row[t].interaction
    BY <1>0, <1>6, <2>1, InsertKeeps
  <2>4. row[u].status = "absent" /\ row'[u].interaction = None
    <3>1. row[u].status = "absent"
      BY <1>6 DEF Inserts
    <3>2. row'[u].interaction = None
      BY <1>0, <1>6, InsertKeeps
    <3> QED
      BY <3>1, <3>2
  <2>5. ChildrenBelong'
    <3> SUFFICES ASSUME NEW x \in Task, NEW t \in Task, t \in Children(x)'
                 PROVE  /\ row'[x].status # "absent"
                        /\ Present(x)' =>
                             /\ row'[t].conv = row'[x].conv
                             /\ \/ row'[x].status \in {"failed", "cancelled"} /\ row'[t].key = x
                                \/ row'[x].interaction = "answered"
        BY DEF ChildrenBelong
    <3>1. CASE x = s
      BY <1>6, <2>1, <2>3, <3>1
    <3>2. CASE x # s
      <4>1. t \in Children(x) /\ x # u /\ t # u
        BY <1>0, <2>2, <2>4, <3>2 DEF ChildrenBelong, Children
      <4> QED
        BY <1>0, <2>3, <4>1 DEF ChildrenBelong
    <3> QED
      BY <3>1, <3>2
  <2>6. AnswersContinue'
    BY <1>0, <2>1, <2>2, <2>3, <2>4, ConstantsAssumption DEF AnswersContinue
  <2> QED
    BY <2>5, <2>6
<1>3. ASSUME NEW u \in Task, InsertsSome(u)
      PROVE  ChildrenBelong' /\ AnswersContinue'
  BY <1>1, <1>2, <1>3, <1>6 DEF InsertsSome
<1>4. ASSUME NEW v \in Conv, Purges(v)
      PROVE  ChildrenBelong' /\ AnswersContinue'
  <2>1. ASSUME NEW t \in Task
        PROVE  /\ row[t].conv # v => row'[t] = row[t]
               /\ row[t].conv = v => ~Present(t)' /\ row'[t].interaction = None
    BY <1>4, PurgeKeeps
  <2>2. ASSUME NEW s \in Task
        PROVE  Children(s)' = {t \in Children(s) : row[t].conv # v}
    BY <2>1 DEF Children, Present
  <2>3. ASSUME NEW s \in Task, NEW t \in Task, t \in Children(s)'
        PROVE  /\ row'[s].status # "absent"
               /\ Present(s)' =>
                    /\ row'[t].conv = row'[s].conv
                    /\ \/ row'[s].status \in {"failed", "cancelled"} /\ row'[t].key = s
                       \/ row'[s].interaction = "answered"
    <3>1. t \in Children(s) /\ row[t].conv # v /\ row'[t] = row[t]
      BY <2>1, <2>2, <2>3
    <3>2. CASE row[s].conv = v
      <4>1. ~Present(s)' /\ row'[s].status # "absent"
        BY <1>4, <2>1, <3>2 DEF Purges, NoRow
      <4> QED
        BY <4>1
    <3>3. CASE row[s].conv # v
      <4>1. row'[s] = row[s]
        BY <2>1, <3>3
      <4> QED
        BY <1>0, <3>1, <4>1 DEF ChildrenBelong, Present
    <3> QED
      BY <3>2, <3>3
  <2>4. ASSUME NEW s \in Task, row'[s].interaction = "answered"
        PROVE  \E c \in Task : Children(s)' = {c}
    <3>1. row[s].conv # v /\ row[s].interaction = "answered"
      BY <2>1, <2>4, ConstantsAssumption
    <3>2. PICK c \in Task : Children(s) = {c}
      BY <1>0, <3>1 DEF AnswersContinue
    <3>3. row[c].conv # v
      <4>1. Present(s)
        BY <1>0, <3>1, ConstantsAssumption DEF QuestionsEnd, Present
      <4> QED
        BY <1>0, <3>1, <3>2, <4>1 DEF ChildrenBelong
    <3>4. Children(s)' = {c}
      BY <2>2, <3>2, <3>3
    <3> QED
      BY <3>4
  <2>5. ChildrenBelong'
    BY <2>3 DEF ChildrenBelong
  <2>6. AnswersContinue'
    BY <2>4 DEF AnswersContinue
  <2> QED
    BY <2>5, <2>6
<1>5. CASE \A x \in Task : Carries(row[x], row'[x])
  <2>1. \A s \in Task : Children(s)' = Children(s)
    BY <1>0, <1>5, CarriesKeeps DEF Children
  <2>2. ChildrenBelong'
    BY <1>0, <1>5, <2>1, CarriesKeeps, CarriesPresence DEF ChildrenBelong
  <2>3. AnswersContinue'
    BY <1>0, <1>5, <2>1, CarriesKeeps DEF AnswersContinue
  <2> QED
    BY <2>2, <2>3
<1> QED
  BY <1>0, <1>3, <1>4, <1>5, LineageCases

\* What a deletion overtakes is deleted by the same statement, and stays so.
LEMMA RetriesStep == LineageInv /\ [Next]_vars => RetriesLate'
<1> SUFFICES ASSUME LineageInv, [Next]_vars, NEW r \in retries'
             PROVE  row'[r[1]].status = "deleted"
    BY DEF RetriesLate
<1>0. /\ RowInv /\ RetriesLate /\ retries \subseteq Task \X Conv \X Proc
      /\ \A t \in Task : row[t].status = "deleted" => row'[t].status = "deleted"
  BY RowStep DEF LineageInv, RowInv, TypeInv, TypeOK, Advances, Active, Terminal
<1>1. CASE r \in retries
  BY <1>0, <1>1 DEF RetriesLate
<1>2. ASSUME NEW p \in Proc, NEW v \in Conv, PurgeDelete(v, p), r \notin retries
      PROVE  row'[r[1]].status = "deleted"
  <2>1. r[1] \in Task /\ row[r[1]].conv = v
    BY <1>2 DEF PurgeDelete, Overtaken
  <2> QED
    BY <1>2, <2>1 DEF PurgeDelete, NoRow
<1>3. CASE retries' \subseteq retries
  BY <1>1, <1>3
<1>4. retries' \subseteq retries \/ \E p \in Proc, v \in Conv : PurgeDelete(v, p)
  BY DEF Next, vars, Submit, Retry, RetryDeleted, Reserve, Respond, NewDay,
     RunnerStep, ClaimLease, ClaimFails, Register, ReRead, BeginCall, Deliver,
     DeliverFails, FailTask, RemoteAnswers, RemoteFails, RemoteAborted,
     Heartbeat, HeartbeatLost, FallDue, CancelCheck, CancelUpdate, CancelReply,
     PurgeCheck, Sweep, Start, BeginStop, ReleaseLeases, Exit, Crash, Vanish
<1> QED
  BY <1>1, <1>2, <1>3, <1>4

LEMMA LineageStep == LineageInv /\ [Next]_vars => LineageInv'
BY RowInvStep, RetriesStep, KeysStep, QuestionsStep, SuccessorsStep DEF LineageInv

LEMMA LineageInit == Init => LineageInv
<1> SUFFICES ASSUME Init PROVE LineageInv
    OBVIOUS
<1>1. \A t \in Task : ~Present(t) /\ row[t].interaction = None
  BY DEF Init, NoRow, Present
<1>2. RetriesLate /\ KeysUnique /\ QuestionsEnd /\ ChildrenBelong
  BY <1>1 DEF Init, RetriesLate, KeysUnique, QuestionsEnd, ChildrenBelong, Children
<1>3. AnswersContinue
  BY <1>1, ConstantsAssumption DEF AnswersContinue
<1> QED
  BY <1>2, <1>3, RowInvInit DEF LineageInv

\* No two rows of the table have the same sourceMessageId.
THEOREM KeysStayUnique == Spec => []KeysUnique
<1>1. LineageInv => KeysUnique
  BY DEF LineageInv
<1> QED
  BY <1>1, LineageInit, LineageStep, PTL DEF Spec

\* A task is carried on at most once: by one retry or by one continuation.
THEOREM CarriedOnOnce == Spec => []OneSuccessor
<1>1. LineageInv => OneSuccessor
  <2> SUFFICES ASSUME LineageInv, NEW s \in Task, Present(s)
               PROVE  /\ Cardinality(Children(s)) <= 1
                      /\ Children(s) # {} =>
                            \/ row[s].status \in {"failed", "cancelled"}
                            \/ row[s].interaction = "answered"
                      /\ row[s].interaction = "answered" => Children(s) # {}
      BY DEF OneSuccessor
  <2>0. KeysUnique /\ QuestionsEnd /\ ChildrenBelong /\ AnswersContinue
    BY DEF LineageInv
  <2>1. Children(s) \subseteq Task
    BY DEF Children
  <2>2. Children(s) = {} \/ \E c \in Task : Children(s) = {c}
    <3>1. CASE row[s].interaction = "answered"
      BY <2>0, <3>1 DEF AnswersContinue
    <3>2. CASE row[s].interaction # "answered"
      <4>1. \A c \in Children(s) : c \in Task /\ Present(c) /\ row[c].key = s
        BY <2>0, <3>2 DEF ChildrenBelong, Children
      <4>2. s # None
        BY ConstantsAssumption
      <4>3. \A c, d \in Children(s) : c = d
        BY <2>0, <4>1, <4>2 DEF KeysUnique
      <4> QED
        BY <2>1, <4>3
    <3> QED
      BY <3>1, <3>2
  <2>3. Cardinality(Children(s)) <= 1
    BY <2>2, FS_EmptySet, FS_Singleton
  <2>4. Children(s) # {} => \/ row[s].status \in {"failed", "cancelled"}
                            \/ row[s].interaction = "answered"
    BY <2>0, <2>1 DEF ChildrenBelong
  <2>5. row[s].interaction = "answered" => Children(s) # {}
    BY <2>0 DEF AnswersContinue
  <2> QED
    BY <2>3, <2>4, <2>5
<1> QED
  BY <1>1, LineageInit, LineageStep, PTL DEF Spec

-----------------------------------------------------------------------------
(* Refinement of TaskLedger.                                               *)

status == [t \in Task |-> row[t].status]
question == [t \in Task |-> row[t].interaction]

LEMMA LedgerRoom == ConcurrencyAllows => Ledger!Room
<1>1. {t \in Task : status[t] \in Ledger!Open} = ActiveTasks
  BY DEF status, ActiveTasks, IsActive, Active, Ledger!Open
<1> QED
  BY <1>1 DEF ConcurrencyAllows, WithinLimit, Ledger!Room, status,
             Cardinality, Ledger!Cardinality

\* A set of open tasks fails in one statement.
LEMMA FailRefines ==
    ASSUME RowInv, NEW S \in SUBSET Task,
           \A t \in S : row[t].status \in Active,
           row' = [t \in Task |-> IF t \in S THEN Ended(row[t], "failed")
                                             ELSE row[t]]
    PROVE  Ledger!Fail(S)
<1>1. \A t \in Task : row[t] \in Row
  BY DEF RowInv, TypeInv, TypeOK
<1>2. \A t \in Task :
         /\ row'[t].status = IF t \in S THEN "failed" ELSE row[t].status
         /\ row'[t].interaction = row[t].interaction
  BY <1>1 DEF Ended, Row
<1> QED
  BY <1>2 DEF Ledger!Fail, Ledger!Open, Active

LEMMA LedgerStep ==
    RowInv /\ [Next]_vars => [Ledger!LedgerNext]_(Ledger!ledgerVars)
<1> SUFFICES ASSUME RowInv, [Next]_vars
             PROVE  Ledger!LedgerNext \/ UNCHANGED <<status, question>>
    BY DEF Ledger!ledgerVars, status, question
<1>0. /\ row \in [Task -> Row] /\ cancels \subseteq Cancel
      /\ \A t \in Task : Consistent(row[t]) /\ row[t] \in Row
  BY ConsistentRows DEF RowInv, TypeInv, TypeOK
<1> DEFINE Goal == Ledger!LedgerNext \/ UNCHANGED <<status, question>>
<1>1. ASSUME NEW t \in Task, NEW parent, NEW key, NEW conv, Opens(t),
             row' = [row EXCEPT ![t] = NewRow(parent, key, conv)]
      PROVE  Goal
  <2>1. row[t].interaction = None
    BY <1>0, <1>1 DEF Consistent, Opens
  <2>2. \A u \in Task :
           /\ row'[u].status = IF u = t THEN "pending" ELSE row[u].status
           /\ row'[u].interaction = row[u].interaction
    BY <1>0, <1>1, <2>1 DEF NewRow, NoRow
  <2>3. Ledger!OpenTask(t)
    BY <1>1, <2>2, LedgerRoom DEF Ledger!OpenTask, Opens
  <2> QED
    BY <2>3 DEF Ledger!LedgerNext
<1>2. ASSUME NEW p \in Proc, NEW t \in Task, NEW s \in Task,
             NEW key \in Msg \cup {None}, Respond(p, s, t, key)
      PROVE  Goal
  <2>1. /\ row[s].interaction = "pending" /\ row[t].status = "absent"
        /\ ConcurrencyAllows
        /\ row' = [row EXCEPT ![s].interaction = "answered",
                              ![t] = NewRow(s, key, row[s].conv)]
    BY <1>2 DEF Respond, Answerable
  <2>2. row[t].interaction = None /\ s # t
    BY <1>0, <2>1, ConstantsAssumption DEF Consistent
  <2>3. \A u \in Task :
           /\ row'[u].status = IF u = t THEN "pending" ELSE row[u].status
           /\ row'[u].interaction = IF u = s THEN "answered"
                                             ELSE row[u].interaction
    BY <1>0, <2>1, <2>2 DEF NewRow, NoRow, Row
  <2>4. Ledger!AnswerQuestion(s, t)
    BY <2>1, <2>3, LedgerRoom DEF Ledger!AnswerQuestion
  <2> QED
    BY <2>4 DEF Ledger!LedgerNext
<1>3. ASSUME UNCHANGED row PROVE Goal
  BY <1>3 DEF status, question
<1>4. ASSUME NEW t \in Task, ClaimLease(t) \/ ClaimFails(t) PROVE Goal
  <2>1. CASE /\ row[t].status \in Active
             /\ row' = [row EXCEPT ![t] = Leased(row[t], runner[t].proc)]
    <3>1. \A u \in Task :
             /\ row'[u].status = IF u = t THEN "running" ELSE row[u].status
             /\ row'[u].interaction = row[u].interaction
      BY <1>0, <2>1 DEF Leased, Row
    <3>2. CASE row[t].status = "pending"
      <4>1. Ledger!Begin(t)
        BY <3>1, <3>2 DEF Ledger!Begin
      <4> QED
        BY <4>1 DEF Ledger!LedgerNext
    <3>3. CASE row[t].status = "running"
      <4>1. \A u \in Task : /\ row'[u].status = row[u].status
                            /\ row'[u].interaction = row[u].interaction
        BY <3>1, <3>3
      <4> QED
        BY <4>1 DEF status, question
    <3> QED
      BY <2>1, <3>2, <3>3 DEF Active
  <2> QED
    BY <1>3, <1>4, <2>1 DEF ClaimLease, ClaimFails, Claimable, Active
<1>5. ASSUME NEW t \in Task, Deliver(t) \/ DeliverFails(t) PROVE Goal
  <2>1. CASE row[t].status = "running" /\ row' = [row EXCEPT ![t] = Succeeded(t)]
    <3> DEFINE asks == runner[t].pc = "asked"
               e == Ended(row[t], "succeeded")
    <3>1. e \in Row /\ e.status = "succeeded"
      <4>1. e \in Row
        BY <1>0, EndedType DEF Status, Terminal
      <4>2. row[t] \in Row
        BY <1>0
      <4> QED
        BY <4>1, <4>2 DEF Ended, Row
    <3>2. /\ Succeeded(t).status = "succeeded"
          /\ Succeeded(t).interaction = IF asks THEN "pending" ELSE None
      <4> HIDE DEF e
      <4>1. Succeeded(t) = [e EXCEPT !.interaction =
                               IF runner[t].pc = "asked" THEN "pending" ELSE None]
        BY DEF Succeeded, e
      <4> QED
        BY <3>1, <4>1 DEF Row
    <3>3. \A u \in Task :
             /\ row'[u].status = IF u = t THEN "succeeded" ELSE row[u].status
             /\ row'[u].interaction =
                   IF u = t THEN (IF asks THEN "pending" ELSE None)
                            ELSE row[u].interaction
      BY <1>0, <2>1, <3>2
    <3>4. CASE runner[t].pc = "asked"
      <4>1. Ledger!Succeed(t, TRUE)
        BY <2>1, <3>3, <3>4 DEF Ledger!Succeed
      <4> QED
        BY <4>1 DEF Ledger!LedgerNext
    <3>5. CASE runner[t].pc # "asked"
      <4>1. Ledger!Succeed(t, FALSE)
        BY <2>1, <3>3, <3>5 DEF Ledger!Succeed
      <4> QED
        BY <4>1 DEF Ledger!LedgerNext
    <3> QED
      BY <3>4, <3>5
  <2> QED
    BY <1>3, <1>5, <2>1 DEF Deliver, DeliverFails, OwnsLease
<1>6. ASSUME NEW S \in SUBSET Task, \A t \in S : row[t].status \in Active,
             row' = [t \in Task |-> IF t \in S THEN Ended(row[t], "failed")
                                               ELSE row[t]]
      PROVE  Goal
  BY <1>6, FailRefines DEF Ledger!LedgerNext
<1>7. ASSUME NEW t \in Task, FailTask(t) PROVE Goal
  <2>1. CASE /\ row[t].status = "running"
             /\ row' = [row EXCEPT ![t] = Ended(row[t], "failed")]
    <3>1. row' = [u \in Task |-> IF u \in {t} THEN Ended(row[u], "failed")
                                              ELSE row[u]]
      BY <1>0, <2>1
    <3> QED
      BY <1>6, <2>1, <3>1 DEF Active
  <2> QED
    BY <1>3, <1>7, <2>1 DEF FailTask, OwnsLease
<1>8. ASSUME NEW p \in Proc, Sweep(p) \/ ReleaseLeases(p) PROVE Goal
  <2>1. CASE Sweep(p)
    <3> DEFINE S == {t \in Task : Stale(t)}
    <3>1. \A t \in S : row[t].status \in Active
      BY DEF Stale, Active
    <3>2. row' = [t \in Task |-> IF t \in S THEN Ended(row[t], "failed")
                                            ELSE row[t]]
      BY <2>1 DEF Sweep
    <3> QED
      BY <1>6, <3>1, <3>2
  <2>2. CASE ReleaseLeases(p)
    <3> DEFINE S == {t \in Task : row[t].status = "running" /\ row[t].owner = p}
    <3>1. \A t \in S : row[t].status \in Active
      BY DEF Active
    <3>2. row' = [t \in Task |-> IF t \in S THEN Ended(row[t], "failed")
                                            ELSE row[t]]
      BY <2>2 DEF ReleaseLeases
    <3> QED
      BY <1>6, <3>1, <3>2
  <2> QED
    BY <1>8, <2>1, <2>2
<1>9. ASSUME NEW t \in Task, Heartbeat(t) \/ FallDue(t) PROVE Goal
  <2>1. \A u \in Task : /\ row'[u].status = row[u].status
                        /\ row'[u].interaction = row[u].interaction
    BY <1>0, <1>9 DEF Heartbeat, FallDue, Row
  <2> QED
    BY <2>1 DEF status, question
<1>10. ASSUME NEW c \in cancels, CancelUpdate(c) PROVE Goal
  <2> DEFINE t == c.task
  <2>1. t \in Task
    BY <1>0 DEF Cancel
  <2>2. CASE /\ row[t].status \in Active
             /\ row' = [row EXCEPT ![t] = Ended(row[t], "cancelled")]
    <3>1. \A u \in Task :
             /\ row'[u].status = IF u = t THEN "cancelled" ELSE row[u].status
             /\ row'[u].interaction = row[u].interaction
      BY <1>0, <2>1, <2>2 DEF Ended, Row
    <3>2. Ledger!CancelTask(t)
      BY <2>1, <2>2, <3>1 DEF Ledger!CancelTask, Ledger!Open, Active
    <3> QED
      BY <2>1, <3>2 DEF Ledger!LedgerNext
  <2> QED
    BY <1>3, <1>10, <2>2 DEF CancelUpdate, Cancellable, IsActive
<1>11. ASSUME NEW p \in Proc, NEW v \in Conv, PurgeDelete(v, p) PROVE Goal
  <2>1. PICK S \in SUBSET Task : S = {t \in Task : row[t].conv = v}
    OBVIOUS
  <2>2. \A t \in S : row[t].status \notin {"absent", "deleted"}
    BY <1>0, <2>1, ConstantsAssumption DEF Consistent
  <2>3. \A u \in Task :
           /\ row'[u].status = IF u \in S THEN "deleted" ELSE row[u].status
           /\ row'[u].interaction = IF u \in S THEN None
                                               ELSE row[u].interaction
    BY <1>11, <2>1 DEF PurgeDelete, NoRow
  <2>4. Ledger!Delete(S)
    BY <2>2, <2>3 DEF Ledger!Delete
  <2> QED
    BY <2>4 DEF Ledger!LedgerNext
<1>12. ASSUME NEW p \in Proc, NEW u \in Task, NEW key \in Msg \cup {None},
              NEW conv \in Conv, Submit(p, u, key, conv)
       PROVE  Goal
  BY <1>1, <1>12 DEF Submit, Opens
<1>13. ASSUME NEW p \in Proc, NEW u \in Task, NEW s \in Task, Retry(p, s, u)
       PROVE  Goal
  BY <1>1, <1>13 DEF Retry, Reserve, Opens
<1>20. ASSUME NEW p \in Proc, NEW u \in Task, NEW s \in Task, NEW conv \in Conv,
              RetryDeleted(p, s, conv, u)
       PROVE  Goal
  BY <1>1, <1>20 DEF RetryDeleted, Reserve, Opens
<1>14. CASE UNCHANGED vars
  BY <1>3, <1>14 DEF vars
<1>15. CASE Next
  BY <1>15, <1>2, <1>3, <1>4, <1>5, <1>7, <1>8, <1>9, <1>10, <1>11, <1>12,
     <1>13, <1>20
     DEF Next, RunnerStep, Register, ReRead, BeginCall, RemoteAnswers,
         RemoteFails, RemoteAborted, HeartbeatLost, CancelCheck, CancelReply,
         PurgeCheck, Start, BeginStop, Exit, Crash, Vanish, NewDay
<1> QED
  BY <1>14, <1>15

\* What processes, leases and sweeps do to the table is what the ledger allows.
THEOREM LedgerImplemented == Spec => ImplementsLedger
<1>1. Init => Ledger!LedgerInit
  BY DEF Init, Ledger!LedgerInit, NoRow
<1> QED
  BY <1>1, RowInvInit, RowInvStep, LedgerStep, PTL
     DEF Spec, ImplementsLedger, Ledger!LedgerSpec

=============================================================================
