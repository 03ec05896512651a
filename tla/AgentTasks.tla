----------------------------- MODULE AgentTasks -----------------------------
(***************************************************************************)
(* The tasks that users hand to one expert agent, as several EA server     *)
(* processes see them: the rows of agent_tasks in the shared MySQL, the    *)
(* runner that a process starts for every row it inserts, the leases the   *)
(* runners hold, the sweep that fails abandoned rows, and the submit,      *)
(* retry, respond, cancel and delete-conversation requests.                *)
(*                                                                         *)
(* The rows of different experts only meet in statements that treat each   *)
(* row alone, so the module has one expert and one adoption.  A process is *)
(* one incarnation: its lease owner id "ea:<pid>:<uuid>" is never reused,  *)
(* so a restarted server is another member of Proc.  Time appears as the   *)
(* flag `due' of a row: its lease, or the two minutes a pending row may    *)
(* wait, have run out.                                                     *)
(***************************************************************************)
EXTENDS Integers, FiniteSets

CONSTANTS Task,           \* row ids; every insert takes one never used before
          Proc,           \* server process incarnations
          Msg,            \* sourceMessageIds chosen by clients
          Conv,           \* conversations
          MaxConcurrent,  \* endpointConfig.maxConcurrent, 0 = unlimited
          MaxDaily,       \* agentDailyRequestLimit, 0 = unlimited
          MaxCancels,     \* bound: cancel requests in a behaviour
          MaxPurges,      \* bound: conversation deletions under way at once
          Page,           \* tasks a deletion looks at; 100 in the code
          MaxRetries,     \* bound: retries overtaken by a deletion
          None            \* SQL NULL

ASSUME ConstantsAssumption ==
    /\ MaxConcurrent \in Nat /\ MaxDaily \in Nat
    /\ MaxCancels \in Nat /\ MaxPurges \in Nat /\ MaxRetries \in Nat
    /\ Page \in Nat
    /\ IsFiniteSet(Task)
    /\ Msg \cap Task = {}
    /\ None \notin Task \cup Proc \cup Msg \cup Conv
    /\ None \notin {"pending", "answered"}

VARIABLES row,      \* [Task -> Row], the table
          counted,  \* root rows created since 0:00, kept when MaxDaily > 0
          runner,   \* [Task -> Runner], runAgentTaskInBackground
          phase,    \* [Proc -> Phase]
          cancels,  \* cancel requests under way or answered with "cancelled"
          purges,   \* conversation deletions that have passed their check
          retries   \* retries whose task was deleted since they read it

vars == <<row, counted, runner, phase, cancels, purges, retries>>

Active   == {"pending", "running"}
Terminal == {"succeeded", "failed", "cancelled"}
Status   == {"absent", "deleted"} \cup Active \cup Terminal

\* `key' is the sourceMessageId; "retry:<id>" is represented by the id.
Row == [status : Status, owner : Proc \cup {None}, due : BOOLEAN,
        attempts : Nat, interaction : {None, "pending", "answered"},
        parent : Task \cup {None}, key : Msg \cup Task \cup {None},
        conv : Conv \cup {None}]

NoRow == [status |-> "absent", owner |-> None, due |-> FALSE, attempts |-> 0,
          interaction |-> None, parent |-> None, key |-> None, conv |-> None]

\* Where the runner of a row is:
\*   launched    about to claim the lease
\*   claimed     the claim is committed, the controller not yet registered
\*   registered  controller and heartbeat exist, the row is being re-read
\*   authorizing the row was its own; authority and egress checks run
\*   calling     the remote expert works on the task
\*   answered, asked   a result, or a question to the user, is in hand
\*   failing     in the catch block
PC == {"none", "launched", "claimed", "registered", "authorizing", "calling",
       "answered", "asked", "failing", "done"}
Heartbeating == {"registered", "authorizing", "calling", "answered", "asked"}
Abortable    == {"registered", "authorizing", "calling"}

Runner == [pc : PC, proc : Proc \cup {None}, aborted : BOOLEAN]
NoRunner == [pc |-> "none", proc |-> None, aborted |-> FALSE]
Finished == [pc |-> "done", proc |-> None, aborted |-> FALSE]

\* stopping: the stop function of the task runtime is waiting for the runners;
\* released: it has failed the rows the process owned.
Phase == {"idle", "up", "stopping", "released", "exited", "crashed"}

Cancel == [task : Task, proc : Proc, step : {"checked", "updated", "replied"}]

TypeOK ==
    /\ row \in [Task -> Row]
    /\ counted \subseteq Task
    /\ runner \in [Task -> Runner]
    /\ phase \in [Proc -> Phase]
    /\ cancels \subseteq Cancel
    /\ purges \subseteq Conv \X Proc
    /\ retries \subseteq Task \X Conv \X Proc

Init ==
    /\ row = [t \in Task |-> NoRow]
    /\ counted = {}
    /\ runner = [t \in Task |-> NoRunner]
    /\ phase = [p \in Proc |-> "idle"]
    /\ cancels = {}
    /\ purges = {}
    /\ retries = {}

-----------------------------------------------------------------------------
(* Readings of the table                                                   *)

Present(t)   == row[t].status \notin {"absent", "deleted"}
IsActive(t)  == row[t].status \in Active
ActiveTasks  == {t \in Task : IsActive(t)}
\* Mutant: the duplicate check looks at open tasks only.
KeyTakenWhileOpen(k) == k # None /\ \E t \in Task : IsActive(t) /\ row[t].key = k

KeyTaken(k)  == k # None /\ \E t \in Task : Present(t) /\ row[t].key = k
OwnsLease(t) == row[t].status = "running" /\ row[t].owner = runner[t].proc

\* Mutant: the comparison admits one too many.
WithinLimitOffByOne(n, limit) == limit = 0 \/ n <= limit

WithinLimit(n, limit) == limit = 0 \/ n < limit
ConcurrencyAllows == WithinLimit(Cardinality(ActiveTasks), MaxConcurrent)
DailyAllows       == WithinLimit(Cardinality(counted), MaxDaily)

\* A request admitted before the drain began is still served while the
\* process stops, until it exits.
Serving(p) == phase[p] \in {"up", "stopping", "released"}

NewRow(parent, key, conv) ==
    [NoRow EXCEPT !.status = "pending", !.parent = parent,
                  !.key = key, !.conv = conv]
Launched(p) == [pc |-> "launched", proc |-> p, aborted |-> FALSE]

\* Mutant: the lease is left on the row.
EndedUnderLease(r, status) == [r EXCEPT !.status = status, !.due = FALSE]

\* The terminal fields every UPDATE that ends a task writes.
Ended(r, status) == [r EXCEPT !.status = status, !.owner = None, !.due = FALSE]

At(t, pc) == [runner[t] EXCEPT !.pc = pc]
OutOf(t, pc) == [runner[t] EXCEPT !.pc = pc, !.aborted = FALSE]

-----------------------------------------------------------------------------
(* Requests that insert a row.  Only the inserting branch changes state:   *)
(* "existing", "concurrency_exceeded", "daily_exceeded" and                *)
(* "already_answered" are the guards.                                      *)

\* POST submit: reserveAgentTask under the FOR UPDATE lock of the expert's
\* row, then startAgentTaskInBackground in the same process.
Submit(p, t, key, conv) ==
    /\ Serving(p)
    /\ row[t].status = "absent"
    /\ ~KeyTaken(key)
    /\ ConcurrencyAllows
    /\ DailyAllows
    /\ row' = [row EXCEPT ![t] = NewRow(None, key, conv)]
    /\ counted' = IF MaxDaily = 0 THEN counted ELSE counted \cup {t}
    /\ runner' = [runner EXCEPT ![t] = Launched(p)]
    /\ UNCHANGED <<phase, cancels, purges, retries>>

\* normalizeAgentTaskLifecycle and canRetryAgentTask.
CanRetry(s) == row[s].status \in {"failed", "cancelled"}
               /\ row[s].interaction # "pending"

\* POST retry of task s: the new row is keyed by s and exempt from the daily
\* limit.  The task is read well before the reservation, but what is read stays
\* true of it until it is deleted.
Reserve(p, s, conv, t) ==
    /\ row[t].status = "absent"
    /\ ~KeyTaken(s)
    /\ ConcurrencyAllows
    /\ row' = [row EXCEPT ![t] = NewRow(s, s, conv)]
    /\ runner' = [runner EXCEPT ![t] = Launched(p)]
    /\ UNCHANGED <<counted, phase, cancels, purges>>

Retry(p, s, t) ==
    /\ Serving(p)
    /\ CanRetry(s)
    /\ Reserve(p, s, row[s].conv, t)
    /\ UNCHANGED retries

\* The reservation does not look at s again: a retry that a deletion has
\* overtaken still inserts its row.
RetryDeleted(p, s, conv, t) ==
    /\ <<s, conv, p>> \in retries
    /\ Reserve(p, s, conv, t)
    /\ retries' = retries \ {<<s, conv, p>>}

\* Mutant: the UPDATE matches an answered question too.
AnswerableAgain(s) == row[s].interaction # None

\* The guarded UPDATE of interaction_status in
\* answerAgentTaskInteractionAndCreate.
Answerable(s) == row[s].interaction = "pending"

\* POST respond to the question of task s: answering it and inserting the
\* continuation is one transaction; a key that is taken rolls it back.
Respond(p, s, t, key) ==
    /\ Serving(p)
    /\ Answerable(s)
    /\ row[t].status = "absent"
    /\ ~KeyTaken(key)
    /\ ConcurrencyAllows
    /\ row' = [row EXCEPT ![s].interaction = "answered",
                          ![t] = NewRow(s, key, row[s].conv)]
    /\ runner' = [runner EXCEPT ![t] = Launched(p)]
    /\ UNCHANGED <<counted, phase, cancels, purges, retries>>

\* Midnight: dayStartedAt moves past every row.
NewDay ==
    /\ counted # {}
    /\ counted' = {}
    /\ UNCHANGED <<row, runner, phase, cancels, purges, retries>>

-----------------------------------------------------------------------------
(* The runner of a row                                                     *)

\* Mutant: the claim matches the row by its id alone.
ClaimableById(t) == Present(t)

\* claimAgentTaskLease; a row of another owner only once its lease is due.
Claimable(t) ==
    \/ row[t].status = "pending"
    \/ /\ row[t].status = "running"
       /\ row[t].owner \in {None, runner[t].proc} \/ row[t].due

Leased(r, p) == [r EXCEPT !.status = "running", !.owner = p, !.due = FALSE,
                          !.attempts = @ + 1]

ClaimLease(t) ==
    /\ runner[t].pc = "launched"
    /\ IF Claimable(t)
       THEN /\ row' = [row EXCEPT ![t] = Leased(row[t], runner[t].proc)]
            /\ runner' = [runner EXCEPT ![t] = At(t, "claimed")]
       ELSE /\ runner' = [runner EXCEPT ![t] = Finished]
            /\ UNCHANGED row
    /\ UNCHANGED <<counted, phase, cancels, purges, retries>>

\* The claim throws, before or after it was committed.
ClaimFails(t) ==
    /\ runner[t].pc = "launched"
    /\ runner' = [runner EXCEPT ![t] = OutOf(t, "failing")]
    /\ \/ UNCHANGED row
       \/ /\ Claimable(t)
          /\ row' = [row EXCEPT ![t] = Leased(row[t], runner[t].proc)]
    /\ UNCHANGED <<counted, phase, cancels, purges, retries>>

\* The claim's answer arrives: controller and heartbeat are registered.
Register(t) ==
    /\ runner[t].pc = "claimed"
    /\ runner' = [runner EXCEPT ![t] = At(t, "registered")]
    /\ UNCHANGED <<row, counted, phase, cancels, purges, retries>>

\* Mutant: the claimed row is not read again.
ProceedUnread(t) == TRUE

\* getAgentTask: go on only with a running row under the own lease; the read
\* may also throw.
MayProceed(t) == OwnsLease(t)

ReRead(t) ==
    /\ runner[t].pc = "registered"
    /\ \/ runner' = [runner EXCEPT ![t] = IF MayProceed(t)
                                          THEN At(t, "authorizing")
                                          ELSE Finished]
       \/ runner' = [runner EXCEPT ![t] = OutOf(t, "failing")]
    /\ UNCHANGED <<row, counted, phase, cancels, purges, retries>>

\* Authority, adapter and egress checks; then runA2AExpertTask, whose request
\* throws at once when the signal is already aborted.
BeginCall(t) ==
    /\ runner[t].pc = "authorizing"
    /\ \/ /\ ~runner[t].aborted
          /\ runner' = [runner EXCEPT ![t] = At(t, "calling")]
       \/ runner' = [runner EXCEPT ![t] = OutOf(t, "failing")]
    /\ UNCHANGED <<row, counted, phase, cancels, purges, retries>>

\* The remote expert completes the task, or asks the user something.
RemoteAnswers(t) ==
    /\ runner[t].pc = "calling"
    /\ ~runner[t].aborted
    /\ \E pc \in {"answered", "asked"} :
          runner' = [runner EXCEPT ![t] = OutOf(t, pc)]
    /\ UNCHANGED <<row, counted, phase, cancels, purges, retries>>

\* An error, an empty result, a remote failure or the call's timeout.
RemoteFails(t) ==
    /\ runner[t].pc = "calling"
    /\ runner' = [runner EXCEPT ![t] = OutOf(t, "failing")]
    /\ UNCHANGED <<row, counted, phase, cancels, purges, retries>>

\* The abort signal ends the request.
RemoteAborted(t) ==
    /\ runner[t].aborted
    /\ RemoteFails(t)

\* Mutant: the interaction's own "open" is stored as its status.
SucceededOpen(t) ==
    [Ended(row[t], "succeeded") EXCEPT
        !.interaction = IF runner[t].pc = "asked" THEN "open" ELSE None]

Succeeded(t) ==
    [Ended(row[t], "succeeded") EXCEPT
        !.interaction = IF runner[t].pc = "asked" THEN "pending" ELSE None]

\* updateLeasedAgentTask(succeeded): nothing is written once the lease is lost.
Deliver(t) ==
    /\ runner[t].pc \in {"answered", "asked"}
    /\ row' = IF OwnsLease(t) THEN [row EXCEPT ![t] = Succeeded(t)] ELSE row
    /\ runner' = [runner EXCEPT ![t] = Finished]
    /\ UNCHANGED <<counted, phase, cancels, purges, retries>>

\* Storing the artifacts or the write throws, the latter perhaps after it
\* was committed.
DeliverFails(t) ==
    /\ runner[t].pc \in {"answered", "asked"}
    /\ \/ UNCHANGED row
       \/ /\ OwnsLease(t)
          /\ row' = [row EXCEPT ![t] = Succeeded(t)]
    /\ runner' = [runner EXCEPT ![t] = OutOf(t, "failing")]
    /\ UNCHANGED <<counted, phase, cancels, purges, retries>>

\* The catch block: updateLeasedAgentTask(failed), which may throw as well.
\* The read of a cancelled row before it only skips a write that would not
\* match.
FailTask(t) ==
    /\ runner[t].pc = "failing"
    /\ \/ row' = IF OwnsLease(t)
                 THEN [row EXCEPT ![t] = Ended(row[t], "failed")] ELSE row
       \/ UNCHANGED row
    /\ runner' = [runner EXCEPT ![t] = Finished]
    /\ UNCHANGED <<counted, phase, cancels, purges, retries>>

\* renewAgentTaskLease, every 20 s.  (The timer also runs in the catch block,
\* where neither outcome has an effect that another step does not have.)
Heartbeat(t) ==
    /\ runner[t].pc \in Heartbeating
    /\ OwnsLease(t)
    /\ row' = [row EXCEPT ![t].due = FALSE]
    /\ UNCHANGED <<counted, runner, phase, cancels, purges, retries>>

\* Mutant: only a missing row counts as lost.
LeaseLostByDeletion(t) == ~Present(t)

\* The UPDATE matched no row: the controller is aborted.
LeaseLost(t) == ~OwnsLease(t)

HeartbeatLost(t) ==
    /\ runner[t].pc \in Abortable
    /\ LeaseLost(t)
    /\ ~runner[t].aborted
    /\ runner' = [runner EXCEPT ![t].aborted = TRUE]
    /\ UNCHANGED <<row, counted, phase, cancels, purges, retries>>

RunnerStep(t) ==
    \/ ClaimLease(t) \/ ClaimFails(t) \/ Register(t) \/ ReRead(t)
    \/ BeginCall(t) \/ Deliver(t) \/ DeliverFails(t) \/ FailTask(t)

-----------------------------------------------------------------------------
(* Time and the sweep                                                      *)

\* A lease or the two minutes of a pending row run out.  A runner that still
\* lives may be late: a stalled event loop, a lost database, skewed clocks.
FallDue(t) ==
    /\ IsActive(t)
    /\ ~row[t].due
    /\ row' = [row EXCEPT ![t].due = TRUE]
    /\ UNCHANGED <<counted, runner, phase, cancels, purges, retries>>

\* Mutant: the sweep forgets pending rows.
StaleLease(t) == row[t].status = "running" /\ (row[t].owner = None \/ row[t].due)

Stale(t) ==
    \/ row[t].status = "running" /\ (row[t].owner = None \/ row[t].due)
    \/ row[t].status = "pending" /\ row[t].due

\* recoverExpiredAgentTaskLeases, at start and every minute: one UPDATE.
Sweep(p) ==
    /\ phase[p] = "up"
    /\ \E t \in Task : Stale(t)
    /\ row' = [t \in Task |-> IF Stale(t) THEN Ended(row[t], "failed")
                                          ELSE row[t]]
    /\ UNCHANGED <<counted, runner, phase, cancels, purges, retries>>

-----------------------------------------------------------------------------
(* Cancelling and deleting                                                 *)

\* POST cancel reads the task; a task that has ended is answered with 409.
CancelCheck(p, t) ==
    /\ Serving(p)
    /\ IsActive(t)
    /\ Cardinality(cancels) < MaxCancels
    /\ cancels' = cancels \cup {[task |-> t, proc |-> p, step |-> "checked"]}
    /\ UNCHANGED <<row, counted, runner, phase, purges, retries>>

\* Mutant: only a queued task is cancelled.
CancellableQueued(t) == row[t].status = "pending"

\* updateActiveAgentTask: the number of rows it changed is not looked at.
Cancellable(t) == IsActive(t)

CancelUpdate(c) ==
    /\ c \in cancels /\ c.step = "checked"
    /\ row' = IF Cancellable(c.task)
              THEN [row EXCEPT ![c.task] = Ended(row[c.task], "cancelled")]
              ELSE row
    /\ cancels' = (cancels \ {c}) \cup {[c EXCEPT !.step = "updated"]}
    /\ UNCHANGED <<counted, runner, phase, purges, retries>>

\* controller.abort, if the runner is this process' own and registered.
Abort(t) == IF runner[t].pc \in Abortable
            THEN [runner[t] EXCEPT !.aborted = TRUE] ELSE runner[t]

\* The controller is looked up and aborted, and the request answered.
CancelReply(c) ==
    /\ c \in cancels /\ c.step = "updated"
    /\ runner' = IF runner[c.task].proc = c.proc
                 THEN [runner EXCEPT ![c.task] = Abort(c.task)] ELSE runner
    /\ cancels' = (cancels \ {c}) \cup {[c EXCEPT !.step = "replied"]}
    /\ UNCHANGED <<row, counted, phase, purges, retries>>

\* prepareConversationDeletion: none of the tasks it looks at, which is all of
\* the conversation or one page, may be active or wait for the user.
PurgeCheck(p, v) ==
    LET tasks == {t \in Task : row[t].conv = v} IN
    /\ Serving(p)
    /\ tasks # {}
    /\ \E seen \in SUBSET tasks :
          /\ seen = tasks \/ Cardinality(seen) = Page
          /\ \A t \in seen : ~IsActive(t) /\ row[t].interaction # "pending"
    /\ Cardinality(purges) < MaxPurges
    /\ purges' = purges \cup {<<v, p>>}
    /\ UNCHANGED <<row, counted, runner, phase, cancels, retries>>

\* Retries that may have read a task of the conversation and wait to reserve.
Overtaken(v) ==
    {s \in Task : CanRetry(s) /\ row[s].conv = v} \X {v} \X {p \in Proc : Serving(p)}

\* deleteAgentTasksByConversation, whatever the rows' status is by now.
PurgeDelete(v, p) ==
    /\ <<v, p>> \in purges
    /\ row' = [t \in Task |-> IF row[t].conv = v
                              THEN [NoRow EXCEPT !.status = "deleted"]
                              ELSE row[t]]
    /\ counted' = {t \in counted : row[t].conv # v}
    /\ purges' = purges \ {<<v, p>>}
    /\ \E R \in SUBSET Overtaken(v) :
          /\ R # {} => Cardinality(retries \cup R) <= MaxRetries
          /\ retries' = retries \cup R
    /\ UNCHANGED <<runner, phase, cancels>>

-----------------------------------------------------------------------------
(* Processes                                                               *)

Start(p) ==
    /\ phase[p] = "idle"
    /\ phase' = [phase EXCEPT ![p] = "up"]
    /\ UNCHANGED <<row, counted, runner, cancels, purges, retries>>

\* The stop function aborts every registered controller ...
BeginStop(p) ==
    /\ phase[p] = "up"
    /\ phase' = [phase EXCEPT ![p] = "stopping"]
    /\ runner' = [t \in Task |-> IF runner[t].proc = p THEN Abort(t)
                                                       ELSE runner[t]]
    /\ UNCHANGED <<row, counted, cancels, purges, retries>>

\* Mutant: shutdown puts the rows back into the queue.
RequeueLeases(p) ==
    /\ phase[p] = "stopping"
    /\ phase' = [phase EXCEPT ![p] = "released"]
    /\ row' = [t \in Task |->
                 IF row[t].status = "running" /\ row[t].owner = p
                 THEN Ended(row[t], "pending") ELSE row[t]]
    /\ UNCHANGED <<counted, runner, cancels, purges, retries>>

\* ... waits at most 3.5 s and calls failOwnedAgentTaskLeases.
ReleaseLeases(p) ==
    /\ phase[p] = "stopping"
    /\ phase' = [phase EXCEPT ![p] = "released"]
    /\ row' = [t \in Task |->
                 IF row[t].status = "running" /\ row[t].owner = p
                 THEN Ended(row[t], "failed") ELSE row[t]]
    /\ UNCHANGED <<counted, runner, cancels, purges, retries>>

\* The process ends, and with it its runners and requests.
Vanish(p, how) ==
    /\ phase' = [phase EXCEPT ![p] = how]
    /\ runner' = [t \in Task |-> IF runner[t].proc = p THEN Finished
                                                       ELSE runner[t]]
    /\ cancels' = {c \in cancels : c.proc # p \/ c.step = "replied"}
    /\ purges' = {d \in purges : d[2] # p}
    /\ retries' = {r \in retries : r[3] # p}
    /\ UNCHANGED <<row, counted>>

Exit(p) == phase[p] = "released" /\ Vanish(p, "exited")

\* Also a stop that exceeds the five seconds the server gives it.
Crash(p) == Serving(p) /\ Vanish(p, "crashed")

-----------------------------------------------------------------------------
Next ==
    \/ \E p \in Proc, t \in Task :
          \/ \E key \in Msg \cup {None}, conv \in Conv : Submit(p, t, key, conv)
          \/ \E s \in Task : Retry(p, s, t)
          \/ \E s \in Task, conv \in Conv : RetryDeleted(p, s, conv, t)
          \/ \E s \in Task, key \in Msg \cup {None} : Respond(p, s, t, key)
          \/ CancelCheck(p, t)
    \/ \E t \in Task :
          \/ RunnerStep(t)
          \/ RemoteAnswers(t) \/ RemoteFails(t) \/ RemoteAborted(t)
          \/ Heartbeat(t) \/ HeartbeatLost(t) \/ FallDue(t)
    \/ \E c \in cancels : CancelUpdate(c) \/ CancelReply(c)
    \/ \E p \in Proc, v \in Conv : PurgeCheck(p, v) \/ PurgeDelete(v, p)
    \/ \E p \in Proc :
          \/ Sweep(p)
          \/ Start(p) \/ BeginStop(p) \/ ReleaseLeases(p) \/ Exit(p) \/ Crash(p)
    \/ NewDay

Spec == Init /\ [][Next]_vars

-----------------------------------------------------------------------------
(* Safety                                                                  *)

\* A row names a lease owner exactly while it is running: cancel, sweep,
\* shutdown and the runner's last write all release it, and only a claim
\* (claimAgentTaskLease) takes it.
LeaseMatchesStatus ==
    \A t \in Task : row[t].owner # None <=> row[t].status = "running"

\* The FOR UPDATE lock of reserveAgentTask and of
\* answerAgentTaskInteractionAndCreate keeps the open tasks of an expert
\* within maxConcurrent, whichever of submit, retry and respond inserts them
\* and from whichever process.
WithinConcurrency ==
    MaxConcurrent > 0 => Cardinality(ActiveTasks) <= MaxConcurrent

\* Submitting a message again, or retrying a task again, never makes a second
\* row: no two rows of the table have the same sourceMessageId.
KeysUnique ==
    \A s, t \in Task :
        Present(s) /\ Present(t) /\ row[s].key = row[t].key /\ s # t
        => row[s].key = None

Children(s) == {t \in Task : Present(t) /\ row[t].parent = s}

\* A task is carried on by at most one other: by its retry if it failed or
\* was cancelled, by its continuation if its question was answered; and a
\* question counts as answered only together with its continuation.
OneSuccessor ==
    \A s \in Task : Present(s) =>
        /\ Cardinality(Children(s)) <= 1
        /\ Children(s) # {} =>
              \/ row[s].status \in {"failed", "cancelled"}
              \/ row[s].interaction = "answered"
        /\ row[s].interaction = "answered" => Children(s) # {}

\* When the user has been told "cancelled", the task is no longer open and
\* its place in the quota is free, whatever it ended as.
RepliedCancelIsSettled ==
    \A c \in cancels : c.step = "replied" => ~IsActive(c.task)

\* A cancel answered by the process that runs the task has stopped it: the
\* runner does not enter the remote call any more, and a call it is in has
\* been aborted, even if the cancel came between the claim and the
\* registration of its controller.
LocalCancelStopsCall ==
    \A c \in cancels :
        /\ c.step = "replied"
        /\ runner[c.task].proc = c.proc
        /\ runner[c.task].pc \in {"authorizing", "calling"}
        => runner[c.task].aborted

\* A task that has ended keeps its status until its row is deleted, and a
\* deleted row does not come back: no late claim, heartbeat, result, sweep or
\* shutdown revives or rewrites it.
SettledIsFinal ==
    [][\A t \in Task :
          /\ row[t].status \in Terminal =>
                row'[t].status \in {row[t].status, "deleted"}
          /\ row[t].status = "deleted" => row'[t].status = "deleted"]_vars

\* The service as its users see it.
Ledger == INSTANCE TaskLedger WITH
             status <- [t \in Task |-> row[t].status],
             question <- [t \in Task |-> row[t].interaction]

\* Every step of rows, runners and processes is a step of the ledger or none.
ImplementsLedger == Ledger!LedgerSpec

-----------------------------------------------------------------------------
(* What the repository says and the code does not do                       *)

\* The cancel route refuses a task that has ended with "该任务已结束，无法取消";
\* so a cancel that is answered with status "cancelled" has cancelled it.
RepliedCancelIsCancelled ==
    \A c \in cancels : c.step = "replied" =>
        row[c.task].status \in {"cancelled", "deleted"}

\* "releases owned tasks at shutdown": a process that has ended its graceful
\* shutdown leaves no running task under its lease.
ShutdownReleasesOwned ==
    \A t \in Task : row[t].status = "running" => phase[row[t].owner] # "exited"

-----------------------------------------------------------------------------
(* Liveness                                                                *)

\* Fairness is assumed of the runners' own steps, of the abort of a request,
\* of the heartbeat's failure, of time and of the sweep; not of users, of the
\* remote expert, of process starts, stops and crashes.
Fairness ==
    /\ \A t \in Task :
          /\ WF_vars(RunnerStep(t))
          /\ WF_vars(RemoteAborted(t))
          /\ WF_vars(HeartbeatLost(t))
          /\ WF_vars(FallDue(t))
    /\ \A p \in Proc : WF_vars(Sweep(p))

FairSpec == Spec /\ Fairness

\* A task whose remote call does not hang is settled (or deleted) as long as
\* some process stays up to sweep, whatever crashed in between.
EveryTaskSettles ==
    \A t \in Task :
        <>[](\E p \in Proc : phase[p] = "up") /\ []<>(runner[t].pc # "calling")
        => (IsActive(t) ~> ~IsActive(t))

\* A remote call goes on for a task that was cancelled elsewhere, swept or
\* deleted only until the next heartbeat, even if the remote never answers.
LostCallEnds ==
    \A t \in Task :
        (runner[t].pc = "calling" /\ ~OwnsLease(t)) ~> runner[t].pc # "calling"

=============================================================================
