# Employee Agent: TLA+ models, checks and proofs

These modules model the parts of the Employee Agent (EA) server whose
correctness depends on the order in which several requests, background runners
and server processes act on the shared MySQL tables. Paths below are relative to
the repository root; `claw-agent-tasks.ts` and similar short names are files of
`server/_core/` unless another directory is given.

## 1. The system

EA is a Node/Express server (`server/`), a web client (`client/`), a MySQL schema
(`drizzle/`) and external runtimes and tools that the server calls. A user
*adopts* an agent, chats with it, delegates tasks to remote expert agents (A2A),
confirms business actions those experts propose, and schedules jobs. The server
process is single threaded, so between two `await`s nothing interleaves; at each
`await` other requests of the process, other processes and the clock may move.
What processes share is MySQL, and a few files.

| Component | Source | State | Operations | What is hard | What makes it correct |
|---|---|---|---|---|---|
| Expert agent tasks | `claw-agent-tasks.ts`, `db/agents.ts`, `db/agent-task-reservation.ts`, `shared/agent-task-lifecycle.ts` | `agent_tasks` rows (status, lease, question), per-process controllers and promises | submit, retry, respond, cancel, background run, heartbeat, sweep, stop | late results, abandoned rows, cancel from another process, shutdown during requests | a settled task stays settled; quotas hold; no duplicate; every task settles; a lost call ends |
| Conversation deletion | `claw-misc.ts`, `chat-inflight.ts` | rows of a conversation, its history directory, a per-process lock | lock, wait for idle, check, delete, unlock | check and deletion are apart, half a deletion may fail | deleted rows never return; no recorded run meets a removal; the lock is given back |
| Governance approvals | `governance/approval-service.ts`, `db/governance-approvals.ts`, `governance-approval-routes.ts` | `governance_approvals` | request, decide, consume, expire, list | decision, consumption and expiry race | one live approval per binding; spent at most once, by what it was given for |
| Capability intents | `a2a-capability-intent-routes.ts`, `db/a2a-capability-intent-executions.ts` | `a2a_capability_intent_executions` | reserve, claim, execute, complete | completion without an execution id, crash after the claim | exclusive execution; status tells the truth about the effect |
| Enterprise MCP gateway | `enterprise-mcp-gateway.ts`, `db/enterprise-mcp.ts` | `enterprise_mcp_call_receipts`, calls in progress | policy, approval, receipt, tool call, audit | effect without answer, duplicate request | no write without confirmation; one write per idempotency key |
| Server life cycle | `index.ts`, `operational-lifecycle.ts`, `background-workers.ts` | lifecycle state, worker records, tracked requests | start, drain, stop workers, exit | workers stop before requests have drained | nothing is left running under a dead owner |
| Chat in-flight table | `chat-inflight.ts`, `claw-chat.ts` | run per session, deletion lock, waiters | start, complete, expire, delete | a late completion removes its successor | runs exclude each other and deletions, up to one per expired record |
| Cron creation | `cron/cron-idempotency.ts`, `db/cron-job-creations.ts`, `claw-cron.ts` | `cron_job_creations`, the runtime's jobs | reserve, create, complete, fail, wait | crash between create and complete, jobs made after the timeout | one job per key; a success names a job of the same input; the limit holds; reservations settle |
| Audit ledger and dead letters | `audit-ledger.ts`, `audit-dlq-worker.ts` | audit table, `.jsonl`, lock and `.processing` files | record, drain | crash during a drain, writer racing the rename | no event is lost |
| Agent memory | `agent-memory.ts`, `agent-memory-observation.ts`, `db/agent-memory.ts`, `db/agent-memory-conflicts.ts` | jobs, items, versions, evidence, conflicts; cursors, syntheses | queue, claim, observe, remember, edit, restore, forget, resolve | an observation writes several statements after it has read | what was forgotten stays so; versions explain the content; two sources before a promotion; jobs end |
| Cooperation sessions | `db/coop.ts`, `routers/coop.ts`, `routers/collab.ts`, `db/collab.ts`, `claw-collab.ts` | sessions, requests, events, timers | create, agree, reject, submit, execute, consolidate, publish, close; review, report, deliver, run | creation in many statements, answers and a timer race, rows and files are read apart, an older interface writes the same rows without a guard | a request ends once; a consolidation stays true; closed is final; executions end |
| Bounded cache and queue | `bounded-async-cache.ts`, `bounded-work-queue.ts` | entries, loads in flight, slots | load, invalidate, clear, run | coalescing onto a stale load | nothing read before an invalidation is kept after it |
| Expert health cache | `agent-health.ts` | snapshots | probe, record, gate | late probe overwrites a newer one | fresh decisions |

How they interact: the submit, retry and respond routes insert a task row in a
transaction and start a runner in the same process; the runner claims the row's
lease, calls the remote expert and writes the result under the lease. A task
that succeeded may carry capability intents. Executing one enters the enterprise
gateway, which asks for an approval, which the user decides on by another
request, after which the intent is executed again, naming the approval. The
agent runtime enters the same gateway directly. Deleting a conversation deletes
task rows; it takes a lock that chat requests of the conversation test, and it
invalidates the cached list of conversations. Chat turns are queued as memory
jobs, one background worker observes what they hold, and the user edits the
same memories. Cron requests make jobs in the external runtime. The server's
shutdown stops the task runtime.

## 2. Modules

| Module | Role |
|---|---|
| `TaskLedger` | abstract specification: what the task service promises its users |
| `AgentTasks` | the task service: rows, runners, leases, sweep, requests, processes |
| `AgentTasksProofs` | theorems about `AgentTasks` |
| `MCAgentTasks` | instance for TLC (symmetry) |
| `ConsentLedger` | abstract specification: what the governance of actions promises the user |
| `GovernedActions` | approvals, intents and the gateway composed |
| `GovernedActionsProofs` | theorems about `GovernedActions` |
| `GovernedLedgerProofs` | `GovernedActions` implements `ConsentLedger` |
| `MCGovernedActions` | instances for TLC |
| `ChatSession` | one conversation: chat runs in flight, its deletion, the cached list |
| `CronCreation` | creating a scheduled job once: reservation, limit, runtime |
| `CoopLedger` | abstract specification: what a session promises its creator and members |
| `CoopSession` | one cooperation session: creation, members, timers, consolidation |
| `AgentMemory` | one memory: the observing worker, the user's calls, versions, conflicts |
| `ChatSessionProofs`, `CronCreationProofs`, `CoopSessionProofs`, `AgentMemoryProofs` | theorems about these four |
| `MCChatSession`, `MCCronCreation`, `MCCoopSession`, `MCAgentMemory` | their instances for TLC |

Operators whose comment begins with "Mutant:" are plausible mistakes in the
operator they precede. No specification uses them; replacing the operator by its
mutant must break the property named in `PROJECT.json`, which shows that the
property depends on that line of the code.

### AgentTasks

One expert, any number of rows, processes, messages and conversations. (Rows of
different experts meet only in statements that treat each row alone, and the
lock and the quotas are per expert.)

* `row[t]` is the `agent_tasks` row; `due` abstracts time: the lease, or the two
  minutes a pending row may wait, have run out. A process is one incarnation,
  since its lease owner contains a random UUID.
* `runner[t].pc` is the point that `runAgentTaskInBackground` has reached, with
  one value for each stretch between two `await`s that matter. `aborted` is the
  state of its AbortController.
* A transaction or a guarded `UPDATE` is one action. The check, the update and
  the reply of a cancel are three, the check and the deletion of a conversation
  two. Every statement that can throw has a failing alternative, also with the
  row already written (the answer of the database is lost).
* `Crash` ends a process at any moment and removes its runners and requests;
  `BeginStop`, `ReleaseLeases`, `Exit` are the graceful stop. A stop that exceeds
  the five seconds it is given is covered by `Crash`.
* `Serving` includes the processes that are stopping: requests admitted before
  the drain began are served to their end (`index.ts` 316 and 329-332).

* A retry reads its task long before the transaction that inserts the new row,
  and the transaction does not look at it again. What it reads of a settled task
  stays true until the conversation is deleted, so reading and reserving are one
  action (`Retry`) as long as the task exists. A deletion turns any retries that
  may have read its tasks into `retries` (at most `MaxRetries`), which still insert
  their rows afterwards (`RetryDeleted`).
* The check before a deletion looks at one page of the conversation's tasks
  (`Page`, 100 in the code), and the deletion removes them all.

Abstractions: the other reads that precede a reservation are merged with it, as
what they read is stable (ownership, configuration) or re-read by the transaction.
The heartbeat in the catch block has no effect of its own. Progress
writes, artefacts, metrics and notifications are left out. `counted` is kept only
when the daily limit is set.

`TaskLedger` has neither processes nor leases. `AgentTasks` implements it under
the mapping status = the row's status, question = the row's interaction status.

### GovernedActions

One user and one adoption. An action is a tool with its arguments; the binding
of an approval is the action. The fingerprint of the principal is chosen at each
entry of the gateway, since the authorisation snapshot it is computed from may
change between requests; the binding key leaves it out as the code does.

* `approval`, `intent`, `receipt` are the three tables; `late` says that
  `expiresAt` has passed, which is something else than status `expired`, which
  `expireGovernanceApprovals` sets when somebody lists, requests or decides.
* `call[c]` is a request in the gateway, from the execute route (`intent` set) or
  from the agent runtime; its `pc` values are listed in the module.
* `performed` is what the outside world has seen: the calls whose business tool
  has had its effect. A failing call may have had it.
* A tool may answer with a demand for confirmation of its own (`Defer`, for the
  actions of `Deferring`): the gateway strips other metadata from a tool's result,
  and leaves `eaGovernance` in it, and the execute route looks for that before it
  looks at anything else. So a call that has had its effect can leave its intent
  waiting for an approval, whose id is whatever the tool named; another request may
  then run the intent again, unless its action has an idempotency key.
* Reading an approval and consuming it are two actions; the consuming `UPDATE` is
  one; requesting an approval includes the expiry and the unique key.
* Any call may die (`Crash`); its intent then stays `executing`, as in the code.

Left out: the catalogue and grants, which can only refuse (`Evaluate` may always
refuse); changes of a tool's policy during a behaviour; the limit of four calls
per agent, likewise a refusal; the receipt status `blocked`, which the code
never reaches, as every `block()` precedes the reservation; deletion of tasks
with intents. Clocks of the processes are taken to agree.

`ConsentLedger` knows consents (asked, granted, refused, spent, lapsed), orders
(what a call is to do, for which principal, by which consent), offers and
effects. It has no receipts, no half-done requests and no sweep: a consent lapses
the moment its time has passed. The mapping (`Ledger` in `GovernedActions`) takes
a row that is late for lapsed although the table may still hold it as pending or
approved; a call is an order at work while it is `Working`; `pending` and
`approval_required` are both an offer that waits. So a late row that a sweep
expires, a read, a booked receipt or a lost answer is no step of the ledger, and
consuming or deciding on a late row would be a step the ledger does not have. An
order knows whether its tool has asked for a confirmation (`deferred`): only such
an order may leave its offer waiting after it has acted.

### ChatSession

One conversation in one server process. JavaScript runs one callback at a time,
so an action is the code from one `await` to the next.

* `record`, `expired`, `lock` are the in-flight table and the set of sessions in
  deletion of `chat-inflight.ts`. `Swept` is the record after `sweepExpired`,
  which nearly every operation calls first; `swept` counts the records of running
  runs that were dropped that way, for the properties only.
* `run[r]` is a chat request. One without a client run id is untracked: it is
  tested against the lock but leaves no record. `EndRun` removes the record of the
  conversation, whichever run it belongs to, as `markChatRunComplete` does.
* `deletion[d]` is a delete request, at one of its `await`s. Its waiters, its five
  seconds, its refusals and every failure of the database are actions.
* `transcript` and `tasks` are what the deletion removes: the history directory
  of the runtime and the task rows. The check may miss an active task beyond the
  hundred it looks at, and the removal of the directory may throw half-way. Chat, tasks and runtime may make them again.
* `cache` and `load` are the key of this list in the bounded cache: one value, one
  load in flight and whether the key's version is still the one it began with.
  The three reads of the loader are apart.

Left out: `touchChatRun`, which has no caller; other conversations, except that
their operations sweep the same table; titles and contents of the list; the sessions that
the list also takes from an enterprise runtime, which is external and may name any
(the `await` of that listing is there: `merge` is a step of its own).
`DeletedNotListed` speaks of the local list.

### CronCreation

* `row` is `cron_job_creations` by agent and key, `lock` the `FOR UPDATE` on the
  agent's row, `job` what the external runtime has made of a request. A job is
  named by the request that asked for it; `listed` says that the limit was looked
  at and the job made while its request was still waiting, which is when the code
  can vouch for the limit.
* `request[r].step` follows the route: `look`, `insert`, `wait` are the
  reservation, `list`, `sent`, `commit` the creation under the lock, `complete`,
  `failing` its result, `deliver` the delivery configuration.
* The runtime may answer, refuse, make a job after the twenty seconds, or never.
* The insert may be committed and its answer lost (`LoseInsert`): the request fails
  and the row stays pending without it.
* `Insert` by the loser of the unique index either reads the winner's row or
  fails: the code looks for `ER_DUP_ENTRY` on the error itself, while the query
  builder wraps the driver's error.

`other` stands for jobs of other agents, which `listJobs` counts too, and of the
desktop's route, which knows neither limit nor lock. The hash of the input holds
the caller's authorisation snapshot, so `Hash` is any of several.

### CoopSession

* `creation` is the `createCoopSession` call, which writes without a transaction:
  every statement is an action, so members may answer while it runs and a crash
  leaves a prefix.
* `request[m]` and `log[m]` are a member's row and its events. The handlers read
  (`CheckCall`), and their transaction tests again (`Commit`, `Refuse`).
* `Agree` ends where the code does: the statement that would promote the session
  names a column the table does not have, so the call fails before it would start
  an execution; automatic members are executed from the creation only.
* `execution[m]` is the claim and the timer of an automatic member.
* The older interface for collaborations works on the same rows: `reviewRequest`,
  `submitResult` and `deliverResult` of `routers/collab.ts`, and `collab-exec` of
  `claw-collab.ts`, which an approval also posts to itself. Each reads a row and
  later writes it by id (`updateCollabRequest`), without a guard and without an
  event: `CheckCall` with a kind of `Review`, then `Overwrite`, and `FailRun` for the
  only executor there is, which fails every request. So a stale approval re-opens a
  completed request, and a report or delivery ends or rewrites one. `Overwritten` are
  the members whose row that interface has written in this behaviour. Nothing in the
  code protects such a row, so the properties speak of the other members, whom the
  overwriting must not disturb; the calls in `Direct` may use the interface. The
  status `cancelled` of the schema is written by nobody.
* `draft` is the latest consolidation, which reads rows and events apart.
* `CoopLedger` has neither events nor timers nor statements: a request is invited,
  accepted and ended, by its member or by the execution of an automatic one, no
  submission ends two, and a draft quotes the answers with the files that belong to
  them. An overwritten request leaves the session's hands (`Overwrite`). `approved`
  and `running` are both accepted. What the code allows beyond
  that is in it too: the last step of a creation (`StartSession`) sets the session
  running whatever its creator has done with it since.

Left out: titles, texts, comments; publication notifications.

### AgentMemory

One canonical key of one agent, hence at most one item.

* `proc[p]` is an observation or a call of the user, with what it has read. The
  steps `find` to `promote` are the statements of `observeMemory` in the order of
  the code; each acts on what an earlier one found. A user's call reads the memory
  (`Begin`) and writes in a transaction that does not look at the status again.
* `item`, `versions`, `conflicts`, `evidence` are the tables. `Write` is what all
  transactions that change the content do: end one version, begin the next.
* `job` and `working` are the queue and the one worker of the deployment's single
  process. The answer of the model holds up to `MaxCandidates` candidates about this
  memory, each of any content, which are observed one after the other without
  another look at the consent; it may be withdrawn at any time.
* Any statement of the worker may throw (`FailWork`), and the catch block puts the
  job back by its id alone (`FailJob`). An answer of the database may be lost with
  the statement committed: of the claim (`LoseClaim`: the row runs without the
  worker), of the finish (`LoseFinish`: the catch block puts back a job that is done
  and whose turn is gone), and the catch block's own statement may throw
  (`LoseFailure`: the worker is free, the row is left as it is). `lost` counts these;
  together with `crashes` they are at most `MaxFaults`.
* Evidence counts by its session or, where there is none, by the hash of what was
  said where (`SourceOf`).
* `ReviewsConflicts` is the setting that puts a conflict to the user instead of
  taking the new content at once.
* A restore reads the memory and the version in two statements (`BeginRestore`,
  `ReadVersion`).
* `Restart` puts a running job back only if it has been running for ten minutes;
  after a quicker restart, or a lost answer, the job stays running until a later one.

Left out: confidence and kind (an observation may or may not be fit for
promotion), expiry, pruning, syntheses, the projection into workspace files and
the scanner of channel transcripts with its cursors.

## 3. Runs

The task, governance and memory runs use symmetry, except where liveness is
checked. Deadlock is checked for `chat_races`, which never stops; in the others
the requests, calls or processes a behaviour may use are bounded and it may end.

| Run (cfg) | Instance | Checks |
|---|---|---|
| `tasks_safety` (`AgentTasksSafety`) | 2 rows, 2 processes, 1 conversation, 1 cancel, 1 deletion that looks at 1 task, 1 retry it overtakes, maxConcurrent 1 | `TypeOK`, `LeaseMatchesStatus`, `RepliedCancelIsSettled`, `LocalCancelStopsCall`, `SettledIsFinal`, `ImplementsLedger` |
| `tasks_quota` (`AgentTasksQuota`) | 3 rows, 1 process, 1 message id, 1 deletion, maxConcurrent 2, daily limit 1 | `WithinConcurrency`, `KeysUnique`, `OneSuccessor` |
| `tasks_liveness` (`AgentTasksLiveness`) | 2 rows, 2 processes, 1 deletion, no cancels, no overtaken retries, fairness | `EveryTaskSettles`, `LostCallEnds` |
| `tasks_cancel_reply` (`AgentTasksCancelReply`) | as `tasks_safety` | violated: `RepliedCancelIsCancelled` |
| `tasks_shutdown` (`AgentTasksShutdown`) | as `tasks_safety` | violated: `ShutdownReleasesOwned` |
| `governed_safety` (`GovernedActionsSafety`) | 1 intent, 3 calls, 2 actions with one key of which one is to be confirmed, by its tool too, 2 approvals, 1 principal | `TypeOK`, `OneLiveApproval`, `IntentHonest`, `RejectedNotPerformed`, `OneExecutor`, `OncePerKey`, `ImplementsConsent` |
| `governed_shared` (`GovernedActionsShared`) | 2 intents with actions of their own, both to be confirmed, one key, 3 calls, 1 approval, 2 principals | `EffectUnderApproval` |
| `governed_denied` (`GovernedActionsDenied`) | 1 intent, 2 calls | violated: `BlockedMeansDenied` |
| `chat_races` (`ChatSessionRaces`) | 3 chat requests, 2 deletions, fairness | `TypeOK`, `OneRunPerRecord`, `LockHasHolder`, `DeletionExcludesRuns`, `DeletedNotListed`, `DeletionEnds` |
| `cron_retries` (`CronCreationRetries`) | 3 requests of one agent, 1 key, 2 hashes, limit 1, 1 other job, 1 fault, fairness | `TypeOK`, `OneJobPerKey`, `RepliesHonest`, `LimitKept`, `ReservationsSettle` |
| `coop_race` (`CoopSessionRace`) | a person and an automatic member, 2 calls which both may go to the older interface, 1 fault, fairness | `TypeOK`, `EndedOnce`, `DraftMatchesResults`, `ImplementsCoop`, `AutoEnds` |
| `memory_races` (`AgentMemoryRaces`) | 1 job with a session, 2 calls without one, 2 contents, 2 candidates an answer, 3 versions, 1 conflict put to the user, 1 crash or lost answer | `TypeOK`, `VersionsTrackContent`, `JobsEnd`, `AutomaticNeedsTwoSources`, `GoneStaysGone` |

Why the bounds suffice for the interesting cases. Two rows and two processes give
a row swept or cancelled by another process than its runner's, a retry that
overlaps the old call, a crash with a survivor, and a quota that is full. Three
rows are needed for a parent with two competing successors, and for both
quotas. Requests of one process interleave as freely as those of several, so one
process is enough there. Three calls give the request that asks, the one that
executes, and a competitor; two approvals give a successor of one that was
rejected, spent or expired; two principals give one that is not the approval's,
and an action that needs no confirmation competes for the key with one that does.
The refinement is run with one principal; the proof covers the rest.
Three chat requests give a run whose record has expired, the one let in after it,
and a third that the first one's end may let in; two deletions give a rival for
the lock. Three cron requests give a first, a duplicate and an unkeyed rival for
the limit, which at one is full at once. A person before an automatic
member has both ways through the creation loop, and two calls race with each other,
with the timer, or one of them overwrites what the other or the timer has ended. One
queued turn with its retries and two calls are enough for an observation overtaken
by a forget and an edit, and for evidence of two sources; one fault is a crash, or
a row whose settling was lost, and with three attempts it is met at each of them.
The runs have conflicts put to the user; that the other setting keeps the
properties is what the proofs add.
A retry overtaken by a deletion needs one deletion and one row more; `tasks_safety`
has it, and that it takes no key twice either is what the proof adds.

Fairness (`FairSpec`) is assumed of the runner's own steps (promises settle), of
the abort of an HTTP request, of the heartbeat timer noticing that its lease is
gone, of time, and of the sweep, which runs every minute in each process that is
up. Nothing is assumed of users, of the remote expert, of starts, stops and
crashes. `EveryTaskSettles` therefore has as premises that some process stays up
and that the remote call does not hang; `LostCallEnds` needs neither.

In the other modules fairness is weak fairness of the server's own code, whose
awaits end by an answer, an error or a timer: of each delete request
(`DeletionEnds`), of each cron request (`ReservationsSettle`), of the creating
call and of each execution (`AutoEnds`). None is assumed of users, of the runtime
or of the model. The latter two properties excuse crashes and lost updates by
`faults > 0`, because no code repairs what those leave behind, and `AutoEnds` the
members that the interface for collaborations has overwritten.

### What the runs found

1. *A cancel may be answered "cancelled" for a task that was not cancelled*
   (`tasks_cancel_reply`). The route does not look at the row count of its guarded
   update. What does hold is `RepliedCancelIsSettled`.
2. *A graceful shutdown may leave a running task* (`tasks_shutdown`), because
   workers are stopped before the admitted requests have drained.
3. *An action that was executed may be recorded as denied* (`governed_denied`):
   every error result of the gateway is taken for a denial, also a lost answer or
   a failing audit after the tool has run.

### What the models make visible

The properties are stated so that they hold, and their wording shows where the
code stops short of more:

* Tasks: a deletion of a conversation looks at a hundred of its tasks and removes
  them all, also one that became active since; a retry that had read a task before
  inserts its row into the deleted conversation (`RetryDeleted`).
* Governance: the answer of a tool that has had its effect may itself demand a
  confirmation, and its intent is then left open as if nothing had happened
  (`IntentHonest`, `RejectedNotPerformed` and the ledger say so of these calls). A
  second effect is excluded only by an idempotency key (`OncePerKey`).
* Chat: nothing refreshes the record of a run, so one that works for more than
  ten minutes loses it, a second run may start, and the end of the first removes
  the record of the second (`OneRunPerRecord` counts `swept`). A deletion that
  fails after the history was removed leaves the task rows and the cached list
  (`half` in `DeletedNotListed`). Task routes do not look at the deletion lock.
* Cron: a reservation left pending by a crash, by an insert whose answer was lost, or
  by an update that failed, is never repaired (`ReservationsSettle`). A job the
  runtime makes after the timeout exists although its request was told it failed,
  which is why `LimitKept` leaves it out. A concurrent duplicate may get an error
  instead of the winner's job. The limit counts the jobs of all agents.
* Cooperation: the last update of a creation with automatic members re-opens a
  session closed meanwhile (`StartSession` of `CoopLedger`). Agreement never starts an
  execution. A crash leaves automatic members running for ever (`AutoEnds`). The
  older interface for collaborations re-opens, ends and rewrites requests of a session
  without a guard and without an event; a request it has written is out of every
  property (`Overwritten`).
* Memory: an observation that has read a memory writes its content even after the
  user forgot it (`GoneStaysGone` allows steps that had read before), and a late
  first version may be added to a forgotten memory (`VersionsTrackContent` speaks
  of memories in use). An explicit remember of a candidate's own content does not
  activate it. A quick restart, a claim whose answer is lost or a failure that cannot
  be written leaves a job running until a restart finds it ten minutes old (`JobsEnd`
  ties it to its worker only while nothing was lost or has crashed), and a finish
  whose answer is lost sets a job that is done back to pending, without its turn
  (the worker then finds nothing to learn from, and fails or skips it).

## 4. Proofs

TLC checks the small instances above; the theorems hold for every value of the
constants that satisfies the assumptions stated in the module.

`AgentTasksProofs`, in the order in which the facts rest on each other:

* `TypeCorrect`. The lease a runner takes is its process's, so `TypeOK` is
  inductive only with `RunnerHasProc`: a runner has a process while it runs.
* `LeaseOnlyWhileRunning` (`LeaseMatchesStatus`) and `SettledStaysSettled`
  (`SettledIsFinal`). Which rows a guarded `UPDATE` matches is decided by status
  and owner together, so the two are tied first (`RowInv`, with the fact that an
  empty place belongs to no conversation). `RowStep` says that every step takes
  every row from one legal place of its life cycle to the next; both theorems
  are read off it.
* `RepliedCancelSettles` (`RepliedCancelIsSettled`) and `LocalCancelStops`
  (`LocalCancelStopsCall`). `RepliedCancelIsSettled` speaks of answered cancels;
  the strengthening `CancelsSettle` begins with the cancel's `UPDATE`, which
  either ended the task or found it ended. A runner of such a task has failed its
  own re-read, or was registered before the cancel looked for it and got the abort.
* `ConcurrencyLimited` (`WithinConcurrency`). Only submit, retry and respond turn
  an empty place into an open row, one at a time and after the count made under
  the lock on the adoption; closing rows never adds one.
* `KeysStayUnique` (`KeysUnique`) and `CarriedOnOnce` (`OneSuccessor`). For keys and
  parents a step is an insert, the deletion of a conversation, or leaves them alone
  (`LineageCases`). `LineageInv` adds to `KeysUnique` that a question exists only on
  a task that succeeded, so a task is retried or answered but never both; that a
  retry is keyed by its parent; and that a child is in its parent's conversation, if
  that is still there, so that a deletion never leaves an answered question without
  its continuation. A retry that a deletion has overtaken is a child of a deleted
  row (`RetriesLate`), which nothing else can carry on.
* `LedgerImplemented` (`ImplementsLedger`). Each action of `AgentTasks` is a step
  of `TaskLedger` or leaves status and question alone, under `RowInv`.

`GovernedActionsProofs`:

* Two lemmas replace the case split over some twenty actions everywhere after
  `TypeStep`: `ApprovalMoves` (the six ways the table of approvals changes) and
  `CallMoves` (a step moves at most one request, which starts or proceeds);
  `IntentMoves` adds what it does to the one intent it may touch.
* `GovernedTypeCorrect`: `TypeOK` with the fact that a call about to consume has
  an approval in its hand. `GovernedLifecycle` (`ApprovalLifecycle`) and
  `GovernedOneLive` (`OneLiveApproval`, inductive with the types) follow from
  `ApprovalMoves`.
* `GovernedEffect` (`EffectUnderApproval`). The property speaks of calls that
  performed; `ConsentInv` holds for a call from the moment it consumes: its
  approval is consumed, for its action and principal, and no other call's. A
  consumed row never changes (`ConsumedStays`), and it was approved, hence held by
  no call, just before.
* `GovernedOncePerKey` (`OncePerKey`). `BookInv`: a call between reservation and
  effect has its receipt, receipts are never given back, and two of them never
  share a key.
* `GovernedOneExecutor` (`OneExecutor`). `Occupied` says what keeps a second
  request out: the intent is executing, or the late catch block of an earlier
  request has closed it as failed, from which it cannot be claimed.
* `GovernedHonest` (`IntentHonest`). Once a call has performed, and its tool has not
  itself asked for a confirmation (`AnswerKept` keeps its answer apart), its intent is
  executing or closed for good, and while it is executing nobody else works on it
  (`LastOnIntent`); so no request that is asked or refused can close it as open.
* `GovernedRejected` (`RejectedNotPerformed`). `LinkInv` ties the approval a request
  was given, has seen and has consumed to the one in the row of its intent: the
  first request names none and is alone on the intent until it has asked, every
  later one names the approval the intent waits for. A late catch block can only
  erase the approval from the row, and closes it for good. So a request that
  performed had consumed the very approval the row names.

`GovernedLedgerProofs` proves `GovernedImplemented` (`ImplementsConsent`), one lemma
for each action that the ledger may notice:

* The mapping's functions have names (`Consent`, `Wanted`, `Orders`, `AtWork`,
  `Offers`), and a few lemmas say what a written row or a moved request does to
  them. `SweptRow` is the one that matters: a sweep changes no consent, because a
  late row counts as lapsed before and after it.
* The invariant is the conjunction of those above, `GovernedInv`, with one more,
  `RequestInv`: nothing is known of a request that has not begun, the principal is
  settled when the policy is evaluated, and only actions that demand confirmation
  consult approvals. The guards of the ledger come from different parts of it: that
  nobody is at work on an offer taken up from `Occupied`; that no other consent is
  alive when one is asked for from `OneLiveApproval` (`LiveHolds`); the right of an
  effect from `ConsentInv`, that its key has had none from `BookInv`; that an offer
  shown as done was done from `AnswerKept`, and one shown as waiting was not from
  `LastOnIntent` (`ShownLeaves`).
* `GovernedLifecycle` is the part of it that speaks of approvals alone; it is kept
  since it names the statuses of the table.

`ChatSessionProofs`:

* `StepCases` cuts the steps into those of the chat, of the deletions and of the
  list; `DeletingMoves` says what a step of a deletion does to lock and record.
* `ChatTypeCorrect` (`TypeOK`), `ChatLockHasHolder` (`LockHasHolder`): the lock and
  its one holder move together, so the two are inductive as one invariant.
* `ChatOneRunPerRecord` (`OneRunPerRecord`) is an argument about cardinality: a
  recorded run is added only when no record is left, a record disappears with a
  run or is counted in `swept`.
* `ChatDeletionExcludesRuns` (`DeletionExcludesRuns`): under the lock no run is
  recorded, so what held when the wait ended holds until the lock is given back.
* `ChatDeletedNotListed` (`DeletedNotListed`) needs `ListInv` about loads: one that
  has found the conversation and is still current began after the last
  invalidation.

`CronCreationProofs`:

* `ServeCases` reduces every statement of the route to ten named moves of a
  request with its row and lock; all later lemmas go through these.
* `CronTypeCorrect` (`TypeOK`): the lock names its holder and conversely.
* `CronOneJobPerKey` (`OneJobPerKey`): `OwnerInv` finds for each key the one
  request that reserved it; the others have no job, since nobody has one before
  asking for it under its own reservation.
* `CronRepliesHonest` (`RepliesHonest`): a succeeded row is backed by a job that was
  made for the same agent, key and input, and a made job stays made.
* `CronLimitKept` (`LimitKept`): the jobs counted, with those asked for and not yet
  made, stay within the limit, because only the holder of the lock asks.

`CoopSessionProofs`: a step leaves each member's request alone, ends it with one event,
or overwrites it (`StepMoves`, `OverwrittenMoves`); what was overwritten stays counted
as that, since its call keeps the place it has reached. From that follow, for the
members not overwritten, `CoopEndedOnce` (`EndedOnce`: an open request has no ending among its
events, and an ended one gets no more), `CoopDraftMatches` (`DraftMatchesResults`:
the rows a ready consolidation has read are ended, so neither they nor their events
change between the two reads or later, except by an overwriting) and, with the fact that a session exists
before anything else does, `CoopClosedIsFinal` (`ClosedIsFinal`: a closed session
is re-opened by nothing but the last update of its creation).

`CoopImplemented` (`ImplementsCoop`) shows each step to be one of `CoopLedger` or
none; a write of the interface for collaborations is the step `Overwrite`, or none when
the row had been written before. It needs `LedgerInv`: a call that has become the result
of a request in the session's hands has ended, so it ends no second request (`CallInv`); a timer waits only for an automatic member
(`TimerInv`); and the rows of a creation are there for the members it has passed,
its last update coming after them all and only if some are automatic
(`PresentInv`), so a session starts with everyone invited. That a draft
quotes the answers as they stand is `DraftInv` with the files found by `FilesFound`:
the rows were read earlier and the events now, but ended rows do not change. A crash
is the step `StopInviting`, or none. The assumption `ResultAssumption` (a template is
neither a call nor nothing) lets a result tell who gave it.

`AgentMemoryProofs`:

* `TypeInv` adds to the types what a process knows at each of its steps (`Sound`):
  an observation writes only to a memory that exists, an update was decided on a
  live memory or is explicit, a user's write had read a live one. `MemoryTypeCorrect`
  and `MemoryGoneStaysGone` (`GoneStaysGone`) are read off it.
* `MemoryJobsEnd` (`JobsEnd`): `JobInv` adds that a pending job has an attempt less
  than a running one, that the worker learns only with the turn of its job in hand
  (which a claim tests, since a lost answer may have put back a job without it), and
  that its job is running while no answer was lost. `LearningJobs` goes through the
  statements of the worker, its failing ones included.
* `MemoryAutomaticNeedsTwoSources`: the sources that count only become more
  (accepting a conflict turns its evidence into the memory's), so what the worker
  counted before promoting still holds when it does.
* `MemoryVersionsTrackContent` (`VersionsTrackContent`) needs two more facts. The
  row of the present version matches the content except while the memory lies
  forgotten and wiped (`HistInv`); and a call that still has to record the first
  version carries the content of that version, or the version has a row
  (`Carries`). The dangerous case is a memory wiped in between and then brought
  back by the worker's promotion: the call that created it made it active, so no
  worker can be about to promote it.

### Model-checked only

* Liveness (`EveryTaskSettles`, `LostCallEnds`, `DeletionEnds`, `ReservationsSettle`,
  `AutoEnds`): the proof system handles neither
  fairness nor ENABLED in these arguments.
* The three violated properties are counterexamples; there is nothing to prove.

## 5. Not modelled

The modules cover the server's protocols: the code where several actors share
rows, locks or tables. Measured in lines this is a small part of the repository,
most of which has no state that outlives a request or a page.

* The web client and the desktop's pages, which present data and send the
  requests that are free inputs of the models.
* Knowledge, skills, roles, model routing: parsing, retrieval and selection over
  configuration, one request at a time.
* Identity and access control: every modelled request is one that was let in.
* The agent runtime bridge and its streaming, which translate the protocol of an
  external program whose states the repository does not define; `ChatSession`
  takes a run as a span that ends somehow, and the runtime's jobs and transcripts
  as surroundings that may change at any time.
* The audit ledger's dead-letter drain. In `GovernedActions` any required audit
  may throw, which is all its callers see; the drain's lock file, rename and
  retention are not modelled, since no statement of the code says what a reader
  of the file may rely on. Its hazards are listed.
* Memory syntheses (derived text that is replaced as a whole), cursors, expiry and
  workspace files; the health cache, which only steers routing; the work queue and
  the file stores, single-threaded without an `await` between test and update.
* The rest of the server's life cycle: worker records, drain waiters, capacity
  counters and the warm-up. Only the order of shutdown matters to `AgentTasks`.
* Scripts, deployment and examples, which are outside the running program.

`PROJECT.json` lists each component with its reason, and the hazards that no
property covers yet.

## 6. Plan

What is left, in this order:

1. An abstract ledger of idempotent creation which `CronCreation` refines, and an
   abstract versioned memory which `AgentMemory` refines.
2. `AuditDlq`: record or dead-letter, drain, crash, against the comments of
   `audit-ledger.ts`.
3. Syntheses and cursors of the memory; `WorkQueue` with the bounded server it
   implements.
