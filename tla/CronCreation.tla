---------------------------- MODULE CronCreation ----------------------------
(***************************************************************************)
(* Creating a scheduled job once: the route /api/claw/cron/add             *)
(* (claw-cron.ts), the idempotency of its requests (cron-idempotency.ts)   *)
(* with the table cron_job_creations and the lock on the agent's row       *)
(* (db/cron-job-creations.ts), and the runtime that keeps the jobs         *)
(* (jiuwenclaw-cron-provider.ts).  A job is named by the request that has  *)
(* asked for it.  Jobs also come from the desktop's route, which knows     *)
(* neither limit nor lock, and from other agents, whom the listing counts. *)
(***************************************************************************)
EXTENDS Integers, FiniteSets

CONSTANTS Request,    \* requests to create a job
          Agent,
          AgentOf,    \* the agent of each request
          Key,        \* idempotency keys
          Hash,       \* hashes of the input, which holds the caller's authorization
          Limit,      \* jobs the route allows (5 in the code)
          MaxOther,   \* bound: jobs made by another way at once
          MaxFaults   \* bound: crashes and lost writes of a row

ASSUME RequestAssumption == IsFiniteSet(Request) /\ AgentOf \in [Request -> Agent]
ASSUME BoundAssumption == {Limit, MaxOther, MaxFaults} \subseteq Nat

None == "none"
ASSUME NoneAssumption == None \notin Request \cup Key \cup Hash

VARIABLES row,     \* cron_job_creations, by agent and key
          request, \* the requests
          lock,    \* who holds FOR UPDATE on the agent's row
          job,     \* the runtime's jobs
          other,   \* how many jobs the runtime has from elsewhere
          faults   \* faults so far

vars == <<row, request, lock, job, other, faults>>

NoJob == [state |-> "none", listed |-> FALSE]
NoRow == [status |-> None, hash |-> None, job |-> None]

Waiting == {"look", "insert", "lock", "wait"}
Working == {"list", "sent", "commit", "complete", "failing", "deliver"}
Ended   == {"ok", "error"}

Init ==
    /\ row = [a \in Agent |-> [k \in Key |-> NoRow]]
    /\ request = [r \in Request |-> [step |-> "idle", key |-> None, hash |-> None, job |-> None]]
    /\ lock = [a \in Agent |-> None]
    /\ job = [r \in Request |-> NoJob]
    /\ other \in 0..MaxOther
    /\ faults = 0

Keyed(r)  == request[r].key # None
RowOf(r)  == row[AgentOf[r]][request[r].key]
SetRow(r, new) == row' = [row EXCEPT ![AgentOf[r]][request[r].key] = new]
To(r, step) == request' = [request EXCEPT ![r].step = step]
Take(r, step, j) ==
    request' = [request EXCEPT ![r] = [step |-> step, key |-> request[r].key,
                                       hash |-> request[r].hash, job |-> j]]
Release(r)  == lock' = [lock EXCEPT ![AgentOf[r]] = IF @ = r THEN None ELSE @]

\* A failure of create(): only a keyed request has a row to close.
Fail(r) == To(r, IF Keyed(r) THEN "failing" ELSE "error")

-----------------------------------------------------------------------------
(* The reservation of a key                                                *)

\* The request is authorized and its key and hash are known.
Arrive(r, k, h) ==
    /\ request[r].step = "idle"
    /\ request' = [request EXCEPT ![r] =
          [step |-> IF k = None THEN "lock" ELSE "look", key |-> k,
           hash |-> IF k = None THEN None ELSE h, job |-> None]]
    /\ UNCHANGED <<row, lock, job, other, faults>>

\* Mutant: a stored result is given to whoever brings the key.
FromStoredUnhashed(r) ==
    \/ /\ RowOf(r).status = "succeeded"
       /\ Take(r, "deliver", RowOf(r).job)
    \/ RowOf(r).status = "failed" /\ To(r, "error")
    \/ RowOf(r).status = "pending" /\ To(r, "wait")

\* resultFromStored: the job, a refusal, or the wait for the first request.
FromStored(r) ==
    \/ RowOf(r).hash # request[r].hash /\ To(r, "error")
    \/ /\ RowOf(r).hash = request[r].hash
       /\ \/ /\ RowOf(r).status = "succeeded"
             /\ Take(r, "deliver", RowOf(r).job)
          \/ RowOf(r).status = "failed" /\ To(r, "error")
          \/ RowOf(r).status = "pending" /\ To(r, "wait")

\* getCronJobCreation before the insert, and again after a duplicate key.
Look(r) ==
    /\ request[r].step = "look"
    /\ IF RowOf(r) = NoRow THEN To(r, "insert") ELSE FromStored(r)
    /\ UNCHANGED <<row, lock, job, other, faults>>

\* Mutant: the key is not unique in the table.
InsertOver(r) ==
    /\ request[r].step = "insert"
    /\ SetRow(r, [status |-> "pending", hash |-> request[r].hash, job |-> None])
    /\ To(r, "lock")
    /\ UNCHANGED <<lock, job, other, faults>>

\* The unique index decides.  The loser reads the winner's row when the error
\* is recognised as a duplicate key, which one wrapped by the query builder is
\* not: then the request just fails.
Insert(r) ==
    /\ request[r].step = "insert"
    /\ \/ /\ RowOf(r) = NoRow
          /\ SetRow(r, [status |-> "pending", hash |-> request[r].hash, job |-> None])
          /\ To(r, "lock")
       \/ /\ RowOf(r) # NoRow
          /\ \E step \in {"look", "error"} : To(r, step)
          /\ UNCHANGED row
    /\ UNCHANGED <<lock, job, other, faults>>

\* The insert was made but its answer is lost: nobody works on the key, which
\* is reserved for ever.
LoseInsert(r) ==
    /\ faults < MaxFaults
    /\ request[r].step = "insert"
    /\ RowOf(r) = NoRow
    /\ SetRow(r, [status |-> "pending", hash |-> request[r].hash, job |-> None])
    /\ To(r, "error")
    /\ faults' = faults + 1
    /\ UNCHANGED <<lock, job, other>>

\* waitForStoredResult: fifty polls, then 409.
Poll(r) ==
    /\ request[r].step = "wait"
    /\ (RowOf(r).status # "pending" /\ FromStored(r)) \/ To(r, "error")
    /\ UNCHANGED <<row, lock, job, other, faults>>

\* The database fails a read, or the insert with nothing reserved.
LookFails(r) ==
    /\ request[r].step \in {"look", "insert"}
    /\ To(r, "error")
    /\ UNCHANGED <<row, lock, job, other, faults>>

-----------------------------------------------------------------------------
(* create(): limit and job under the lock of the agent                     *)

\* Mutant: the row is read without FOR UPDATE, so any number may read it.
LockShared(r) ==
    /\ request[r].step = "lock"
    /\ lock' = [lock EXCEPT ![AgentOf[r]] = r]
    /\ To(r, "list")
    /\ UNCHANGED <<row, job, other, faults>>

\* withCronCreationScopeLock
Lock(r) ==
    /\ request[r].step = "lock"
    /\ lock[AgentOf[r]] = None
    /\ lock' = [lock EXCEPT ![AgentOf[r]] = r]
    /\ To(r, "list")
    /\ UNCHANGED <<row, job, other, faults>>

\* The lock is not had in time, or the transaction cannot begin.
LockFails(r) ==
    /\ request[r].step = "lock"
    /\ Fail(r)
    /\ UNCHANGED <<row, lock, job, other, faults>>

Alive == {r \in Request : job[r].state = "alive"}

\* listJobs, which counts the jobs of every agent and whose failure is no
\* obstacle, then addJob up to the sending of cron.job.create.
List(r) ==
    /\ request[r].step = "list"
    /\ \/ /\ \E listed \in BOOLEAN :
                /\ listed => Cardinality(Alive) + other < Limit
                /\ job' = [job EXCEPT ![r] = [state |-> "sent", listed |-> listed]]
          /\ To(r, "sent")
          /\ UNCHANGED lock
       \/ Fail(r) /\ Release(r) /\ UNCHANGED job
    /\ UNCHANGED <<row, other, faults>>

\* The runtime makes the job, perhaps after the request has given up.
Create(r) ==
    /\ job[r].state = "sent"
    /\ job' = [job EXCEPT ![r] = [state |-> "alive",
                                  listed |-> @.listed /\ request[r].step = "sent"]]
    /\ UNCHANGED <<row, request, lock, other, faults>>

\* The runtime refuses the job: the call is over for it.
Refuse(r) ==
    /\ job[r].state = "sent"
    /\ job' = [job EXCEPT ![r] = NoJob]
    /\ IF request[r].step = "sent"
         THEN Fail(r) /\ Release(r)
         ELSE UNCHANGED <<request, lock>>
    /\ UNCHANGED <<row, other, faults>>

\* The answer to cron.job.create, with the job's id.
Added(r) ==
    /\ request[r].step = "sent"
    /\ job[r].state \in {"alive", "removed"}
    /\ To(r, "commit")
    /\ UNCHANGED <<row, lock, job, other, faults>>

\* Mutant: giving up keeps the lock.
AddTimesOutHolding(r) ==
    /\ request[r].step = "sent"
    /\ Fail(r)
    /\ UNCHANGED <<row, lock, job, other, faults>>

\* Twenty seconds without an answer, or one that cannot be used.
AddTimesOut(r) ==
    /\ request[r].step = "sent"
    /\ Fail(r) /\ Release(r)
    /\ UNCHANGED <<row, job, other, faults>>

\* The transaction that held the lock commits, or fails to.
Commit(r) ==
    /\ request[r].step = "commit"
    /\ Release(r)
    /\ \/ Fail(r)
       \/ Take(r, IF Keyed(r) THEN "complete" ELSE "deliver", r)
    /\ UNCHANGED <<row, job, other, faults>>

-----------------------------------------------------------------------------
(* The result of a reservation                                             *)

Close(r, status, j) ==
    IF RowOf(r).status = "pending"
      THEN SetRow(r, [status |-> status, hash |-> RowOf(r).hash, job |-> j])
      ELSE UNCHANGED row

\* completeCronJobCreation, whose failure makes the request's result a failure;
\* the update may have been done all the same.
Complete(r) ==
    /\ request[r].step = "complete"
    /\ \/ Close(r, "succeeded", r) /\ \E step \in {"deliver", "failing"} : To(r, step)
       \/ To(r, "failing") /\ UNCHANGED row
    /\ UNCHANGED <<lock, job, other, faults>>

\* Mutant: the error leaves the reservation as it is.
RecordFailureNever(r) ==
    /\ request[r].step = "failing"
    /\ To(r, "error")
    /\ UNCHANGED <<row, lock, job, other, faults>>

\* failCronJobCreation
RecordFailure(r) ==
    /\ request[r].step = "failing"
    /\ Close(r, "failed", None)
    /\ To(r, "error")
    /\ UNCHANGED <<lock, job, other, faults>>

\* ... whose own failure is ignored: the row stays pending for ever.
LoseFailure(r) ==
    /\ faults < MaxFaults
    /\ request[r].step = "failing"
    /\ To(r, "error")
    /\ faults' = faults + 1
    /\ UNCHANGED <<row, lock, job, other>>

\* saveCronDeliveryConfig, for a new job as for one that is found.
Deliver(r) ==
    /\ request[r].step = "deliver"
    /\ \E step \in {"ok", "error"} : To(r, step)
    /\ UNCHANGED <<row, lock, job, other, faults>>

-----------------------------------------------------------------------------
(* The surroundings                                                        *)

\* removeJob, or a job for one time that has run.
Remove(r) ==
    /\ job[r].state = "alive"
    /\ job' = [job EXCEPT ![r] = [state |-> "removed", listed |-> FALSE]]
    /\ UNCHANGED <<row, request, lock, other, faults>>

Others ==
    /\ other' \in {other - 1, other + 1} \cap 0..MaxOther
    /\ UNCHANGED <<row, request, lock, job, faults>>

\* The server dies: the database drops its transactions, and nothing ever
\* looks at the pending rows it leaves.
Crash ==
    /\ faults < MaxFaults
    /\ request' = [r \in Request |->
          IF request[r].step \in Ended \cup {"idle"} THEN request[r]
          ELSE [request[r] EXCEPT !.step = "error"]]
    /\ lock' = [a \in Agent |-> None]
    /\ faults' = faults + 1
    /\ UNCHANGED <<row, job, other>>

Serve(r) ==
    \/ Look(r) \/ Insert(r) \/ LoseInsert(r) \/ Poll(r) \/ LookFails(r)
    \/ Lock(r) \/ LockFails(r) \/ List(r) \/ Added(r) \/ AddTimesOut(r)
    \/ Commit(r) \/ Complete(r) \/ RecordFailure(r) \/ LoseFailure(r) \/ Deliver(r)

Runtime(r) == Create(r) \/ Refuse(r) \/ Remove(r)

Next ==
    \/ \E r \in Request : \/ \E k \in Key \cup {None}, h \in Hash : Arrive(r, k, h)
                          \/ Serve(r) \/ Runtime(r)
    \/ Others
    \/ Crash

\* Every await of the route ends, by its answer, an error or a timeout.
Fairness == \A r \in Request : WF_vars(Serve(r))

Spec == Init /\ [][Next]_vars /\ Fairness

-----------------------------------------------------------------------------
(* Properties                                                              *)

SameKey(r, s) == AgentOf[r] = AgentOf[s] /\ Keyed(r) /\ request[r].key = request[s].key

\* Types; and whoever works on a job of an agent up to the commit holds its lock.
TypeOK ==
    /\ row \in [Agent -> [Key ->
                  [status : {None, "pending", "succeeded", "failed"},
                   hash : Hash \cup {None}, job : Request \cup {None}]]]
    /\ request \in [Request -> [step : {"idle"} \cup Waiting \cup Working \cup Ended,
                                key : Key \cup {None}, hash : Hash \cup {None},
                                job : Request \cup {None}]]
    /\ lock \in [Agent -> Request \cup {None}]
    /\ job \in [Request -> [state : {"none", "sent", "alive", "removed"}, listed : BOOLEAN]]
    /\ other \in 0..MaxOther
    /\ faults \in 0..MaxFaults
    /\ \A r \in Request :
          request[r].step \in {"list", "sent", "commit"} <=> lock[AgentOf[r]] = r

\* However often a keyed request is sent again, and whatever fails or crashes
\* in between, the runtime is asked for one job at most.
OneJobPerKey ==
    \A r, s \in Request :
       SameKey(r, s) /\ job[r].state # "none" /\ job[s].state # "none" => r = s

\* A success names a job that was made, from the same input and for the same
\* key as the request it answers, if not by that request itself.
RepliesHonest ==
    \A r \in Request : request[r].step = "ok" =>
       LET j == request[r].job
       IN  /\ job[j].state \in {"alive", "removed"}
           /\ j = r \/ (SameKey(r, j) /\ request[j].hash = request[r].hash)

\* The limit holds for the jobs an agent has made through the route, as long as
\* the listing worked and the runtime made the job before the request gave up.
LimitKept ==
    \A a \in Agent :
       Cardinality({r \in Alive : AgentOf[r] = a /\ job[r].listed}) <= Limit

\* A reservation is settled, so that a retry learns its result, unless the
\* server has died, the update itself has failed or the insert's answer is lost.
ReservationsSettle ==
    \A a \in Agent, k \in Key :
       row[a][k].status = "pending" ~> (row[a][k].status # "pending" \/ faults > 0)
=============================================================================
