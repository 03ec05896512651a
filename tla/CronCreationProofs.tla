------------------------- MODULE CronCreationProofs -------------------------
(* Theorems about CronCreation for any requests, agents, keys and limits.  *)
EXTENDS CronCreation, FiniteSetTheorems, TLAPS

-----------------------------------------------------------------------------
(* How a request moves                                                     *)

Steps == {"idle"} \cup Waiting \cup Working \cup Ended
RequestState == [step : Steps, key : Key \cup {None}, hash : Hash \cup {None},
                 job : Request \cup {None}]
RowState == [status : {None, "pending", "succeeded", "failed"}, hash : Hash \cup {None},
             job : Request \cup {None}]
JobState == [state : {"none", "sent", "alive", "removed"}, listed : BOOLEAN]

\* Whoever works on a job up to the commit holds the lock of the agent.
Holding == {"list", "sent", "commit"}
LockInv == \A r \in Request : request[r].step \in Holding <=> lock[AgentOf[r]] = r

\* Only a request with a key waits for a row or has one to close.
KeyInv ==
    \A r \in Request :
        request[r].step \in {"look", "insert", "wait", "complete", "failing"}
        => request[r].key \in Key

DataOK ==
    /\ row \in [Agent -> [Key -> RowState]]
    /\ request \in [Request -> RequestState]
    /\ lock \in [Agent -> Request \cup {None}]
    /\ job \in [Request -> JobState]
    /\ other \in 0..MaxOther
    /\ faults \in 0..MaxFaults

TypeInv == DataOK /\ LockInv /\ KeyInv

LEMMA TypeParts == TypeOK <=> DataOK /\ LockInv
BY DEF TypeOK, DataOK, LockInv, Holding, RowState, RequestState, JobState, Steps

\* A request goes on to a step, keeping its key and hash.
LEMMA TakeType ==
    ASSUME DataOK, NEW r \in Request, NEW step \in Steps, NEW j \in Request \cup {None},
           Take(r, step, j)
    PROVE  /\ request' \in [Request -> RequestState]
           /\ request'[r] = [step |-> step, key |-> request[r].key,
                             hash |-> request[r].hash, job |-> j]
           /\ \A s \in Request \ {r} : request'[s] = request[s]
<1> DEFINE new == [step |-> step, key |-> request[r].key, hash |-> request[r].hash, job |-> j]
<1>1. new \in RequestState
  BY DEF DataOK, RequestState
<1>2. request' = [request EXCEPT ![r] = new]
  BY DEF Take
<1> HIDE DEF new
<1>3. /\ request' \in [Request -> RequestState] /\ request'[r] = new
      /\ \A s \in Request \ {r} : request'[s] = request[s]
  BY <1>1, <1>2 DEF DataOK
<1> QED
  BY <1>3 DEF new

LEMMA ToMoves ==
    ASSUME DataOK, NEW r \in Request, NEW step, To(r, step)
    PROVE  Take(r, step, request[r].job)
<1>1. request[r] \in RequestState
  BY DEF DataOK
<1>2. [request[r] EXCEPT !.step = step]
        = [step |-> step, key |-> request[r].key, hash |-> request[r].hash,
           job |-> request[r].job]
  BY <1>1 DEF RequestState
<1>3. request' = [request EXCEPT ![r] = [request[r] EXCEPT !.step = step]]
  BY DEF To
<1> QED
  BY <1>2, <1>3 DEF Take


-----------------------------------------------------------------------------
(* The ten ways a request is served.  The lemma below replaces a split over *)
(* the route's statements in every proof that follows.                     *)

Waits(r, step) ==
    /\ request[r].step \in {"look", "insert", "wait"}
    /\ step \in {"look", "insert", "wait", "error"}
    /\ UNCHANGED <<row, lock, job>>

Finds(r, step, j) ==
    /\ request[r].step \in {"look", "wait"}
    /\ step = "deliver"
    /\ RowOf(r).status = "succeeded" /\ RowOf(r).hash = request[r].hash /\ j = RowOf(r).job
    /\ UNCHANGED <<row, lock, job>>

Reserves(r, step) ==
    /\ request[r].step = "insert" /\ step \in {"lock", "error"}
    /\ RowOf(r) = NoRow
    /\ SetRow(r, [status |-> "pending", hash |-> request[r].hash, job |-> None])
    /\ UNCHANGED <<lock, job>>

Locks(r, step) ==
    /\ request[r].step = "lock" /\ step = "list"
    /\ lock[AgentOf[r]] = None
    /\ lock' = [lock EXCEPT ![AgentOf[r]] = r]
    /\ UNCHANGED <<row, job>>

GivesUp(r, step) ==
    /\ step = IF Keyed(r) THEN "failing" ELSE "error"
    /\ \/ request[r].step = "lock" /\ lock' = lock
       \/ request[r].step \in Holding /\ Release(r)
    /\ UNCHANGED <<row, job>>

Asks(r, step) ==
    /\ request[r].step = "list" /\ step = "sent"
    /\ \E listed \in BOOLEAN :
          /\ listed => Cardinality(Alive) + other < Limit
          /\ job' = [job EXCEPT ![r] = [state |-> "sent", listed |-> listed]]
    /\ UNCHANGED <<row, lock>>

Learns(r, step) ==
    /\ request[r].step = "sent" /\ step = "commit"
    /\ job[r].state \in {"alive", "removed"}
    /\ UNCHANGED <<row, lock, job>>

Commits(r, step, j) ==
    /\ request[r].step = "commit"
    /\ step = IF Keyed(r) THEN "complete" ELSE "deliver"
    /\ j = r
    /\ Release(r)
    /\ UNCHANGED <<row, job>>

Settles(r, step) ==
    /\ \/ /\ request[r].step = "complete" /\ step \in {"deliver", "failing"}
          /\ Close(r, "succeeded", r) \/ row' = row
       \/ /\ request[r].step = "failing" /\ step = "error"
          /\ Close(r, "failed", None) \/ row' = row
    /\ UNCHANGED <<lock, job>>

Replies(r, step) ==
    /\ request[r].step = "deliver" /\ step \in {"ok", "error"}
    /\ UNCHANGED <<row, lock, job>>

Served(r, step, j) ==
    \/ Finds(r, step, j)
    \/ Commits(r, step, j)
    \/ /\ j = request[r].job
       /\ \/ Waits(r, step) \/ Reserves(r, step) \/ Locks(r, step) \/ GivesUp(r, step)
          \/ Asks(r, step) \/ Learns(r, step) \/ Settles(r, step) \/ Replies(r, step)

\* The row a keyed request waits for.
LEMMA RowType ==
    ASSUME TypeInv, NEW r \in Request, request[r].key \in Key
    PROVE  RowOf(r) \in RowState
BY RequestAssumption DEF TypeInv, DataOK, RowOf

LEMMA StepNames ==
    /\ Steps = {"idle", "look", "insert", "lock", "wait", "list", "sent", "commit", "complete",
                "failing", "deliver", "ok", "error"}
    /\ Holding \subseteq Steps
BY DEF Steps, Waiting, Working, Ended, Holding

LEMMA StoredMoves ==
    ASSUME TypeInv, NEW r \in Request, request[r].step \in {"look", "wait"}, FromStored(r),
           UNCHANGED <<row, lock, job>>
    PROVE  \E step \in Steps, j \in Request \cup {None} : Take(r, step, j) /\ Served(r, step, j)
<1>1. RowOf(r) \in RowState /\ request[r].job \in Request \cup {None}
  BY RowType DEF TypeInv, KeyInv, DataOK, RequestState
<1>2. CASE /\ RowOf(r).hash = request[r].hash /\ RowOf(r).status = "succeeded"
           /\ Take(r, "deliver", RowOf(r).job)
  BY <1>1, <1>2, StepNames DEF RowState, Served, Finds
<1>3. CASE To(r, "error") \/ To(r, "wait")
  <2>1. \E step \in {"wait", "error"} : Take(r, step, request[r].job)
    BY <1>3, ToMoves DEF TypeInv
  <2>2. \A step \in {"wait", "error"} : Waits(r, step)
    BY DEF Waits
  <2> QED
    BY <1>1, <2>1, <2>2, StepNames DEF Served
<1> QED
  BY <1>2, <1>3 DEF FromStored

LEMMA ServeCases ==
    ASSUME TypeInv, NEW r \in Request, Serve(r)
    PROVE  \E step \in Steps, j \in Request \cup {None} : Take(r, step, j) /\ Served(r, step, j)
<1>0. request[r].job \in Request \cup {None} /\ DataOK
  BY DEF TypeInv, DataOK, RequestState
\* A step that keeps the request's job.
<1>1. ASSUME NEW step \in Steps, To(r, step),
             \/ Waits(r, step) \/ Reserves(r, step) \/ Locks(r, step) \/ GivesUp(r, step)
             \/ Asks(r, step) \/ Learns(r, step) \/ Settles(r, step) \/ Replies(r, step)
      PROVE  \E s \in Steps, j \in Request \cup {None} : Take(r, s, j) /\ Served(r, s, j)
  <2>1. Take(r, step, request[r].job)
    BY <1>0, <1>1, ToMoves
  <2> QED
    BY <1>0, <1>1, <2>1 DEF Served
<1>2. CASE Look(r)
  <2>1. CASE RowOf(r) = NoRow
    BY <1>1, <1>2, <2>1, StepNames DEF Look, Waits
  <2>2. CASE RowOf(r) # NoRow
    BY <1>2, <2>2, StoredMoves DEF Look
  <2> QED
    BY <2>1, <2>2
<1>3. CASE Insert(r)
  <2>1. CASE RowOf(r) = NoRow
    BY <1>1, <1>3, <2>1, StepNames DEF Insert, Reserves
  <2>2. CASE RowOf(r) # NoRow
    BY <1>1, <1>3, <2>2, StepNames DEF Insert, Waits
  <2> QED
    BY <2>1, <2>2
<1>3a. CASE LoseInsert(r)
  BY <1>1, <1>3a, StepNames DEF LoseInsert, Reserves
<1>4. CASE Poll(r)
  <2>1. CASE To(r, "error")
    BY <1>1, <1>4, <2>1, StepNames DEF Poll, Waits
  <2>2. CASE FromStored(r)
    BY <1>4, <2>2, StoredMoves DEF Poll
  <2> QED
    BY <1>4, <2>1, <2>2 DEF Poll
<1>5. CASE LookFails(r)
  BY <1>1, <1>5, StepNames DEF LookFails, Waits
<1>6. CASE Lock(r)
  BY <1>1, <1>6, StepNames DEF Lock, Locks
\* The failures of create() close a keyed row and answer the others.
<1>7. ASSUME Fail(r), \/ request[r].step = "lock" /\ lock' = lock
                      \/ request[r].step \in Holding /\ Release(r),
             UNCHANGED <<row, job>>
      PROVE  \E s \in Steps, j \in Request \cup {None} : Take(r, s, j) /\ Served(r, s, j)
  <2> DEFINE step == IF Keyed(r) THEN "failing" ELSE "error"
  <2>1. To(r, step) /\ GivesUp(r, step) /\ step \in Steps
    BY <1>7, StepNames DEF Fail, GivesUp
  <2> HIDE DEF step
  <2> QED
    BY <1>1, <2>1
<1>8. CASE LockFails(r)
  BY <1>7, <1>8 DEF LockFails
<1>9. CASE List(r)
  <2>1. CASE Fail(r) /\ Release(r) /\ UNCHANGED job
    BY <1>7, <1>9, <2>1 DEF List, Holding
  <2>2. CASE ~(Fail(r) /\ Release(r) /\ UNCHANGED job)
    <3>1. To(r, "sent") /\ Asks(r, "sent")
      BY <1>9, <2>2 DEF List, Asks
    <3> QED
      BY <1>1, <3>1, StepNames
  <2> QED
    BY <2>1, <2>2
<1>10. CASE Added(r)
  BY <1>1, <1>10, StepNames DEF Added, Learns
<1>11. CASE AddTimesOut(r)
  BY <1>7, <1>11 DEF AddTimesOut, Holding
<1>12. CASE Commit(r)
  <2>1. CASE Fail(r)
    BY <1>7, <1>12, <2>1 DEF Commit, Holding
  <2>2. CASE Take(r, IF Keyed(r) THEN "complete" ELSE "deliver", r)
    <3> DEFINE step == IF Keyed(r) THEN "complete" ELSE "deliver"
    <3>1. step \in Steps /\ Take(r, step, r) /\ Commits(r, step, r)
      BY <1>12, <2>2, StepNames DEF Commit, Commits
    <3> HIDE DEF step
    <3> QED
      BY <3>1 DEF Served
  <2> QED
    BY <1>12, <2>1, <2>2 DEF Commit
<1>13. CASE Complete(r)
  <2>1. PICK step \in {"deliver", "failing"} :
          To(r, step) /\ (Close(r, "succeeded", r) \/ row' = row)
    BY <1>13 DEF Complete
  <2>2. Settles(r, step)
    BY <1>13, <2>1 DEF Complete, Settles
  <2> QED
    BY <1>1, <2>1, <2>2, StepNames
<1>14. CASE RecordFailure(r) \/ LoseFailure(r)
  <2>1. To(r, "error") /\ Settles(r, "error")
    BY <1>14 DEF RecordFailure, LoseFailure, Settles
  <2> QED
    BY <1>1, <2>1, StepNames
<1>15. CASE Deliver(r)
  <2>1. PICK step \in {"ok", "error"} : To(r, step)
    BY <1>15 DEF Deliver
  <2>2. Replies(r, step)
    BY <1>15 DEF Deliver, Replies
  <2> QED
    BY <1>1, <2>1, <2>2, StepNames
<1> QED
  BY <1>2, <1>3, <1>3a, <1>4, <1>5, <1>6, <1>8, <1>9, <1>10, <1>11, <1>12, <1>13, <1>14, <1>15
     DEF Serve

-----------------------------------------------------------------------------
(* Types, and the lock of the agent                                        *)

KeyedSteps == {"look", "insert", "wait", "complete", "failing"}

\* A step of a request either leaves the lock alone, takes it or gives it back.
LEMMA MoveType ==
    ASSUME TypeInv, NEW r \in Request, NEW step \in Steps, NEW j \in Request \cup {None},
           Take(r, step, j), step \in KeyedSteps => request[r].key \in Key,
           \/ lock' = lock /\ (step \in Holding <=> request[r].step \in Holding)
           \/ /\ request[r].step \notin Holding /\ step \in Holding
              /\ lock[AgentOf[r]] = None
              /\ lock' = [lock EXCEPT ![AgentOf[r]] = r]
           \/ request[r].step \in Holding /\ step \notin Holding /\ Release(r)
    PROVE  /\ request' \in [Request -> RequestState]
           /\ lock' \in [Agent -> Request \cup {None}]
           /\ LockInv' /\ KeyInv'
<1>1. /\ request' \in [Request -> RequestState]
      /\ request'[r].step = step /\ request'[r].key = request[r].key
      /\ \A s \in Request \ {r} : request'[s] = request[s]
  <2>1. /\ request' \in [Request -> RequestState]
        /\ request'[r] = [step |-> step, key |-> request[r].key,
                          hash |-> request[r].hash, job |-> j]
        /\ \A s \in Request \ {r} : request'[s] = request[s]
    <3> HIDE DEF RequestState
    <3> QED
      BY TakeType DEF TypeInv
  <2> QED
    BY <2>1
<1>2. KeyInv'
  BY <1>1 DEF KeyInv, TypeInv, KeyedSteps
<1>3. AgentOf \in [Request -> Agent] /\ None \notin Request /\ lock \in [Agent -> Request \cup {None}]
  BY RequestAssumption, NoneAssumption DEF TypeInv, DataOK
<1>4. \A s \in Request : request[s].step \in Holding <=> lock[AgentOf[s]] = s
  BY DEF TypeInv, LockInv
<1>5. CASE lock' = lock /\ (step \in Holding <=> request[r].step \in Holding)
  BY <1>1, <1>2, <1>3, <1>4, <1>5 DEF LockInv
<1>6. CASE /\ request[r].step \notin Holding /\ step \in Holding
           /\ lock[AgentOf[r]] = None
           /\ lock' = [lock EXCEPT ![AgentOf[r]] = r]
  <2>1. lock' \in [Agent -> Request \cup {None}]
    BY <1>3, <1>6
  <2>2. ASSUME NEW s \in Request
        PROVE  request'[s].step \in Holding <=> lock'[AgentOf[s]] = s
    BY <1>1, <1>3, <1>4, <1>6
  <2> QED
    BY <1>1, <1>2, <2>1, <2>2 DEF LockInv
<1>7. CASE request[r].step \in Holding /\ step \notin Holding /\ Release(r)
  <2>1. lock' = [lock EXCEPT ![AgentOf[r]] = None]
    BY <1>3, <1>4, <1>7 DEF Release
  <2>2. lock' \in [Agent -> Request \cup {None}]
    BY <1>3, <2>1
  <2>3. ASSUME NEW s \in Request
        PROVE  request'[s].step \in Holding <=> lock'[AgentOf[s]] = s
    BY <1>1, <1>3, <1>4, <1>7, <2>1
  <2> QED
    BY <1>1, <1>2, <2>2, <2>3 DEF LockInv
<1> QED
  BY <1>5, <1>6, <1>7

LEMMA RowWritten ==
    ASSUME TypeInv, NEW r \in Request, request[r].key \in Key, NEW new \in RowState, SetRow(r, new)
    PROVE  /\ row' \in [Agent -> [Key -> RowState]]
           /\ row'[AgentOf[r]][request[r].key] = new
           /\ \A a \in Agent, k \in Key :
                 a # AgentOf[r] \/ k # request[r].key => row'[a][k] = row[a][k]
<1>1. AgentOf[r] \in Agent /\ row \in [Agent -> [Key -> RowState]]
  BY RequestAssumption DEF TypeInv, DataOK
<1> DEFINE line == [row[AgentOf[r]] EXCEPT ![request[r].key] = new]
<1>2. row[AgentOf[r]] \in [Key -> RowState]
  BY <1>1
<1>3. /\ line \in [Key -> RowState] /\ line[request[r].key] = new
      /\ \A k \in Key : k # request[r].key => line[k] = row[AgentOf[r]][k]
  BY <1>2
<1>4. row' = [row EXCEPT ![AgentOf[r]] = line]
  BY DEF SetRow
<1> HIDE DEF line
<1> QED
  BY <1>1, <1>3, <1>4

\* The row of a reservation, before and after one of its ends.
LEMMA CloseMoves ==
    ASSUME TypeInv, NEW r \in Request, request[r].key \in Key,
           NEW status \in {"succeeded", "failed"}, NEW j \in Request \cup {None},
           Close(r, status, j)
    PROVE  \/ row' = row
           \/ /\ RowOf(r).status = "pending"
              /\ SetRow(r, [status |-> status, hash |-> RowOf(r).hash, job |-> j])
              /\ [status |-> status, hash |-> RowOf(r).hash, job |-> j] \in RowState
<1>1. RowOf(r) \in RowState
  BY RowType
<1>2. [status |-> status, hash |-> RowOf(r).hash, job |-> j] \in RowState
  BY <1>1 DEF RowState
<1> QED
  BY <1>2 DEF Close

LEMMA ServeType ==
    ASSUME TypeInv, NEW r \in Request, Serve(r)
    PROVE  TypeInv'
<1>1. PICK step \in Steps, j \in Request \cup {None} : Take(r, step, j) /\ Served(r, step, j)
  BY ServeCases
<1>2. other' \in 0..MaxOther /\ faults' \in 0..MaxFaults
  <2>1. other' = other
    BY DEF Serve, Look, Insert, LoseInsert, Poll, LookFails, Lock, LockFails, List, Added, AddTimesOut, Commit,
           Complete, RecordFailure, LoseFailure, Deliver
  <2>2. faults' = faults \/ (faults < MaxFaults /\ faults' = faults + 1)
    BY DEF Serve, Look, Insert, LoseInsert, Poll, LookFails, Lock, LockFails, List, Added, AddTimesOut, Commit,
           Complete, RecordFailure, LoseFailure, Deliver
  <2> QED
    BY <2>1, <2>2, BoundAssumption DEF TypeInv, DataOK
<1>3. /\ request[r].step \in Steps /\ request[r].key \in Key \cup {None}
      /\ request[r].hash \in Hash \cup {None}
      /\ request[r].step \in KeyedSteps => request[r].key \in Key
      /\ Keyed(r) => request[r].key \in Key
  BY DEF TypeInv, DataOK, RequestState, KeyInv, KeyedSteps, Keyed
<1>4. row' \in [Agent -> [Key -> RowState]]
  <2>1. CASE row' = row
    BY <2>1 DEF TypeInv, DataOK
  <2>2. CASE Reserves(r, step)
    <3>1. [status |-> "pending", hash |-> request[r].hash, job |-> None] \in RowState
      BY <1>3 DEF RowState
    <3> QED
      BY <1>3, <2>2, <3>1, RowWritten DEF Reserves, KeyedSteps
  <2>3. CASE Settles(r, step)
    <3>1. request[r].key \in Key
      BY <1>3, <2>3 DEF Settles, KeyedSteps
    <3>2. \/ row' = row
          \/ \E status \in {"succeeded", "failed"}, i \in Request \cup {None} : Close(r, status, i)
      BY <2>3 DEF Settles
    <3>3. \/ row' = row
          \/ \E new \in RowState : SetRow(r, new)
      BY <3>1, <3>2, CloseMoves
    <3> QED
      BY <2>1, <3>1, <3>3, RowWritten
  <2> QED
    BY <1>1, <2>1, <2>2, <2>3
       DEF Served, Finds, Commits, Waits, Locks, GivesUp, Asks, Learns, Replies
<1>5. job' \in [Request -> JobState]
  <2>1. CASE job' = job
    BY <2>1 DEF TypeInv, DataOK
  <2>2. CASE Asks(r, step)
    BY <2>2 DEF Asks, TypeInv, DataOK, JobState
  <2> QED
    BY <1>1, <2>1, <2>2
       DEF Served, Finds, Commits, Waits, Reserves, Locks, GivesUp, Learns, Settles, Replies
<1>6. step \in KeyedSteps => request[r].key \in Key
  BY <1>1, <1>3 DEF Served, Finds, Commits, Waits, Reserves, Locks, GivesUp, Asks, Learns, Settles,
                    Replies, KeyedSteps, Keyed
<1>7. \/ lock' = lock /\ (step \in Holding <=> request[r].step \in Holding)
      \/ /\ request[r].step \notin Holding /\ step \in Holding
         /\ lock[AgentOf[r]] = None
         /\ lock' = [lock EXCEPT ![AgentOf[r]] = r]
      \/ request[r].step \in Holding /\ step \notin Holding /\ Release(r)
  BY <1>1 DEF Served, Finds, Commits, Waits, Reserves, Locks, GivesUp, Asks, Learns, Settles,
              Replies, Holding
<1> QED
  BY <1>1, <1>2, <1>4, <1>5, <1>6, <1>7, MoveType DEF TypeInv, DataOK

\* A refusal of the runtime ends the call that still waits for its answer.
RefusedCall(r) ==
    /\ request[r].step = "sent"
    /\ Take(r, IF Keyed(r) THEN "failing" ELSE "error", request[r].job)
    /\ Release(r)

LEMMA RefuseCases ==
    ASSUME TypeInv, NEW r \in Request, Refuse(r)
    PROVE  RefusedCall(r) \/ (request[r].step # "sent" /\ UNCHANGED <<request, lock>>)
<1> DEFINE step == IF Keyed(r) THEN "failing" ELSE "error"
<1>1. CASE request[r].step = "sent"
  <2>1. To(r, step) /\ Release(r)
    BY <1>1 DEF Refuse, Fail
  <2>2. Take(r, step, request[r].job)
    <3> HIDE DEF step
    <3> QED
      BY <2>1, ToMoves DEF TypeInv
  <2> QED
    BY <1>1, <2>1, <2>2 DEF RefusedCall
<1>2. CASE request[r].step # "sent"
  BY <1>2 DEF Refuse
<1> QED
  BY <1>1, <1>2

\* After a crash no request is on its way and nobody holds a lock.
LEMMA CrashMoves ==
    ASSUME TypeInv, Crash
    PROVE  /\ request' \in [Request -> RequestState]
           /\ \A r \in Request :
                 \/ request[r].step \in Ended \cup {"idle"} /\ request'[r] = request[r]
                 \/ /\ request[r].step \notin Ended \cup {"idle"}
                    /\ request'[r] = [step |-> "error", key |-> request[r].key,
                                      hash |-> request[r].hash, job |-> request[r].job]
<1>1. ASSUME NEW r \in Request
      PROVE  [request[r] EXCEPT !.step = "error"]
               = [step |-> "error", key |-> request[r].key,
                  hash |-> request[r].hash, job |-> request[r].job]
  <2>1. request[r] \in RequestState
    BY DEF TypeInv, DataOK
  <2> QED
    BY <2>1 DEF RequestState
<1>2. ASSUME NEW r \in Request
      PROVE  /\ request'[r] \in RequestState
             /\ \/ request[r].step \in Ended \cup {"idle"} /\ request'[r] = request[r]
                \/ /\ request[r].step \notin Ended \cup {"idle"}
                   /\ request'[r] = [request[r] EXCEPT !.step = "error"]
  <2>1. request[r] \in RequestState
    BY DEF TypeInv, DataOK
  <2>2. [request[r] EXCEPT !.step = "error"] \in RequestState
    BY <2>1, StepNames DEF RequestState
  <2> QED
    BY <2>1, <2>2 DEF Crash
<1>3. request' = [r \in Request |-> request'[r]]
  BY DEF Crash
<1>4. request' \in [Request -> RequestState]
  <2> HIDE DEF RequestState
  <2> QED
    BY <1>2, <1>3
<1> QED
  BY <1>1, <1>2, <1>4

LEMMA TypeInitially == Init => TypeInv
<1>1. SUFFICES ASSUME Init PROVE DataOK /\ LockInv /\ KeyInv
  BY DEF TypeInv
<1>2. ASSUME NEW r \in Request
      PROVE  AgentOf[r] \in Agent /\ request[r].step = "idle" /\ lock[AgentOf[r]] = None /\ r # None
  BY <1>1, RequestAssumption, NoneAssumption DEF Init
<1>3. LockInv /\ KeyInv
  BY <1>2 DEF LockInv, KeyInv, Holding
<1>4. row \in [Agent -> [Key -> RowState]]
  BY <1>1 DEF Init, RowState, NoRow
<1>5. request \in [Request -> RequestState]
  BY <1>1, StepNames DEF Init, RequestState
<1>6. lock \in [Agent -> Request \cup {None}] /\ job \in [Request -> JobState]
  BY <1>1 DEF Init, JobState, NoJob
<1>7. other \in 0..MaxOther /\ faults \in 0..MaxFaults
  BY <1>1, BoundAssumption DEF Init
<1> QED
  BY <1>3, <1>4, <1>5, <1>6, <1>7 DEF DataOK

LEMMA TypeStep == TypeInv /\ [Next]_vars => TypeInv'
<1> SUFFICES ASSUME TypeInv, [Next]_vars PROVE TypeInv'
  OBVIOUS
<1> USE DEF TypeInv
<1>1. ASSUME NEW r \in Request, NEW k \in Key \cup {None}, NEW h \in Hash, Arrive(r, k, h)
      PROVE  TypeInv'
  <2> DEFINE new == [step |-> IF k = None THEN "lock" ELSE "look", key |-> k,
                     hash |-> IF k = None THEN None ELSE h, job |-> None]
  <2>1. new \in RequestState /\ (new.step \in KeyedSteps => new.key \in Key)
    BY StepNames, NoneAssumption DEF RequestState, KeyedSteps
  <2>2. new.step \notin Holding
    BY DEF Holding
  <2>3. request[r].step \notin Holding
    BY <1>1 DEF Arrive, Holding
  <2>4. request' = [request EXCEPT ![r] = new]
    BY <1>1 DEF Arrive
  <2> HIDE DEF new
  <2>5. /\ request' \in [Request -> RequestState] /\ request'[r] = new
        /\ \A s \in Request \ {r} : request'[s] = request[s]
    <3> HIDE DEF RequestState
    <3> QED
      BY <2>1, <2>4 DEF DataOK
  <2>6. LockInv' /\ KeyInv'
    BY <1>1, <2>1, <2>2, <2>3, <2>5 DEF LockInv, KeyInv, KeyedSteps, Arrive
  <2> QED
    BY <1>1, <2>5, <2>6 DEF DataOK, Arrive
<1>2. ASSUME NEW r \in Request, Serve(r)
      PROVE  TypeInv'
  BY <1>2, ServeType
<1>3. ASSUME NEW r \in Request, Create(r) \/ Remove(r)
      PROVE  TypeInv'
  <2>1. PICK b \in BOOLEAN, state \in {"alive", "removed"} :
          job' = [job EXCEPT ![r] = [state |-> state, listed |-> b]]
    <3>1. CASE Create(r)
      <4>1. (job[r].listed /\ request[r].step = "sent") \in BOOLEAN
        OBVIOUS
      <4> QED
        BY <3>1, <4>1 DEF Create
    <3>2. CASE Remove(r)
      BY <3>2 DEF Remove
    <3> QED
      BY <1>3, <3>1, <3>2
  <2>2. job' \in [Request -> JobState]
    BY <2>1 DEF DataOK, JobState
  <2>3. UNCHANGED <<row, request, lock, other, faults>>
    BY <1>3 DEF Create, Remove
  <2> QED
    BY <2>2, <2>3 DEF DataOK, LockInv, KeyInv
<1>4. ASSUME NEW r \in Request, Refuse(r)
      PROVE  TypeInv'
  <2>1. job' \in [Request -> JobState] /\ UNCHANGED <<row, other, faults>>
    BY <1>4 DEF Refuse, DataOK, JobState, NoJob
  <2>2. CASE UNCHANGED <<request, lock>>
    BY <2>1, <2>2 DEF DataOK, LockInv, KeyInv
  <2>3. CASE RefusedCall(r)
    <3> DEFINE step == IF Keyed(r) THEN "failing" ELSE "error"
    <3>1. step \in Steps /\ step \notin Holding /\ request[r].step \in Holding
      BY <2>3, StepNames DEF Holding, RefusedCall
    <3>2. request[r].key \in Key \cup {None} /\ request[r].job \in Request \cup {None}
      BY DEF DataOK, RequestState
    <3>3. step \in KeyedSteps => request[r].key \in Key
      BY <3>2 DEF Keyed, KeyedSteps
    <3>4. Take(r, step, request[r].job) /\ Release(r)
      BY <2>3 DEF RefusedCall
    <3> HIDE DEF step
    <3>5. /\ request' \in [Request -> RequestState]
          /\ lock' \in [Agent -> Request \cup {None}]
          /\ LockInv' /\ KeyInv'
      BY <3>1, <3>2, <3>3, <3>4, MoveType
    <3> QED
      BY <2>1, <3>5 DEF DataOK
  <2> QED
    BY <1>4, <2>2, <2>3, RefuseCases
<1>5. CASE Others
  BY <1>5 DEF Others, DataOK, LockInv, KeyInv
<1>6. CASE Crash
  <2>1. lock' \in [Agent -> Request \cup {None}]
    BY <1>6 DEF Crash
  <2>2. ASSUME NEW r \in Request
        PROVE  lock'[AgentOf[r]] # r /\ request'[r].step \notin Holding
    BY <1>6, CrashMoves, RequestAssumption, NoneAssumption DEF Crash, Holding, Ended
  <2>3. LockInv'
    BY <2>2 DEF LockInv
  <2>4. KeyInv'
    <3>1. \A r \in Request : request'[r].step \in {"ok", "error", "idle"}
      BY <1>6, CrashMoves DEF Ended
    <3> QED
      BY <3>1 DEF KeyInv
  <2>5. faults' \in 0..MaxFaults /\ UNCHANGED <<row, job, other>>
    BY <1>6, BoundAssumption DEF Crash, DataOK
  <2> QED
    BY <1>6, <2>1, <2>3, <2>4, <2>5, CrashMoves DEF DataOK
<1>7. CASE UNCHANGED vars
  BY <1>7 DEF vars, DataOK, LockInv, KeyInv
<1> QED
  BY <1>1, <1>2, <1>3, <1>4, <1>5, <1>6, <1>7 DEF Next, Runtime

LEMMA TypeInvariant == Spec => []TypeInv
BY TypeInitially, TypeStep, PTL DEF Spec

\* Every variable keeps its type, and whoever works on a job of an agent, from
\* the listing to the commit, is the one holder of that agent's lock.
THEOREM CronTypeCorrect == Spec => []TypeOK
<1>1. TypeInv => TypeOK
  BY TypeParts DEF TypeInv
<1> QED
  BY <1>1, TypeInvariant, PTL

-----------------------------------------------------------------------------
(* One job for a key                                                       *)

OwnerSteps == {"lock", "list", "sent", "commit", "complete", "failing"}
EarlySteps == {"idle", "look", "insert", "wait", "lock", "list"}

\* The request that has reserved its key, for as long as it works on a job or
\* has one.
Owner(r) == Keyed(r) /\ (request[r].step \in OwnerSteps \/ job[r].state # "none")

\* Nobody has a job before he has asked for it.
EarlyInv == \A r \in Request : job[r].state # "none" => request[r].step \notin EarlySteps

OwnerInv ==
    /\ \A r \in Request : Owner(r) => RowOf(r) # NoRow
    /\ \A r, s \in Request : SameKey(r, s) /\ Owner(r) /\ Owner(s) => r = s

\* A row that is there stays there.
RowsStay == \A a \in Agent, k \in Key : row[a][k] # NoRow => row'[a][k] # NoRow

SameRequest(r) == request'[r].key = request[r].key /\ request'[r].hash = request[r].hash

\* Requests only lose a key they own, or keep it, apart from the one that has
\* reserved it.
OwnersKept(R) == \A r \in R : Owner(r)' => Owner(r) /\ SameRequest(r)

Reserved(r) ==
    /\ request[r].key \in Key
    /\ row[AgentOf[r]][request[r].key] = NoRow
    /\ SetRow(r, [status |-> "pending", hash |-> request[r].hash, job |-> None])
    /\ [status |-> "pending", hash |-> request[r].hash, job |-> None] \in RowState
    /\ SameRequest(r)
    /\ OwnersKept(Request \ {r})

LEMMA ServeOwners ==
    ASSUME TypeInv, EarlyInv, NEW r \in Request, Serve(r)
    PROVE  EarlyInv' /\ (OwnersKept(Request) \/ Reserved(r))
<1>1. PICK step \in Steps, j \in Request \cup {None} : Take(r, step, j) /\ Served(r, step, j)
  BY ServeCases
<1>2. /\ request'[r] = [step |-> step, key |-> request[r].key, hash |-> request[r].hash, job |-> j]
      /\ \A s \in Request \ {r} : request'[s] = request[s]
  BY <1>1, TakeType DEF TypeInv
<1>3. /\ request'[r].step = step /\ SameRequest(r)
      /\ \A s \in Request \ {r} : SameRequest(s)
  BY <1>2 DEF SameRequest
<1>4. \A s \in Request \ {r} : job'[s] = job[s]
  BY <1>1 DEF Served, Finds, Commits, Waits, Reserves, Locks, GivesUp, Asks, Learns, Settles,
              Replies, TypeInv, DataOK
<1>5. OwnersKept(Request \ {r})
  BY <1>2, <1>3, <1>4 DEF OwnersKept, Owner, Keyed
<1>6. CASE Asks(r, step)
  <2>1. step \notin EarlySteps /\ request[r].step \in OwnerSteps
    BY <1>6 DEF Asks, EarlySteps, OwnerSteps
  <2>2. EarlyInv'
    BY <1>2, <1>3, <1>4, <2>1 DEF EarlyInv
  <2>3. OwnersKept(Request)
    BY <1>3, <1>5, <2>1 DEF OwnersKept, Owner, Keyed, SameRequest
  <2> QED
    BY <2>2, <2>3
<1>7. CASE ~Asks(r, step)
  <2>1. job' = job
    BY <1>1, <1>7 DEF Served, Finds, Commits, Waits, Reserves, Locks, GivesUp, Learns, Settles, Replies
  <2>2. step \in EarlySteps => request[r].step \in EarlySteps
    BY <1>1, <1>7 DEF Served, Finds, Commits, Waits, Reserves, Locks, GivesUp, Learns, Settles,
                      Replies, EarlySteps, Holding
  <2>3. EarlyInv'
    BY <1>2, <1>3, <2>1, <2>2 DEF EarlyInv
  <2>4. CASE Reserves(r, step)
    <3>1. request[r].key \in Key /\ request[r].hash \in Hash \cup {None}
      BY <2>4 DEF Reserves, TypeInv, KeyInv, DataOK, RequestState
    <3>2. [status |-> "pending", hash |-> request[r].hash, job |-> None] \in RowState
      BY <3>1 DEF RowState
    <3> QED
      BY <1>3, <1>5, <2>3, <2>4, <3>1, <3>2 DEF Reserved, Reserves, RowOf
  <2>5. CASE ~Reserves(r, step)
    <3>1. Keyed(r) /\ step \in OwnerSteps => request[r].step \in OwnerSteps
      BY <1>1, <1>7, <2>5 DEF Served, Finds, Commits, Waits, Locks, GivesUp, Learns, Settles,
                              Replies, OwnerSteps, Holding
    <3>2. OwnersKept(Request)
      BY <1>3, <1>5, <2>1, <3>1 DEF OwnersKept, Owner, Keyed, SameRequest
    <3> QED
      BY <2>3, <3>2
  <2> QED
    BY <2>4, <2>5
<1> QED
  BY <1>6, <1>7

LEMMA StepOwners ==
    ASSUME TypeInv, EarlyInv, [Next]_vars
    PROVE  /\ EarlyInv'
           /\ OwnersKept(Request) \/ \E r \in Request : Serve(r) /\ Reserved(r)
<1>1. ASSUME NEW r \in Request, NEW k \in Key \cup {None}, NEW h \in Hash, Arrive(r, k, h)
      PROVE  EarlyInv' /\ OwnersKept(Request)
  <2>1. job' = job /\ request[r].step = "idle" /\ job[r].state = "none"
    BY <1>1 DEF Arrive, EarlyInv, EarlySteps
  <2> DEFINE new == [step |-> IF k = None THEN "lock" ELSE "look", key |-> k,
                     hash |-> IF k = None THEN None ELSE h, job |-> None]
  <2>2. new.key # None => new.step \notin OwnerSteps
    BY DEF OwnerSteps
  <2>3. request' = [request EXCEPT ![r] = new] /\ request \in [Request -> RequestState]
    BY <1>1 DEF Arrive, TypeInv, DataOK
  <2> HIDE DEF new
  <2>4. request'[r] = new /\ \A s \in Request \ {r} : request'[s] = request[s]
    BY <2>3
  <2> QED
    BY <2>1, <2>2, <2>4 DEF EarlyInv, OwnersKept, Owner, Keyed, SameRequest
<1>2. ASSUME NEW r \in Request, Serve(r)
      PROVE  EarlyInv' /\ (OwnersKept(Request) \/ Reserved(r))
  BY <1>2, ServeOwners
<1>3. ASSUME NEW r \in Request, Create(r) \/ Remove(r)
      PROVE  EarlyInv' /\ OwnersKept(Request)
  <2>1. request' = request
    BY <1>3 DEF Create, Remove
  <2>2. \A s \in Request : job'[s].state # "none" => job[s].state # "none"
    BY <1>3 DEF Create, Remove, TypeInv, DataOK
  <2> QED
    BY <2>1, <2>2 DEF EarlyInv, OwnersKept, Owner, Keyed, SameRequest
<1>4. ASSUME NEW r \in Request, Refuse(r)
      PROVE  EarlyInv' /\ OwnersKept(Request)
  <2>1. \A s \in Request : job'[s].state # "none" => job[s].state # "none" /\ s # r
    BY <1>4 DEF Refuse, TypeInv, DataOK, NoJob
  <2>2. CASE UNCHANGED <<request, lock>>
    BY <2>1, <2>2 DEF EarlyInv, OwnersKept, Owner, Keyed, SameRequest
  <2>3. CASE RefusedCall(r)
    <3> DEFINE step == IF Keyed(r) THEN "failing" ELSE "error"
    <3>1. /\ step \in Steps /\ request[r].step \in OwnerSteps
          /\ request[r].job \in Request \cup {None}
          /\ Take(r, step, request[r].job)
      BY <2>3, StepNames DEF RefusedCall, OwnerSteps, TypeInv, DataOK, RequestState
    <3> HIDE DEF step
    <3>2. /\ request'[r] = [step |-> step, key |-> request[r].key,
                            hash |-> request[r].hash, job |-> request[r].job]
          /\ \A s \in Request \ {r} : request'[s] = request[s]
      BY <3>1, TakeType DEF TypeInv
    <3> QED
      BY <2>1, <3>1, <3>2 DEF EarlyInv, OwnersKept, Owner, Keyed, SameRequest
  <2> QED
    BY <1>4, <2>2, <2>3, RefuseCases
<1>5. CASE Others
  BY <1>5 DEF Others, EarlyInv, OwnersKept, Owner, Keyed, SameRequest
<1>6. CASE Crash
  <2>1. job' = job
    BY <1>6 DEF Crash
  <2>2. \A r \in Request : \/ request'[r] = request[r]
                           \/ request'[r].step = "error" /\ SameRequest(r)
    BY <1>6, CrashMoves DEF SameRequest
  <2> QED
    BY <2>1, <2>2 DEF EarlyInv, OwnersKept, Owner, Keyed, SameRequest, EarlySteps, OwnerSteps
<1>7. CASE UNCHANGED vars
  BY <1>7 DEF vars, EarlyInv, OwnersKept, Owner, Keyed, SameRequest
<1> QED
  BY <1>1, <1>2, <1>3, <1>4, <1>5, <1>6, <1>7 DEF Next, Runtime

\* What a step writes into the table.
Wrote(r) ==
    \/ Reserved(r)
    \/ /\ Owner(r) /\ request[r].key \in Key /\ row[AgentOf[r]][request[r].key].status = "pending"
       /\ request[r].step \in {"complete", "failing"}
       /\ \E status \in {"succeeded", "failed"}, j \in Request \cup {None} :
             /\ status = "succeeded" => request[r].step = "complete" /\ j = r
             /\ [status |-> status, hash |-> RowOf(r).hash, job |-> j] \in RowState
             /\ SetRow(r, [status |-> status, hash |-> RowOf(r).hash, job |-> j])

LEMMA StepRows ==
    ASSUME TypeInv, EarlyInv, [Next]_vars
    PROVE  row' = row \/ \E r \in Request : Serve(r) /\ Wrote(r)
<1>1. ASSUME NEW r \in Request, Serve(r)
      PROVE  row' = row \/ Wrote(r)
  <2>1. PICK step \in Steps, j \in Request \cup {None} : Take(r, step, j) /\ Served(r, step, j)
    BY <1>1, ServeCases
  <2>2. CASE Reserves(r, step)
    <3>1. request[r].key \in Key /\ request[r].hash \in Hash \cup {None}
      BY <2>2 DEF Reserves, TypeInv, KeyInv, DataOK, RequestState
    <3>2. [status |-> "pending", hash |-> request[r].hash, job |-> None] \in RowState
      BY <3>1 DEF RowState
    <3>3. /\ request'[r] = [step |-> step, key |-> request[r].key,
                            hash |-> request[r].hash, job |-> j]
          /\ \A s \in Request \ {r} : request'[s] = request[s]
      BY <2>1, TakeType DEF TypeInv
    <3>4. OwnersKept(Request \ {r}) /\ SameRequest(r)
      BY <2>2, <3>3 DEF OwnersKept, Owner, Keyed, SameRequest, Reserves
    <3> QED
      BY <2>2, <3>1, <3>2, <3>4 DEF Wrote, Reserved, Reserves, RowOf
  <2>3. CASE Settles(r, step)
    <3>1. /\ request[r].key \in Key /\ Keyed(r)
          /\ request[r].step \in {"complete", "failing"} /\ request[r].step \in OwnerSteps
      BY <2>3, NoneAssumption DEF Settles, TypeInv, KeyInv, Keyed, OwnerSteps
    <3>2. \/ row' = row
          \/ \E status \in {"succeeded", "failed"}, i \in Request \cup {None} :
                /\ Close(r, status, i)
                /\ status = "succeeded" => request[r].step = "complete" /\ i = r
      BY <2>3 DEF Settles
    <3> QED
      BY <3>1, <3>2, CloseMoves DEF Wrote, Owner, RowOf
  <2> QED
    BY <2>1, <2>2, <2>3 DEF Served, Finds, Commits, Waits, Locks, GivesUp, Asks, Learns, Replies
<1>2. CASE ~\E r \in Request : Serve(r)
  BY <1>2 DEF Next, Runtime, Arrive, Create, Remove, Refuse, Others, Crash, vars
<1> QED
  BY <1>1, <1>2

LEMMA RowsRemain ==
    ASSUME TypeInv, EarlyInv, [Next]_vars
    PROVE  RowsStay
<1>1. CASE row' = row
  BY <1>1 DEF RowsStay
<1>2. ASSUME NEW r \in Request, Wrote(r)
      PROVE  RowsStay
  <2>1. PICK new \in RowState : SetRow(r, new) /\ new # NoRow /\ request[r].key \in Key
    <3>1. CASE Reserved(r)
      BY <3>1 DEF Reserved, NoRow, None
    <3>2. CASE ~Reserved(r)
      BY <1>2, <3>2 DEF Wrote, NoRow, None
    <3> QED
      BY <3>1, <3>2
  <2> QED
    BY <2>1, RowWritten DEF RowsStay
<1> QED
  BY <1>1, <1>2, StepRows

LEMMA OwnerStep == TypeInv /\ EarlyInv /\ OwnerInv /\ [Next]_vars => EarlyInv' /\ OwnerInv'
<1> SUFFICES ASSUME TypeInv, EarlyInv, OwnerInv, [Next]_vars PROVE OwnerInv'
  BY StepOwners
<1>1. RowsStay /\ (OwnersKept(Request) \/ \E r \in Request : Serve(r) /\ Reserved(r))
  BY RowsRemain, StepOwners
<1>2. \A r \in Request : AgentOf[r] \in Agent /\ (Owner(r) => request[r].key \in Key)
  BY RequestAssumption DEF TypeInv, DataOK, RequestState, Owner, Keyed
\* Whoever owns his key already owned it, and his row is still there.
<1>3. ASSUME NEW r \in Request, Owner(r), SameRequest(r)
      PROVE  row'[AgentOf[r]][request'[r].key] # NoRow
  BY <1>1, <1>2, <1>3 DEF OwnerInv, RowOf, RowsStay, SameRequest
<1>4. CASE OwnersKept(Request)
  <2>1. \A r \in Request : Owner(r)' => (RowOf(r) # NoRow)'
    BY <1>3, <1>4 DEF OwnersKept, RowOf
  <2>2. ASSUME NEW r \in Request, NEW s \in Request, SameKey(r, s)', Owner(r)', Owner(s)'
        PROVE  r = s
    <3>1. Owner(r) /\ Owner(s) /\ SameRequest(r) /\ SameRequest(s)
      BY <1>4, <2>2 DEF OwnersKept
    <3>2. SameKey(r, s)
      BY <2>2, <3>1 DEF SameKey, Keyed, SameRequest
    <3> QED
      BY <3>1, <3>2 DEF OwnerInv
  <2> QED
    BY <2>1, <2>2 DEF OwnerInv
<1>5. ASSUME NEW r \in Request, Reserved(r)
      PROVE  OwnerInv'
  <2>1. row'[AgentOf[r]][request[r].key] # NoRow
    <3>1. row'[AgentOf[r]][request[r].key]
            = [status |-> "pending", hash |-> request[r].hash, job |-> None]
      BY <1>5, RowWritten DEF Reserved
    <3> QED
      BY <3>1 DEF NoRow, None
  \* The row of the key was missing, so nobody owned it.
  <2>2. ASSUME NEW s \in Request \ {r}, Owner(s)', SameKey(r, s)' \/ SameKey(s, r)'
        PROVE  FALSE
    <3>1. Owner(s) /\ SameRequest(s) /\ SameRequest(r)
      BY <1>5, <2>2 DEF Reserved, OwnersKept
    <3>2. AgentOf[r] = AgentOf[s] /\ request[r].key = request[s].key
      BY <2>2, <3>1 DEF SameKey, SameRequest
    <3> QED
      BY <1>5, <3>1, <3>2 DEF OwnerInv, RowOf, Reserved
  <2>3. \A s \in Request : Owner(s)' => (RowOf(s) # NoRow)'
    BY <1>3, <1>5, <2>1 DEF Reserved, OwnersKept, RowOf, SameRequest
  <2>4. ASSUME NEW s \in Request \ {r}, NEW t \in Request \ {r}, SameKey(s, t)', Owner(s)', Owner(t)'
        PROVE  s = t
    <3>1. Owner(s) /\ Owner(t) /\ SameRequest(s) /\ SameRequest(t)
      BY <1>5, <2>4 DEF Reserved, OwnersKept
    <3>2. SameKey(s, t)
      BY <2>4, <3>1 DEF SameKey, Keyed, SameRequest
    <3> QED
      BY <3>1, <3>2 DEF OwnerInv
  <2> QED
    BY <2>2, <2>3, <2>4 DEF OwnerInv
<1> QED
  BY <1>1, <1>4, <1>5

LEMMA OwnerInitially == Init => EarlyInv /\ OwnerInv
<1>1. ASSUME Init, NEW r \in Request
      PROVE  job[r].state = "none" /\ ~Owner(r)
  BY <1>1 DEF Init, NoJob, Owner, Keyed
<1> QED
  BY <1>1 DEF EarlyInv, OwnerInv

LEMMA OwnerInvariant == Spec => [](TypeInv /\ EarlyInv /\ OwnerInv)
BY TypeInitially, OwnerInitially, TypeStep, OwnerStep, PTL DEF Spec

\* Of the requests that bring the same key for an agent, one at most ever has a
\* job at the runtime, through every crash, timeout and failed update.
THEOREM CronOneJobPerKey == Spec => []OneJobPerKey
<1>1. OwnerInv => OneJobPerKey
  BY DEF OwnerInv, OneJobPerKey, Owner, SameKey, Keyed
<1> QED
  BY <1>1, OwnerInvariant, PTL

-----------------------------------------------------------------------------
(* A success names a job that was made                                     *)

Made(j) == j \in Request /\ job[j].state \in {"alive", "removed"}

\* The job a request may answer with.
Answers(r, j) ==
    /\ Made(j)
    /\ j = r \/ (SameKey(r, j) /\ request[j].hash = request[r].hash)

ReplyInv ==
    \A r \in Request :
       /\ request[r].step \in {"commit", "complete"} => Made(r)
       /\ request[r].step = "complete" => request[r].job = r
       /\ request[r].step \in {"deliver", "ok"} => Answers(r, request[r].job)

Backed(j, h, a, k) == Made(j) /\ AgentOf[j] = a /\ request[j].key = k /\ request[j].hash = h

\* A row has the hash of its owner's request, and the job it names is one that
\* was made for this agent, key and hash.
StoredInv ==
    /\ \A r \in Request : Owner(r) => RowOf(r).hash = request[r].hash
    /\ \A a \in Agent, k \in Key :
          row[a][k].status = "succeeded" => Backed(row[a][k].job, row[a][k].hash, a, k)

\* A job that was made is never forgotten, nor the input it was made from.
LEMMA MadeStays ==
    ASSUME TypeInv, EarlyInv, [Next]_vars, NEW j, Made(j)
    PROVE  Made(j)' /\ SameRequest(j)
<1>0. /\ j \in Request /\ request[j].step \notin EarlySteps
      /\ job[j].state \notin {"none", "sent"}
      /\ request \in [Request -> RequestState] /\ job \in [Request -> JobState]
  BY DEF Made, EarlyInv, TypeInv, DataOK
<1>1. ASSUME NEW r \in Request, NEW k \in Key \cup {None}, NEW h \in Hash, Arrive(r, k, h)
      PROVE  Made(j)' /\ SameRequest(j)
  <2>1. job' = job /\ r # j /\ request'[j] = request[j]
    BY <1>0, <1>1 DEF Arrive, EarlySteps
  <2> QED
    BY <2>1 DEF Made, SameRequest
<1>2. ASSUME NEW r \in Request, Serve(r)
      PROVE  Made(j)' /\ SameRequest(j)
  <2>1. PICK step \in Steps, i \in Request \cup {None} : Take(r, step, i) /\ Served(r, step, i)
    BY <1>2, ServeCases
  <2>2. SameRequest(j)
    <3>1. /\ request'[r] = [step |-> step, key |-> request[r].key,
                            hash |-> request[r].hash, job |-> i]
          /\ \A s \in Request \ {r} : request'[s] = request[s]
      BY <2>1, TakeType DEF TypeInv
    <3> QED
      BY <1>0, <3>1 DEF SameRequest
  <2>3. job'[j] = job[j]
    <3>1. CASE Asks(r, step)
      BY <1>0, <3>1 DEF Asks, EarlySteps
    <3>2. CASE ~Asks(r, step)
      BY <2>1, <3>2 DEF Served, Finds, Commits, Waits, Reserves, Locks, GivesUp, Learns, Settles,
                        Replies
    <3> QED
      BY <3>1, <3>2
  <2> QED
    BY <2>2, <2>3 DEF Made
<1>3. ASSUME NEW r \in Request, Create(r) \/ Remove(r)
      PROVE  Made(j)' /\ SameRequest(j)
  <2>1. request' = request
    BY <1>3 DEF Create, Remove
  <2>2. PICK state \in {"alive", "removed"}, b \in BOOLEAN :
          job' = [job EXCEPT ![r] = [state |-> state, listed |-> b]]
    <3>1. CASE Create(r)
      <4>1. (job[r].listed /\ request[r].step = "sent") \in BOOLEAN
        OBVIOUS
      <4> QED
        BY <3>1, <4>1 DEF Create
    <3>2. CASE Remove(r)
      BY <3>2 DEF Remove
    <3> QED
      BY <1>3, <3>1, <3>2
  <2>3. job'[j].state \in {"alive", "removed"}
    BY <1>0, <2>2 DEF Made
  <2> QED
    BY <1>0, <2>1, <2>3 DEF Made, SameRequest
<1>4. ASSUME NEW r \in Request, Refuse(r)
      PROVE  Made(j)' /\ SameRequest(j)
  <2>1. job'[j] = job[j]
    BY <1>0, <1>4 DEF Refuse
  <2>2. SameRequest(j)
    <3>1. CASE UNCHANGED <<request, lock>>
      BY <3>1 DEF SameRequest
    <3>2. CASE RefusedCall(r)
      <4> DEFINE step == IF Keyed(r) THEN "failing" ELSE "error"
      <4>1. /\ step \in Steps /\ request[r].job \in Request \cup {None}
            /\ Take(r, step, request[r].job)
        BY <3>2, StepNames DEF RefusedCall, TypeInv, DataOK, RequestState
      <4> HIDE DEF step
      <4>2. /\ request'[r] = [step |-> step, key |-> request[r].key,
                              hash |-> request[r].hash, job |-> request[r].job]
            /\ \A s \in Request \ {r} : request'[s] = request[s]
        BY <4>1, TakeType DEF TypeInv
      <4> QED
        BY <1>0, <4>2 DEF SameRequest
    <3> QED
      BY <1>4, <3>1, <3>2, RefuseCases
  <2> QED
    BY <2>1, <2>2 DEF Made
<1>5. CASE Others \/ UNCHANGED vars
  BY <1>5 DEF Others, vars, Made, SameRequest
<1>6. CASE Crash
  <2>1. job' = job /\ SameRequest(j)
    BY <1>0, <1>6, CrashMoves DEF Crash, SameRequest
  <2> QED
    BY <2>1 DEF Made
<1> QED
  BY <1>1, <1>2, <1>3, <1>4, <1>5, <1>6 DEF Next, Runtime

LEMMA AnswersStay ==
    ASSUME TypeInv, EarlyInv, [Next]_vars, NEW r \in Request, NEW j, Answers(r, j), SameRequest(r)
    PROVE  Made(j)' /\ (j = r \/ (/\ SameKey(r, j)'
                                  /\ request'[j].hash = request'[r].hash))
<1>1. Made(j)' /\ SameRequest(j)
  BY MadeStays DEF Answers
<1> QED
  BY <1>1 DEF Answers, SameKey, Keyed, SameRequest

LEMMA StoredStep ==
    TypeInv /\ EarlyInv /\ OwnerInv /\ ReplyInv /\ StoredInv /\ [Next]_vars => StoredInv'
<1> SUFFICES ASSUME TypeInv, EarlyInv, OwnerInv, ReplyInv, StoredInv, [Next]_vars
             PROVE  StoredInv'
  OBVIOUS
<1>0. \A r \in Request : AgentOf[r] \in Agent /\ (Owner(r) => request[r].key \in Key)
  BY RequestAssumption DEF TypeInv, DataOK, RequestState, Owner, Keyed
\* A row that is left alone.
<1>1. ASSUME NEW a \in Agent, NEW k \in Key, row'[a][k] = row[a][k],
             row'[a][k].status = "succeeded"
      PROVE  Backed(row[a][k].job, row[a][k].hash, a, k)'
  <2>1. \A j, h : Backed(j, h, a, k) => Backed(j, h, a, k)'
    <3>1. \A j : Made(j) => Made(j)' /\ SameRequest(j)
      BY MadeStays
    <3> QED
      BY <3>1 DEF Backed, SameRequest
  <2>2. PICK j, h : j = row[a][k].job /\ h = row[a][k].hash
    OBVIOUS
  <2>3. Backed(j, h, a, k)
    BY <1>1, <2>2 DEF StoredInv
  <2>4. Backed(j, h, a, k)'
    BY <2>1, <2>3
  <2> QED
    BY <1>1, <2>2, <2>4 DEF Backed
<1>2. ASSUME NEW r \in Request, Owner(r), SameRequest(r),
             row'[AgentOf[r]][request[r].key].hash = RowOf(r).hash
      PROVE  (RowOf(r).hash = request[r].hash)'
  BY <1>2 DEF StoredInv, RowOf, SameRequest
<1>3. CASE row' = row
  <2>1. \A r \in Request : Owner(r)' => Owner(r) /\ SameRequest(r)
    <3>1. ASSUME NEW r \in Request, Reserved(r)
          PROVE  FALSE
      <4>1. row'[AgentOf[r]][request[r].key]
              = [status |-> "pending", hash |-> request[r].hash, job |-> None]
        BY <3>1, RowWritten DEF Reserved
      <4> QED
        BY <1>3, <3>1, <4>1 DEF Reserved, NoRow, None
    <3> QED
      BY <3>1, StepOwners DEF OwnersKept
  <2> QED
    BY <1>1, <1>2, <1>3, <2>1 DEF StoredInv, RowOf, SameRequest
<1>4. ASSUME NEW r \in Request, Serve(r), Reserved(r)
      PROVE  StoredInv'
  <2> DEFINE new == [status |-> "pending", hash |-> request[r].hash, job |-> None]
  <2>1. /\ row'[AgentOf[r]][request[r].key] = new
        /\ \A a \in Agent, k \in Key :
              a # AgentOf[r] \/ k # request[r].key => row'[a][k] = row[a][k]
    BY <1>4, RowWritten DEF Reserved
  <2>2. new.status # "succeeded" /\ new.hash = request[r].hash
    OBVIOUS
  <2> HIDE DEF new
  <2>3. ASSUME NEW a \in Agent, NEW k \in Key, row'[a][k].status = "succeeded"
        PROVE  Backed(row[a][k].job, row[a][k].hash, a, k)'
    BY <1>1, <2>1, <2>2, <2>3
  <2>4. ASSUME NEW s \in Request, Owner(s)'
        PROVE  (RowOf(s).hash = request[s].hash)'
    <3>1. CASE s = r
      BY <1>4, <2>1, <2>2, <3>1 DEF Reserved, SameRequest, RowOf
    <3>2. CASE s # r
      <4>1. Owner(s) /\ SameRequest(s)
        BY <1>4, <2>4, <3>2 DEF Reserved, OwnersKept
      <4>2. AgentOf[s] # AgentOf[r] \/ request[s].key # request[r].key
        BY <1>4, <4>1 DEF Reserved, OwnerInv, RowOf
      <4> QED
        BY <1>0, <1>2, <2>1, <4>1, <4>2 DEF RowOf
    <3> QED
      BY <3>1, <3>2
  <2> QED
    BY <2>3, <2>4 DEF StoredInv
<1>5. ASSUME NEW r \in Request, Serve(r), Wrote(r), ~Reserved(r)
      PROVE  StoredInv'
  <2>1. PICK status \in {"succeeded", "failed"}, j \in Request \cup {None} :
           /\ status = "succeeded" => request[r].step = "complete" /\ j = r
           /\ [status |-> status, hash |-> RowOf(r).hash, job |-> j] \in RowState
           /\ SetRow(r, [status |-> status, hash |-> RowOf(r).hash, job |-> j])
    BY <1>5 DEF Wrote
  <2> DEFINE new == [status |-> status, hash |-> RowOf(r).hash, job |-> j]
  <2>2. /\ row'[AgentOf[r]][request[r].key] = new
        /\ \A a \in Agent, k \in Key :
              a # AgentOf[r] \/ k # request[r].key => row'[a][k] = row[a][k]
    BY <1>5, <2>1, RowWritten DEF Wrote
  <2>3. new.status = status /\ new.hash = RowOf(r).hash /\ new.job = j
    OBVIOUS
  <2> HIDE DEF new
  <2>4. Owner(r) /\ request[r].key \in Key /\ RowOf(r).hash = request[r].hash
    BY <1>5 DEF Wrote, StoredInv
  <2>5. \A s \in Request : Owner(s)' => Owner(s) /\ SameRequest(s)
    <3>1. RowOf(r) # NoRow
      BY <2>4 DEF OwnerInv
    <3>2. ASSUME NEW s \in Request, Reserved(s)
          PROVE  FALSE
      <4>1. /\ row'[AgentOf[s]][request[s].key]
                 = [status |-> "pending", hash |-> request[s].hash, job |-> None]
            /\ row[AgentOf[s]][request[s].key] = NoRow
            /\ AgentOf[s] \in Agent /\ request[s].key \in Key
        BY <1>0, <3>2, RowWritten DEF Reserved
      <4>2. row'[AgentOf[s]][request[s].key] # NoRow
        BY <4>1 DEF NoRow, None
      <4>3. AgentOf[s] = AgentOf[r] /\ request[s].key = request[r].key
        BY <2>2, <4>1, <4>2
      <4> QED
        BY <3>1, <4>1, <4>3 DEF RowOf
    <3> QED
      BY <3>2, StepOwners DEF OwnersKept
  <2>6. ASSUME NEW s \in Request, Owner(s)'
        PROVE  (RowOf(s).hash = request[s].hash)'
    <3>1. Owner(s) /\ SameRequest(s) /\ AgentOf[s] \in Agent /\ request[s].key \in Key
      BY <1>0, <2>5, <2>6
    <3>2. CASE AgentOf[s] = AgentOf[r] /\ request[s].key = request[r].key
      BY <1>2, <2>2, <2>3, <3>1, <3>2 DEF RowOf
    <3>3. CASE ~(AgentOf[s] = AgentOf[r] /\ request[s].key = request[r].key)
      BY <1>2, <2>2, <3>1, <3>3 DEF RowOf
    <3> QED
      BY <3>2, <3>3
  <2>7. ASSUME NEW a \in Agent, NEW k \in Key, row'[a][k].status = "succeeded"
        PROVE  Backed(row[a][k].job, row[a][k].hash, a, k)'
    <3>1. CASE a = AgentOf[r] /\ k = request[r].key
      <4>1. status = "succeeded" /\ j = r /\ request[r].step = "complete"
        BY <2>1, <2>2, <2>3, <2>7, <3>1
      <4>2. Made(r)' /\ SameRequest(r)
        BY <4>1, MadeStays DEF ReplyInv
      <4> QED
        BY <2>2, <2>3, <2>4, <3>1, <4>1, <4>2 DEF SameRequest, Backed
    <3>2. CASE ~(a = AgentOf[r] /\ k = request[r].key)
      BY <1>1, <2>2, <2>7, <3>2
    <3> QED
      BY <3>1, <3>2
  <2> QED
    BY <2>6, <2>7 DEF StoredInv
<1> QED
  BY <1>3, <1>4, <1>5, StepRows

LEMMA ReplyStep ==
    TypeInv /\ EarlyInv /\ OwnerInv /\ ReplyInv /\ StoredInv /\ [Next]_vars => ReplyInv'
<1> SUFFICES ASSUME TypeInv, EarlyInv, OwnerInv, ReplyInv, StoredInv, [Next]_vars
             PROVE  ReplyInv'
  OBVIOUS
<1>0. \A j : Made(j) => Made(j)' /\ SameRequest(j)
  BY MadeStays
\* A request that stays where it is.
<1>1. ASSUME NEW r \in Request, request'[r] = request[r]
      PROVE  /\ request'[r].step \in {"commit", "complete"} => Made(r)'
             /\ request'[r].step = "complete" => request'[r].job = r
             /\ request'[r].step \in {"deliver", "ok"} => Answers(r, request[r].job)'
  <2>1. SameRequest(r)
    BY <1>1 DEF SameRequest
  <2>2. PICK j : j = request[r].job
    OBVIOUS
  <2>3. Answers(r, j) => Answers(r, j)'
    BY <1>0, <2>1 DEF Answers, SameKey, Keyed, SameRequest
  <2>4. request[r].step \in {"deliver", "ok"} => Answers(r, j)
    BY <2>2 DEF ReplyInv
  <2>5. Answers(r, j)' => Answers(r, request[r].job)'
    BY <1>1, <2>2 DEF Answers, Made, SameKey
  <2> QED
    BY <1>0, <1>1, <2>3, <2>4, <2>5 DEF ReplyInv
\* A request that ends, or goes on to a step without a job.
<1>2. ASSUME NEW r \in Request,
             request'[r].step \notin {"commit", "complete", "deliver", "ok"}
      PROVE  /\ request'[r].step \in {"commit", "complete"} => Made(r)'
             /\ request'[r].step = "complete" => request'[r].job = r
             /\ request'[r].step \in {"deliver", "ok"} => Answers(r, request[r].job)'
  BY <1>2
<1>3. ASSUME NEW r \in Request, Serve(r)
      PROVE  ReplyInv'
  <2>1. PICK step \in Steps, j \in Request \cup {None} : Take(r, step, j) /\ Served(r, step, j)
    BY <1>3, ServeCases
  <2>2. /\ request'[r] = [step |-> step, key |-> request[r].key,
                          hash |-> request[r].hash, job |-> j]
        /\ \A s \in Request \ {r} : request'[s] = request[s]
    BY <2>1, TakeType DEF TypeInv
  <2>3. request'[r].step = step /\ request'[r].job = j /\ SameRequest(r)
    BY <2>2 DEF SameRequest
  <2>4. step \in {"commit", "complete"} => Made(r)
    BY <2>1 DEF Served, Finds, Commits, Waits, Reserves, Locks, GivesUp, Asks, Learns, Settles,
                Replies, Made, ReplyInv
  <2>5. step = "complete" => j = r
    BY <2>1 DEF Served, Finds, Commits, Waits, Reserves, Locks, GivesUp, Asks, Learns, Settles,
                Replies
  <2>6. step \in {"deliver", "ok"} => Answers(r, j)
    <3>1. CASE Finds(r, step, j)
      <4>1. request[r].key \in Key /\ AgentOf[r] \in Agent
        <5>1. CASE request[r].step = "look"
          BY <5>1, RequestAssumption DEF TypeInv, KeyInv
        <5>2. CASE request[r].step = "wait"
          BY <5>2, RequestAssumption DEF TypeInv, KeyInv
        <5> QED
          BY <3>1, <5>1, <5>2 DEF Finds
      <4>2. Backed(j, RowOf(r).hash, AgentOf[r], request[r].key)
        BY <3>1, <4>1 DEF Finds, StoredInv, RowOf
      <4> QED
        BY <3>1, <4>1, <4>2, NoneAssumption DEF Finds, Backed, Answers, SameKey, Keyed
    <3>2. CASE Commits(r, step, j)
      BY <3>2 DEF Commits, Answers, ReplyInv
    <3>3. CASE step \in {"deliver", "ok"} /\ Settles(r, step)
      <4>1. request[r].step = "complete"
        BY <3>3 DEF Settles
      <4>2. Made(r) /\ request[r].job = r /\ j = r
        BY <2>1, <3>3, <4>1 DEF ReplyInv, Served, Finds, Commits
      <4> QED
        BY <4>2 DEF Answers
    <3>4. CASE Replies(r, step)
      BY <2>1, <3>4 DEF Replies, ReplyInv, Served, Finds, Commits
    <3> QED
      BY <2>1, <3>1, <3>2, <3>3, <3>4
         DEF Served, Waits, Reserves, Locks, GivesUp, Asks, Learns
  <2>7. step \in {"deliver", "ok"} => Answers(r, request[r].job)'
    <3>1. Answers(r, j) => Answers(r, j)'
      BY <1>0, <2>3 DEF Answers, SameKey, Keyed, SameRequest
    <3>2. Answers(r, j)' => Answers(r, request[r].job)'
      BY <2>3 DEF Answers, Made, SameKey
    <3> QED
      BY <2>6, <3>1, <3>2
  <2> QED
    BY <1>0, <1>1, <2>2, <2>3, <2>4, <2>5, <2>7 DEF ReplyInv
<1>4. CASE ~\E r \in Request : Serve(r)
  <2>1. ASSUME NEW r \in Request
        PROVE  \/ request'[r] = request[r]
               \/ request'[r].step \notin {"commit", "complete", "deliver", "ok"}
    <3>1. ASSUME NEW s \in Request, NEW k \in Key \cup {None}, NEW h \in Hash, Arrive(s, k, h)
          PROVE  \/ request'[r] = request[r]
                 \/ request'[r].step \notin {"commit", "complete", "deliver", "ok"}
      BY <3>1 DEF Arrive, TypeInv, DataOK
    <3>2. ASSUME NEW s \in Request, Refuse(s)
          PROVE  \/ request'[r] = request[r]
                 \/ request'[r].step \notin {"commit", "complete", "deliver", "ok"}
      <4>1. CASE RefusedCall(s)
        <5> DEFINE step == IF Keyed(s) THEN "failing" ELSE "error"
        <5>1. /\ step \in Steps /\ step \notin {"commit", "complete", "deliver", "ok"}
              /\ request[s].job \in Request \cup {None}
              /\ Take(s, step, request[s].job)
          BY <4>1, StepNames DEF RefusedCall, TypeInv, DataOK, RequestState
        <5> HIDE DEF step
        <5>2. /\ request'[s] = [step |-> step, key |-> request[s].key,
                                hash |-> request[s].hash, job |-> request[s].job]
              /\ \A t \in Request \ {s} : request'[t] = request[t]
          BY <5>1, TakeType DEF TypeInv
        <5> QED
          BY <5>1, <5>2
      <4> QED
        BY <3>2, <4>1, RefuseCases
    <3>3. CASE Crash
      BY <3>3, CrashMoves
    <3> QED
      BY <1>4, <3>1, <3>2, <3>3 DEF Next, Runtime, Create, Remove, Others, vars
  <2> QED
    BY <1>1, <1>2, <2>1 DEF ReplyInv
<1> QED
  BY <1>3, <1>4

LEMMA ReplyInitially == Init => ReplyInv /\ StoredInv
<1>1. ASSUME Init PROVE ReplyInv
  BY <1>1 DEF Init, ReplyInv
<1>2. ASSUME Init PROVE StoredInv
  <2>1. \A r \in Request : ~Owner(r)
    BY <1>2 DEF Init, NoJob, Owner, Keyed
  <2>2. \A a \in Agent, k \in Key : row[a][k].status # "succeeded"
    BY <1>2 DEF Init, NoRow, None
  <2> QED
    BY <2>1, <2>2 DEF StoredInv
<1> QED
  BY <1>1, <1>2

LEMMA ReplyInvariant == Spec => [](TypeInv /\ EarlyInv /\ OwnerInv /\ ReplyInv /\ StoredInv)
BY TypeInitially, OwnerInitially, ReplyInitially, TypeStep, OwnerStep, ReplyStep, StoredStep, PTL
   DEF Spec

\* A request that succeeds names a job that was made: its own, or the one made
\* for the same agent and key from the same input.
THEOREM CronRepliesHonest == Spec => []RepliesHonest
<1>1. ReplyInv => RepliesHonest
  BY DEF ReplyInv, RepliesHonest, Answers, Made
<1> QED
  BY <1>1, ReplyInvariant, PTL

-----------------------------------------------------------------------------
(* The limit of an agent                                                   *)

\* The jobs that count against the limit: made in time, or asked for by a call
\* that still waits.
Counts(r) == job[r].listed /\ \/ job[r].state = "alive"
                              \/ job[r].state = "sent" /\ request[r].step = "sent"
Booked(a) == {r \in Request : AgentOf[r] = a /\ Counts(r)}

LimitInv == \A a \in Agent : Cardinality(Booked(a)) <= Limit

LEMMA BookedFewer ==
    ASSUME LimitInv, \A r \in Request : Counts(r)' => Counts(r)
    PROVE  LimitInv'
<1>1. ASSUME NEW a \in Agent
      PROVE  Cardinality(Booked(a)') <= Limit
  <2>1. Booked(a)' \subseteq Booked(a)
    BY DEF Booked
  <2>2. IsFiniteSet(Booked(a)) /\ IsFiniteSet(Booked(a)')
    BY RequestAssumption, FS_Subset DEF Booked
  <2>3. /\ Cardinality(Booked(a)') <= Cardinality(Booked(a))
        /\ Cardinality(Booked(a)') \in Nat /\ Cardinality(Booked(a)) \in Nat
    BY <2>1, <2>2, FS_Subset, FS_CardinalityType
  <2> QED
    BY <2>3, BoundAssumption DEF LimitInv
<1> QED
  BY <1>1 DEF LimitInv

\* The listing sees every job of the agent that counts, for it holds the lock.
LEMMA BookedOne ==
    ASSUME TypeInv, EarlyInv, LimitInv, NEW r \in Request, Serve(r),
           NEW j \in Request \cup {None}, Take(r, "sent", j), Asks(r, "sent")
    PROVE  LimitInv'
<1>1. /\ request[r].step = "list" /\ request'[r].step = "sent"
      /\ \A s \in Request \ {r} : request'[s] = request[s]
  <2>1. /\ request'[r] = [step |-> "sent", key |-> request[r].key,
                          hash |-> request[r].hash, job |-> j]
        /\ \A s \in Request \ {r} : request'[s] = request[s]
    BY TakeType, StepNames DEF TypeInv
  <2> QED
    BY <2>1 DEF Asks
<1>2. PICK listed \in BOOLEAN : /\ listed => Cardinality(Alive) + other < Limit
                                /\ job' = [job EXCEPT ![r] = [state |-> "sent", listed |-> listed]]
  BY DEF Asks
<1>3. \A s \in Request \ {r} : job'[s] = job[s]
  BY <1>2 DEF TypeInv, DataOK
<1>4. job'[r].listed = listed
  BY <1>2 DEF TypeInv, DataOK
<1>5. IsFiniteSet(Request) /\ IsFiniteSet(Alive) /\ Cardinality(Alive) \in Nat
  BY RequestAssumption, FS_Subset, FS_CardinalityType DEF Alive
<1>6. CASE ~listed
  BY <1>1, <1>3, <1>4, <1>6, BookedFewer DEF Counts
<1>7. CASE listed
  <2>1. \A s \in Request : AgentOf[s] = AgentOf[r] /\ Counts(s) => s \in Alive
    <3>1. lock[AgentOf[r]] = r
      BY <1>1 DEF TypeInv, LockInv, Holding
    <3>2. \A s \in Request : AgentOf[s] = AgentOf[r] /\ request[s].step = "sent" => s = r
      BY <3>1 DEF TypeInv, LockInv, Holding
    <3> QED
      BY <1>1, <3>2 DEF Counts, Alive
  <2>2. ASSUME NEW a \in Agent
        PROVE  Cardinality(Booked(a)') <= Limit
    <3>1. IsFiniteSet(Booked(a)) /\ IsFiniteSet(Booked(a)')
      BY <1>5, FS_Subset DEF Booked
    <3>2. CASE a = AgentOf[r]
      <4>1. Booked(a)' \subseteq Alive \cup {r}
        BY <1>1, <1>3, <2>1, <3>2 DEF Booked, Counts
      <4>2. /\ IsFiniteSet(Alive \cup {r})
            /\ Cardinality(Alive \cup {r}) <= Cardinality(Alive) + 1
            /\ Cardinality(Alive \cup {r}) \in Nat
        <5>1. /\ IsFiniteSet(Alive \cup {r})
              /\ \/ Cardinality(Alive \cup {r}) = Cardinality(Alive)
                 \/ Cardinality(Alive \cup {r}) = Cardinality(Alive) + 1
          BY <1>5, FS_AddElement
        <5> QED
          BY <1>5, <5>1, FS_CardinalityType
      <4>3. /\ Cardinality(Booked(a)') <= Cardinality(Alive \cup {r})
            /\ Cardinality(Booked(a)') \in Nat
        BY <3>1, <4>1, <4>2, FS_Subset, FS_CardinalityType
      <4>4. Cardinality(Alive) + other < Limit /\ other \in Nat
        BY <1>2, <1>7, BoundAssumption DEF TypeInv, DataOK
      <4> QED
        BY <1>5, <4>2, <4>3, <4>4, BoundAssumption
    <3>3. CASE a # AgentOf[r]
      <4>1. Booked(a)' = Booked(a)
        BY <1>1, <1>3, <3>3 DEF Booked, Counts
      <4> QED
        BY <4>1 DEF LimitInv
    <3> QED
      BY <3>2, <3>3
  <2> QED
    BY <2>2 DEF LimitInv
<1> QED
  BY <1>6, <1>7

LEMMA LimitStep == TypeInv /\ EarlyInv /\ LimitInv /\ [Next]_vars => LimitInv'
<1> SUFFICES ASSUME TypeInv, EarlyInv, LimitInv, [Next]_vars PROVE LimitInv'
  OBVIOUS
<1>1. ASSUME NEW r \in Request, Serve(r)
      PROVE  LimitInv'
  <2>1. PICK step \in Steps, j \in Request \cup {None} : Take(r, step, j) /\ Served(r, step, j)
    BY <1>1, ServeCases
  <2>2. CASE Asks(r, step)
    BY <1>1, <2>1, <2>2, BookedOne DEF Asks
  <2>3. CASE ~Asks(r, step)
    <3>1. job' = job /\ step # "sent"
      BY <2>1, <2>3 DEF Served, Finds, Commits, Waits, Reserves, Locks, GivesUp, Learns, Settles,
                        Replies
    <3>2. /\ request'[r] = [step |-> step, key |-> request[r].key,
                            hash |-> request[r].hash, job |-> j]
          /\ \A s \in Request \ {r} : request'[s] = request[s]
      BY <2>1, TakeType DEF TypeInv
    <3>3. \A s \in Request : Counts(s)' => Counts(s)
      BY <3>1, <3>2 DEF Counts
    <3> QED
      BY <3>3, BookedFewer
  <2> QED
    BY <2>2, <2>3
<1>2. ASSUME NEW r \in Request, NEW k \in Key \cup {None}, NEW h \in Hash, Arrive(r, k, h)
      PROVE  \A s \in Request : Counts(s)' => Counts(s)
  <2>1. job' = job /\ \A s \in Request : request'[s].step = "sent" => request'[s] = request[s]
    BY <1>2 DEF Arrive, TypeInv, DataOK
  <2> QED
    BY <2>1 DEF Counts
<1>3. ASSUME NEW r \in Request, Create(r)
      PROVE  \A s \in Request : Counts(s)' => Counts(s)
  <2>1. request' = request /\ job[r].state = "sent"
    BY <1>3 DEF Create
  <2>2. /\ job'[r].listed => job[r].listed /\ request[r].step = "sent"
        /\ \A s \in Request \ {r} : job'[s] = job[s]
    BY <1>3 DEF Create, TypeInv, DataOK
  <2> QED
    BY <2>1, <2>2 DEF Counts
<1>4. ASSUME NEW r \in Request, Remove(r) \/ Refuse(r)
      PROVE  \A s \in Request : Counts(s)' => Counts(s)
  <2>1. /\ \A s \in Request \ {r} : job'[s] = job[s]
        /\ ~job'[r].listed
    BY <1>4 DEF Remove, Refuse, NoJob, TypeInv, DataOK
  <2>2. \A s \in Request \ {r} : request'[s] = request[s]
    BY <1>4 DEF Remove, Refuse, Fail, To, TypeInv, DataOK
  <2> QED
    BY <2>1, <2>2 DEF Counts
<1>5. ASSUME Others \/ Crash \/ UNCHANGED vars
      PROVE  \A s \in Request : Counts(s)' => Counts(s)
  <2>1. job' = job /\ \A s \in Request : request'[s].step = "sent" => request'[s] = request[s]
    <3>1. CASE Crash
      BY <3>1, CrashMoves DEF Crash
    <3> QED
      BY <1>5, <3>1 DEF Others, vars
  <2> QED
    BY <2>1 DEF Counts
<1> QED
  BY <1>1, <1>2, <1>3, <1>4, <1>5, BookedFewer DEF Next, Runtime

LEMMA LimitInitially == Init => LimitInv
<1>1. ASSUME Init, NEW a \in Agent
      PROVE  Cardinality(Booked(a)) <= Limit
  <2>1. Booked(a) = {}
    BY <1>1 DEF Init, NoJob, Booked, Counts
  <2> QED
    BY <2>1, FS_EmptySet, BoundAssumption
<1> QED
  BY <1>1 DEF LimitInv

LEMMA LimitInvariant == Spec => [](TypeInv /\ EarlyInv /\ LimitInv)
<1>1. Init => TypeInv /\ EarlyInv /\ LimitInv
  BY TypeInitially, OwnerInitially, LimitInitially
<1>2. TypeInv /\ EarlyInv /\ LimitInv /\ [Next]_vars => (TypeInv /\ EarlyInv /\ LimitInv)'
  BY TypeStep, StepOwners, LimitStep
<1> QED
  BY <1>1, <1>2, PTL DEF Spec

\* However many creations of an agent race, the jobs made in time after a
\* listing that worked never exceed the limit.
THEOREM CronLimitKept == Spec => []LimitKept
<1>1. LimitInv => LimitKept
  <2>1. ASSUME LimitInv, NEW a \in Agent
        PROVE  Cardinality({r \in Alive : AgentOf[r] = a /\ job[r].listed}) <= Limit
    <3> DEFINE S == {r \in Alive : AgentOf[r] = a /\ job[r].listed}
    <3>1. S \subseteq Booked(a)
      BY DEF Booked, Counts, Alive
    <3>2. IsFiniteSet(Booked(a))
      BY RequestAssumption, FS_Subset DEF Booked
    <3>3. /\ Cardinality(S) <= Cardinality(Booked(a)) /\ IsFiniteSet(S)
      BY <3>1, <3>2, FS_Subset
    <3>4. Cardinality(S) \in Nat /\ Cardinality(Booked(a)) \in Nat
      BY <3>2, <3>3, FS_CardinalityType
    <3> QED
      BY <2>1, <3>3, <3>4, BoundAssumption DEF LimitInv
  <2> QED
    BY <2>1 DEF LimitKept
<1> QED
  BY <1>1, LimitInvariant, PTL
=============================================================================
