---------------------------- MODULE ChatSession ----------------------------
(***************************************************************************)
(* One conversation as the server process sees it: the table of chat runs  *)
(* in flight (chat-inflight.ts), the chat requests that enter and leave it *)
(* (claw-chat.ts), the deletion of the conversation (claw-misc.ts) and the *)
(* cached list of conversations (bounded-async-cache.ts, chat-history.ts). *)
(*                                                                         *)
(* JavaScript runs one callback at a time, so an action is the code from   *)
(* one await to the next.                                                  *)
(***************************************************************************)
EXTENDS Integers, FiniteSets

CONSTANTS Run,       \* chat requests for the conversation
          Deletion   \* requests to delete it

ASSUME RequestsAssumption == IsFiniteSet(Run) /\ IsFiniteSet(Deletion)

None == "none"
ASSUME NoneAssumption == None \notin Run

VARIABLES run,        \* the chat requests
          record,     \* the run the in-flight table holds for the conversation
          expired,    \* TRUE when that record is older than its time to live
          swept,      \* how many records of running runs the sweep has dropped
          lock,       \* the conversation is in deletingSessions
          deletion,   \* the delete requests
          transcript, \* the runtime keeps a history directory for it
          tasks,      \* its expert tasks: none, at least one active, all ended
          cache,      \* the cached list: none, or the conversation is shown or absent
          load        \* the load of the list in flight; whether the key's version
                      \* is still the one it began with

vars == <<run, record, expired, swept, lock, deletion, transcript, tasks,
          cache, load>>

chatVars   == <<run, record, expired, swept>>
deleteVars == <<lock, deletion>>
dataVars   == <<transcript, tasks>>
listVars   == <<cache, load>>

NoLoad == [step |-> "none", current |-> FALSE, found |-> FALSE]

Init ==
    /\ run = [r \in Run |-> [step |-> "idle", tracked |-> FALSE]]
    /\ record = None
    /\ expired = FALSE
    /\ swept = 0
    /\ lock = FALSE
    /\ deletion = [d \in Deletion |-> [step |-> "idle", expert |-> FALSE]]
    /\ transcript \in BOOLEAN
    /\ tasks = "none"
    /\ cache = "none"
    /\ load = NoLoad

-----------------------------------------------------------------------------
(* The table of runs in flight                                             *)

\* The record after sweepExpired, which most operations call first.
Swept == IF expired THEN None ELSE record

Sweep ==
    /\ expired' = FALSE
    /\ swept' = IF expired THEN swept + 1 ELSE swept

\* notifySessionIdle: the waiting deletion goes on once no record is left.
NotifyIdle(deletions) ==
    [d \in Deletion |-> IF deletions[d].step = "waiting"
                        THEN [deletions[d] EXCEPT !.step = "idleSeen"]
                        ELSE deletions[d]]

AfterSweep == IF expired THEN NotifyIdle(deletion) ELSE deletion

\* Ten minutes without touchChatRun, which the chat handler never calls.
Expire ==
    /\ record # None
    /\ ~expired
    /\ expired' = TRUE
    /\ UNCHANGED <<run, record, swept, deleteVars, dataVars, listVars>>

\* Any call about another conversation sweeps the whole table.
SweepByOther ==
    /\ expired
    /\ record' = Swept
    /\ Sweep
    /\ deletion' = AfterSweep
    /\ UNCHANGED <<run, lock, dataVars, listVars>>

-----------------------------------------------------------------------------
(* The list of conversations                                               *)

\* invalidatePrefix: the key's version is raised, the load stays in flight.
Invalidate ==
    /\ cache' = "none"
    /\ load' = [load EXCEPT !.current = FALSE]

\* getOrLoad, a miss; a hit changes nothing and a reader that finds the load
\* in flight only joins it.
BeginLoad ==
    /\ cache = "none"
    /\ load.step = "none"
    /\ load' = [NoLoad EXCEPT !.step = "tasks", !.current = TRUE]
    /\ UNCHANGED <<chatVars, deleteVars, dataVars, cache>>

\* listAgentTasksForHistory answers; its failure counts as no tasks.
LoadTasks ==
    /\ load.step = "tasks"
    /\ \E found \in {tasks # "none", FALSE} :
          load' = [load EXCEPT !.step = "files", !.found = found]
    /\ UNCHANGED <<chatVars, deleteVars, dataVars, cache>>

\* listJiuwenChatHistorySessions, before the enterprise sessions are awaited.
LoadFiles ==
    /\ load.step = "files"
    /\ load' = [load EXCEPT !.step = "merge", !.found = @ \/ transcript]
    /\ UNCHANGED <<chatVars, deleteVars, dataVars, cache>>

\* Mutant: the load does not compare versions.
StoreLoadedAnyway == IF load.found THEN "shown" ELSE "absent"

StoreLoaded == IF load.current
               THEN IF load.found THEN "shown" ELSE "absent"
               ELSE cache

\* The value is kept if the key was not invalidated meanwhile.
EndLoad ==
    /\ load.step = "merge"
    /\ cache' = StoreLoaded
    /\ load' = NoLoad
    /\ UNCHANGED <<chatVars, deleteVars, dataVars>>

\* The loader throws: the history directory cannot be read.
FailLoad ==
    /\ load.step = "files"
    /\ load' = NoLoad
    /\ UNCHANGED <<chatVars, deleteVars, dataVars, cache>>

\* The value's time to live ends, or prune drops it.
Evict ==
    /\ cache # "none"
    /\ cache' = "none"
    /\ UNCHANGED <<chatVars, deleteVars, dataVars, load>>

-----------------------------------------------------------------------------
(* Chat requests                                                           *)

\* Mutant: a chat request drops the lock test.
MayStartAnyway == TRUE

\* markChatRunStarted tests the deletion lock before anything else.
MayStart == ~lock

Active(r, tracked) == run' = [run EXCEPT ![r] = [step |-> "active", tracked |-> tracked]]
Answered(r) == run' = [run EXCEPT ![r] = [step |-> "ended", tracked |-> FALSE]]

\* SESSION_DELETING; the list was invalidated all the same.
SendLocked(r) ==
    /\ run[r].step = "idle"
    /\ ~MayStart
    /\ Answered(r)
    /\ Invalidate
    /\ UNCHANGED <<record, expired, swept, deleteVars, dataVars>>

\* Without a client run id, or with deduplication off, nothing is recorded.
SendUntracked(r) ==
    /\ run[r].step = "idle"
    /\ MayStart
    /\ Active(r, FALSE)
    /\ Invalidate
    /\ UNCHANGED <<record, expired, swept, deleteVars, dataVars>>

\* Mutant: a second run takes the place of the first in the table.
SendTakingOver(r) ==
    /\ run[r].step = "idle"
    /\ MayStart
    /\ Active(r, TRUE)
    /\ record' = r
    /\ Sweep
    /\ deletion' = AfterSweep
    /\ Invalidate
    /\ UNCHANGED <<lock, dataVars>>

\* SESSION_BUSY when a run is recorded, else the run is recorded and starts.
SendTracked(r) ==
    /\ run[r].step = "idle"
    /\ MayStart
    /\ IF Swept # None
         THEN Answered(r) /\ record' = Swept
         ELSE Active(r, TRUE) /\ record' = r
    /\ Sweep
    /\ deletion' = AfterSweep
    /\ Invalidate
    /\ UNCHANGED <<lock, dataVars>>

\* The runtime writes the conversation's history while it works on a run.
WriteTranscript(r) ==
    /\ run[r].step = "active"
    /\ ~transcript
    /\ transcript' = TRUE
    /\ UNCHANGED <<chatVars, deleteVars, tasks, listVars>>

\* Mutant: the handler leaves without markChatRunComplete.
EndRunRecorded(r) ==
    /\ run[r].step = "active"
    /\ Answered(r)
    /\ UNCHANGED <<record, expired, swept, deleteVars, dataVars, listVars>>

\* The handler's finally: markChatRunComplete removes the record of the
\* conversation, whichever run it belongs to.
EndRun(r) ==
    /\ run[r].step = "active"
    /\ Answered(r)
    /\ IF run[r].tracked /\ record # None
         THEN /\ record' = None
              /\ expired' = FALSE
              /\ deletion' = NotifyIdle(deletion)
         ELSE UNCHANGED <<record, expired, deletion>>
    /\ UNCHANGED <<swept, lock, dataVars, listVars>>

-----------------------------------------------------------------------------
(* Expert tasks of the conversation: their routes know nothing of the lock *)

SubmitTask ==
    /\ tasks # "active"
    /\ tasks' = "active"
    /\ UNCHANGED <<chatVars, deleteVars, transcript, listVars>>

TasksEnd ==
    /\ tasks = "active"
    /\ tasks' = "ended"
    /\ UNCHANGED <<chatVars, deleteVars, transcript, listVars>>

-----------------------------------------------------------------------------
(* Deleting the conversation                                               *)

Past  == {"idleSeen", "clear", "removed", "deleted"}
Holds == {"waiting"} \cup Past
Ended == {"ended", "half"}

To(d, step) == deletion' = [deletion EXCEPT ![d].step = step]
End(d, step) == deletion' = [deletion EXCEPT ![d] = [step |-> step, expert |-> FALSE]]
Unlock(d)   == End(d, "ended") /\ lock' = FALSE

\* resolveJiuwenHistorySession (not for an expert's conversation), then
\* beginChatSessionDeletion and waitForChatSessionIdle up to its first await.
BeginDeletion(d, expert) ==
    /\ deletion[d].step = "idle"
    /\ expert \/ transcript
    /\ lock' = TRUE
    /\ LET next == IF lock THEN "ended"
                   ELSE IF Swept = None THEN "idleSeen" ELSE "waiting"
       IN  deletion' = [AfterSweep EXCEPT ![d] =
                          [step |-> next, expert |-> expert /\ ~lock]]
    /\ record' = Swept
    /\ Sweep
    /\ UNCHANGED <<run, dataVars, listVars>>

\* Mutant: the busy answer forgets the lock.
WaitTimeoutLocked(d) ==
    /\ deletion[d].step = "waiting"
    /\ To(d, "ended")
    /\ UNCHANGED <<chatVars, lock, dataVars, listVars>>

\* Mutant: the deletion waits without a timeout.
WaitTimeoutNever(d) ==
    /\ deletion[d].step = "waiting"
    /\ UNCHANGED vars

\* Five seconds without an idle session: SESSION_BUSY.
WaitTimeout(d) ==
    /\ deletion[d].step = "waiting"
    /\ Unlock(d)
    /\ UNCHANGED <<chatVars, dataVars, listVars>>

\* listAgentTasksByConversation and activeConversationTask: an active task may
\* lie beyond the hundred that are looked at.
CheckTasks(d) ==
    /\ deletion[d].step = "idleSeen"
    /\ \/ tasks = "active" /\ Unlock(d)
       \/ To(d, "clear") /\ UNCHANGED lock
    /\ UNCHANGED <<chatVars, dataVars, listVars>>

\* deleteJiuwenHistorySession, in one go with the continuation of the check.
RemoveTranscript(d) ==
    /\ deletion[d].step = "clear"
    /\ ~deletion[d].expert
    /\ IF transcript THEN To(d, "removed") /\ UNCHANGED lock ELSE Unlock(d)
    /\ transcript' = FALSE
    /\ UNCHANGED <<chatVars, tasks, listVars>>

\* rmSync throws; what the list shows of the conversation may be gone by then.
RemovalThrows(d) ==
    /\ deletion[d].step = "clear"
    /\ ~deletion[d].expert
    /\ transcript' \in {transcript, FALSE}
    /\ End(d, "half")
    /\ lock' = FALSE
    /\ UNCHANGED <<chatVars, tasks, listVars>>

\* deleteAgentTasksByConversation, whatever became of the tasks since the check;
\* an expert's conversation without tasks is a 404.
DeleteTasks(d) ==
    /\ deletion[d].step = IF deletion[d].expert THEN "clear" ELSE "removed"
    /\ IF deletion[d].expert /\ tasks = "none"
         THEN Unlock(d)
         ELSE To(d, "deleted") /\ UNCHANGED lock
    /\ tasks' = "none"
    /\ UNCHANGED <<chatVars, transcript, listVars>>

\* invalidateChatHistorySessionList, the answer, and the lock's finally.
FinishDeletion(d) ==
    /\ deletion[d].step = "deleted"
    /\ Unlock(d)
    /\ Invalidate
    /\ UNCHANGED <<chatVars, dataVars>>

\* The database fails: every path releases the lock, none undoes the removal
\* of the history or invalidates the list.
FailDeletion(d) ==
    /\ deletion[d].step \in {"idleSeen", "clear", "removed"}
    /\ deletion[d].step = "clear" => deletion[d].expert
    /\ End(d, IF deletion[d].step = "removed" THEN "half" ELSE "ended")
    /\ lock' = FALSE
    /\ UNCHANGED <<chatVars, dataVars, listVars>>

-----------------------------------------------------------------------------
Chatting ==
    \E r \in Run : \/ SendLocked(r) \/ SendUntracked(r) \/ SendTracked(r)
                   \/ WriteTranscript(r) \/ EndRun(r)

Deleting(d) ==
    \/ WaitTimeout(d) \/ CheckTasks(d) \/ RemoveTranscript(d)
    \/ RemovalThrows(d) \/ DeleteTasks(d) \/ FinishDeletion(d) \/ FailDeletion(d)

Listing == BeginLoad \/ LoadTasks \/ LoadFiles \/ EndLoad \/ FailLoad \/ Evict

Next ==
    \/ Expire \/ SweepByOther
    \/ Chatting
    \/ SubmitTask \/ TasksEnd
    \/ \E d \in Deletion : Deleting(d) \/ \E expert \in BOOLEAN : BeginDeletion(d, expert)
    \/ Listing

\* A timer fires and the database answers, with a result or an error.
Fairness == \A d \in Deletion : WF_vars(Deleting(d))

Spec == Init /\ [][Next]_vars /\ Fairness

-----------------------------------------------------------------------------
(* Properties                                                              *)

InFlight == {r \in Run : run[r].step = "active" /\ run[r].tracked}
Holders  == {d \in Deletion : deletion[d].step \in Holds}
Exists   == transcript \/ tasks # "none"

\* Types; and the table never keeps the record of a run that has ended: else
\* the conversation would answer SESSION_BUSY until the record expires.
TypeOK ==
    /\ run \in [Run -> [step : {"idle", "active", "ended"}, tracked : BOOLEAN]]
    /\ record \in InFlight \cup {None}
    /\ expired \in BOOLEAN
    /\ expired => record # None
    /\ swept \in Nat
    /\ lock \in BOOLEAN
    /\ deletion \in [Deletion -> [step : {"idle"} \cup Holds \cup Ended, expert : BOOLEAN]]
    /\ transcript \in BOOLEAN
    /\ tasks \in {"none", "active", "ended"}
    /\ cache \in {"none", "shown", "absent"}
    /\ load \in [step : {"none", "tasks", "files", "merge"},
                 current : BOOLEAN, found : BOOLEAN]

\* Runs that are recorded exclude each other; a run that outlives its record
\* (no event refreshes it) lets one more in, and although its end then removes
\* the record of its successor, every expiry costs one extra run at most.
OneRunPerRecord ==
    Cardinality(InFlight) <= (IF record = None THEN 0 ELSE 1) + swept

\* The lock is held by one delete request at a time, and every way out of the
\* route, refusals and failures included, gives it back.
LockHasHolder ==
    /\ lock <=> Holders # {}
    /\ \A d, e \in Holders : d = e

\* From the idle check to its end a deletion meets no recorded run, new or old;
\* a run may only be at work there without a record (untracked or expired).
DeletionExcludesRuns ==
    (\E d \in Deletion : deletion[d].step \in Past) =>
        /\ record = None
        /\ swept = 0 => InFlight = {}

\* The cached list shows a conversation that is gone only until the deletion
\* under way invalidates it, or after one that failed half-way; a load that
\* read before the removal must not be kept after the invalidation.
DeletedNotListed ==
    cache = "shown" /\ ~Exists =>
        \E d \in Deletion : deletion[d].step \in {"removed", "deleted", "half"}

\* Every delete request is answered, however long the conversation's runs take.
DeletionEnds ==
    \A d \in Deletion : deletion[d].step \in Holds ~> deletion[d].step \in Ended
=============================================================================
