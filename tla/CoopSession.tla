----------------------------- MODULE CoopSession -----------------------------
(***************************************************************************)
(* One cooperation session: a creator invites members, each member agrees, *)
(* declines or submits a result, automatic members are executed by a timer *)
(* of the server, and the creator consolidates, publishes and closes.      *)
(*                                                                         *)
(* createCoopSession writes its rows one statement after the other, so the *)
(* session can be seen, answered and closed while it is being created, and *)
(* a crash leaves a prefix of it.  The members' answers and the executions *)
(* of a session change a request in one transaction that re-tests what its *)
(* handler had read before and records an event.  The older interface for  *)
(* collaborations (collabRouter, collab-exec) works on the same rows and   *)
(* does neither: it reads a row, and later writes it by its id.            *)
(***************************************************************************)
EXTENDS Integers, Sequences, FiniteSetsExt

CONSTANTS N,          \* members, in the order of their subtasks
          Automatic,  \* members whose e-mail address marks an automatic agent
          Call,       \* HTTP calls of members; a result's text is its call
          Direct,     \* calls that may go to the interface for collaborations
          Template,   \* the scripted result of an automatic member
          Retired,    \* the message of the executor of collab-exec
          MaxFaults,  \* bound: crashes of the server and lost executions
          None

ASSUME NAssumption == N \in Nat \ {0}
ASSUME AutoAssumption == Automatic \subseteq 1..N
ASSUME FaultsAssumption == MaxFaults \in Nat
\* A result tells the submission it came with.
ASSUME ResultAssumption == Template \notin Call /\ None \notin Call \cup {Template, Retired}

VARIABLES session,    \* status of the session row, "none" before it exists
          request,    \* [Member -> the request row]
          log,        \* [Member -> the events of the request, oldest first]
          creation,   \* the createCoopSession call
          call,       \* [Call -> a member's agree, reject or submit call]
          execution,  \* [Member -> the server's execution of the request]
          draft,      \* what the latest consolidation was made from
          faults      \* crashes and lost executions so far

vars == <<session, request, log, creation, call, execution, draft, faults>>

Member == 1..N
Active == {"pending", "approved", "running"}
Ended  == {"completed", "rejected", "failed"}
Closed == {"closed", "dissolved"}

\* The interface for collaborations has two more, which end no request.
Statuses == {"absent", "partial_success", "waiting_input"} \cup Active \cup Ended
Results  == Call \cup {Template, Retired, None}

Row == [status : Statuses, result : Results, visible : BOOLEAN]
NoRow == [status |-> "absent", result |-> None, visible |-> FALSE]

Event == [type : {"invited", "agreed", "rejected", "started", "submitted", "executed", "failed"},
          files : Call \cup {None}]
Plain(type) == [type |-> type, files |-> None]

Answer == {"agree", "reject", "submit"}
Review == {"approve", "decline", "report", "deliver", "run"}

IdleCall == [kind |-> None, member |-> 1, files |-> FALSE, read |-> None, step |-> "idle"]
EndedCall == [IdleCall EXCEPT !.step = "ended"]

View(m) == [status |-> request[m].status, result |-> request[m].result]
NoView == [status |-> "absent", result |-> None]

NoDraft == [step |-> "none", rows |-> [m \in Member |-> NoView],
            files |-> [m \in Member |-> None]]

TypeOK ==
    /\ session \in {"none", "running", "published"} \cup Closed
    /\ request \in [Member -> Row]
    /\ log \in [Member -> Seq(Event)]
    /\ creation \in [step : {"idle", "insert", "invite", "agree", "finish", "start", "ended"},
                     next : 1..(N + 1)]
    /\ call \in [Call -> [kind : Answer \cup Review \cup {None}, member : Member,
                          files : BOOLEAN, read : Results,
                          step : {"idle", "checked", "running", "written", "ended"}]]
    /\ execution \in [Member -> {"none", "due", "timer"}]
    /\ draft \in [step : {"none", "rows", "drafted"},
                  rows : [Member -> [status : Statuses, result : Results]],
                  files : [Member -> Call \cup {None}]]
    /\ faults \in 0..MaxFaults

Init ==
    /\ session = "none"
    /\ request = [m \in Member |-> NoRow]
    /\ log = [m \in Member |-> <<>>]
    /\ creation = [step |-> "idle", next |-> 1]
    /\ call = [c \in Call |-> IdleCall]
    /\ execution = [m \in Member |-> "none"]
    /\ draft = NoDraft
    /\ faults = 0

\* The row of m takes a status and a result.
Rewrite(m, status, result) ==
    request' = [request EXCEPT ![m] = [status |-> status, result |-> result, visible |-> @.visible]]

Record(m, event) == log' = [log EXCEPT ![m] = Append(@, event)]

----------------------------------------------------------------------------
(* createCoopSession, one statement a step. *)

CreateSession ==
    /\ creation.step = "idle"
    /\ session' = "running"
    /\ creation' = [creation EXCEPT !.step = "insert"]
    /\ UNCHANGED <<request, log, call, execution, draft, faults>>

\* Mutant: the loop over the members runs once too often.
AfterMemberOffByOne(m) ==
    [step |-> IF m <= N THEN "insert" ELSE "finish", next |-> m + 1]

\* Where the call goes after the last statement for member m.
AfterMember(m) ==
    [step |-> IF m < N THEN "insert" ELSE IF Automatic = {} THEN "ended" ELSE "finish",
     next |-> m + 1]

InsertRequest ==
    /\ creation.step = "insert"
    /\ LET m == creation.next
       IN  Rewrite(m, IF m \in Automatic THEN "approved" ELSE "pending", None)
    /\ creation' = [creation EXCEPT !.step = "invite"]
    /\ UNCHANGED <<session, log, call, execution, draft, faults>>

LogInvited ==
    /\ creation.step = "invite"
    /\ LET m == creation.next
       IN  /\ Record(m, Plain("invited"))
           /\ creation' = IF m \in Automatic THEN [creation EXCEPT !.step = "agree"] ELSE AfterMember(m)
    /\ UNCHANGED <<session, request, call, execution, draft, faults>>

LogAutoAgreed ==
    /\ creation.step = "agree"
    /\ Record(creation.next, Plain("agreed"))
    /\ creation' = AfterMember(creation.next)
    /\ UNCHANGED <<session, request, call, execution, draft, faults>>

\* The update that starts a session with automatic members has no guard: it
\* also re-opens a session that its creator published or closed meanwhile.
MarkRunning ==
    /\ creation.step = "finish"
    /\ session' = "running"
    /\ creation' = [creation EXCEPT !.step = "start"]
    /\ UNCHANGED <<request, log, call, execution, draft, faults>>

StartExecutions ==
    /\ creation.step = "start"
    /\ execution' = [m \in Member |-> IF m \in Automatic THEN "due" ELSE execution[m]]
    /\ creation' = [creation EXCEPT !.step = "ended"]
    /\ UNCHANGED <<session, request, log, call, draft, faults>>

----------------------------------------------------------------------------
(* Members: every handler reads the row, and its transaction re-tests it.  *)

\* The statuses in which a call of the kind may change the request.
OpenTo(kind) ==
    CASE kind = "submit" -> Active
      [] kind \in {"report", "run"} -> {"approved"}
      [] kind = "deliver" -> {"completed", "partial_success"}
      [] OTHER -> {"pending"}

CheckCall(c, m, kind) ==
    /\ call[c].step = "idle"
    /\ kind \in Review => c \in Direct
    /\ request[m].status \in OpenTo(kind)
    /\ \E files \in IF kind = "submit" THEN BOOLEAN ELSE {FALSE} :
         call' = [call EXCEPT ![c] =
                    [kind |-> kind, member |-> m, files |-> files, step |-> "checked",
                     read |-> IF kind = "deliver" THEN request[m].result ELSE None]]
    /\ UNCHANGED <<session, request, log, creation, execution, draft, faults>>

\* Agreeing stops here: the statement that follows names a column the table
\* does not have, so the call fails before it reaches startCoopExecution.
Agree(c) ==
    LET m == call[c].member IN
    /\ call[c].kind = "agree"
    /\ Rewrite(m, "approved", request[m].result)
    /\ Record(m, Plain("agreed"))

Reject(c) ==
    LET m == call[c].member IN
    /\ call[c].kind = "reject"
    /\ Rewrite(m, "rejected", request[m].result)
    /\ Record(m, Plain("rejected"))

Submit(c) ==
    LET m == call[c].member IN
    /\ call[c].kind = "submit"
    /\ Rewrite(m, "completed", c)
    /\ Record(m, [type |-> "submitted", files |-> IF call[c].files THEN c ELSE None])

\* Mutant: the transaction trusts the status its handler had read.
StillOpenTrusted(c) == TRUE

StillOpen(c) == request[call[c].member].status \in OpenTo(call[c].kind)

Commit(c) ==
    /\ call[c].step = "checked"
    /\ call[c].kind \in Answer
    /\ StillOpen(c)
    /\ Agree(c) \/ Reject(c) \/ Submit(c)
    /\ call' = [call EXCEPT ![c] = EndedCall]
    /\ UNCHANGED <<session, creation, execution, draft, faults>>

\* Another call ended the request first: no row is affected.
Refuse(c) ==
    /\ call[c].step = "checked"
    /\ call[c].kind \in Answer
    /\ ~StillOpen(c)
    /\ call' = [call EXCEPT ![c] = EndedCall]
    /\ UNCHANGED <<session, request, log, creation, execution, draft, faults>>

----------------------------------------------------------------------------
(* The interface for collaborations: reviewRequest, submitResult and       *)
(* deliverResult of collabRouter, and collab-exec, which an approval also  *)
(* posts to itself, as a call like any other.  updateCollabRequest writes  *)
(* by id what the handler had read, whatever the row has become, and       *)
(* records no event.                                                       *)

\* What a call writes: the statuses, and the results it may leave.
Writes(c) ==
    LET now == request[call[c].member].result IN
    CASE call[c].kind = "approve" -> {<<"approved", now>>}
      [] call[c].kind = "decline" -> {<<"rejected", now>>}
      [] call[c].kind = "report" ->
            {"completed", "failed", "partial_success", "waiting_input"} \X {c, None}
      [] call[c].kind = "deliver" -> {"completed"} \X {now, call[c].read, c}
      [] call[c].kind = "run" -> {<<"running", now>>}

\* collab-exec answers its call here and goes on with the executor.
Overwrite(c) ==
    /\ call[c].step = "checked"
    /\ call[c].kind \in Review
    /\ \E write \in Writes(c) : Rewrite(call[c].member, write[1], write[2])
    /\ call' = [call EXCEPT ![c].step = IF call[c].kind = "run" THEN "running" ELSE "written"]
    /\ UNCHANGED <<session, log, creation, execution, draft, faults>>

\* The only executor there is fails every request, with its message, or
\* without one when that update fails and the catch writes the next.
FailRun(c) ==
    LET m == call[c].member IN
    /\ call[c].step = "running"
    /\ \E result \in {Retired, request[m].result} : Rewrite(m, "failed", result)
    /\ call' = [call EXCEPT ![c].step = "written"]
    /\ UNCHANGED <<session, log, creation, execution, draft, faults>>

\* The members whose row that interface has written.
Overwritten == {call[c].member : c \in {d \in Call : call[d].step \in {"running", "written"}}}

----------------------------------------------------------------------------
(* startCoopExecution: the claim, then a timer of the process.             *)

\* Mutant: the test for automatic members is inverted.
ModeInverted(m) == IF m \in Automatic THEN "none" ELSE "timer"

\* Only an automatic member gets a timer; a person submits instead.
Mode(m) == IF m \in Automatic THEN "timer" ELSE "none"

ClaimExecution(m) ==
    /\ execution[m] = "due"
    /\ request[m].status = "approved"
    /\ Rewrite(m, "running", request[m].result)
    /\ Record(m, Plain("started"))
    /\ execution' = [execution EXCEPT ![m] = Mode(m)]
    /\ UNCHANGED <<session, creation, call, draft, faults>>

SkipExecution(m) ==
    /\ \/ execution[m] = "due" /\ request[m].status # "approved"
       \/ execution[m] = "timer" /\ request[m].status # "running"
    /\ execution' = [execution EXCEPT ![m] = "none"]
    /\ UNCHANGED <<session, request, log, creation, call, draft, faults>>

\* Mutant: the timer writes its result whatever became of the request.
CompleteExecutionUnguarded(m) ==
    /\ execution[m] = "timer"
    /\ Rewrite(m, "completed", Template)
    /\ Record(m, Plain("executed"))
    /\ execution' = [execution EXCEPT ![m] = "none"]
    /\ UNCHANGED <<session, creation, call, draft, faults>>

CompleteExecution(m) ==
    /\ execution[m] = "timer"
    /\ request[m].status = "running"
    /\ Rewrite(m, "completed", Template)
    /\ Record(m, Plain("executed"))
    /\ execution' = [execution EXCEPT ![m] = "none"]
    /\ UNCHANGED <<session, creation, call, draft, faults>>

\* The transaction of the result failed; the one of the failure did not.
FailExecution(m) ==
    /\ execution[m] = "timer"
    /\ request[m].status = "running"
    /\ Rewrite(m, "failed", request[m].result)
    /\ Record(m, Plain("failed"))
    /\ execution' = [execution EXCEPT ![m] = "none"]
    /\ UNCHANGED <<session, creation, call, draft, faults>>

\* The database cannot be reached: nothing runs the request again.
LoseExecution(m) ==
    /\ execution[m] # "none"
    /\ faults < MaxFaults
    /\ faults' = faults + 1
    /\ execution' = [execution EXCEPT ![m] = "none"]
    /\ UNCHANGED <<session, request, log, creation, call, draft>>

----------------------------------------------------------------------------
(* The creator: consolidate, publish and close.                            *)

ReadRequests ==
    /\ session # "none"
    /\ draft' = [step |-> "rows", rows |-> [m \in Member |-> View(m)], files |-> NoDraft.files]
    /\ UNCHANGED <<session, request, log, creation, call, execution, faults>>

\* The files of the last submission that came with any.
FilesOf(m) ==
    LET with == {i \in DOMAIN log[m] : log[m][i].type = "submitted" /\ log[m][i].files # None}
    IN  IF with = {} THEN None ELSE log[m][Max(with)].files

\* isSessionReadyToConsolidate, over the rows that were read.
Ready(rows) ==
    LET present == {m \in Member : rows[m].status # "absent"}
    IN  /\ \A m \in present : rows[m].status \in Ended
        /\ \E m \in present : rows[m].status = "completed"

\* A failure to read the events only leaves the files out.
Consolidate ==
    /\ draft.step = "rows"
    /\ \E found \in BOOLEAN :
         draft' = IF Ready(draft.rows)
                  THEN [step |-> "drafted", rows |-> draft.rows,
                        files |-> [m \in Member |->
                                     IF found /\ draft.rows[m].status # "absent"
                                     THEN FilesOf(m) ELSE None]]
                  ELSE NoDraft
    /\ UNCHANGED <<session, request, log, creation, call, execution, faults>>

\* Mutant: publishing forgets the closed sessions.
PublishClosed ==
    /\ session \notin {"none", "published"}
    /\ session' = "published"
    /\ request' = [m \in Member |-> [request[m] EXCEPT !.visible = request[m].status # "absent"]]
    /\ UNCHANGED <<log, creation, call, execution, draft, faults>>

\* Publishing shows every result to every member; it needs no readiness.
Publish ==
    /\ session \notin {"none", "published"} \cup Closed
    /\ session' = "published"
    /\ request' = [m \in Member |-> [request[m] EXCEPT !.visible = request[m].status # "absent"]]
    /\ UNCHANGED <<log, creation, call, execution, draft, faults>>

Close ==
    /\ session \notin {"none"} \cup Closed
    /\ session' \in Closed
    /\ UNCHANGED <<request, log, creation, call, execution, draft, faults>>

\* A restart of the server: rows stay, calls and timers are gone, and no
\* start-up work takes up a request that was left approved or running.
Crash ==
    /\ faults < MaxFaults
    /\ faults' = faults + 1
    /\ creation' = [creation EXCEPT !.step = IF @ = "idle" THEN "idle" ELSE "ended"]
    /\ call' = [c \in Call |-> CASE call[c].step = "checked" -> EndedCall
                                 [] call[c].step = "running" -> [call[c] EXCEPT !.step = "written"]
                                 [] OTHER -> call[c]]
    /\ execution' = [m \in Member |-> "none"]
    /\ draft' = IF draft.step = "drafted" THEN draft ELSE NoDraft
    /\ UNCHANGED <<session, request, log>>

----------------------------------------------------------------------------
Creating ==
    \/ CreateSession \/ InsertRequest \/ LogInvited \/ LogAutoAgreed
    \/ MarkRunning \/ StartExecutions

Answering ==
    \E c \in Call : \/ \E m \in Member, kind \in Answer \cup Review : CheckCall(c, m, kind)
                    \/ Commit(c) \/ Refuse(c)
                    \/ Overwrite(c) \/ FailRun(c)

Executing(m) ==
    ClaimExecution(m) \/ SkipExecution(m) \/ CompleteExecution(m) \/ FailExecution(m)

Next ==
    \/ Creating
    \/ Answering
    \/ \E m \in Member : Executing(m) \/ LoseExecution(m)
    \/ ReadRequests \/ Consolidate
    \/ Publish \/ Close
    \/ Crash

\* The server's own steps: a call goes on, and a timer fires.
Fairness ==
    /\ WF_vars(Creating)
    /\ \A m \in Member : WF_vars(Executing(m))

Spec == Init /\ [][Next]_vars /\ Fairness

----------------------------------------------------------------------------
EndingOf == [rejected |-> {"rejected"}, failed |-> {"failed"}, completed |-> {"submitted", "executed"}]

\* The events that ended the request of m.
Endings(m) ==
    {i \in DOMAIN log[m] : log[m][i].type \in {"rejected", "failed", "submitted", "executed"}}

\* A request ends once: its row carries the one ending its events tell of,
\* whichever of the members' calls and the timer came first.  It speaks of the
\* rows that the interface for collaborations has left alone: that one re-opens
\* a completed request by a stale approval, and ends one without an event.
EndedOnce ==
    \A m \in Member \ Overwritten :
        IF request[m].status \in Ended
        THEN \E i \in DOMAIN log[m] :
                Endings(m) = {i} /\ log[m][i].type \in EndingOf[request[m].status]
        ELSE Endings(m) = {}

\* What a consolidation was made from stays true of the session: every
\* result it used is still the member's result, and the files it listed are
\* those of that submission, although rows and files were read apart; of the
\* members whose row the interface for collaborations has left alone.
DraftMatchesResults ==
    draft.step = "drafted" =>
        \A m \in Member \ Overwritten : draft.rows[m].status # "absent" =>
            /\ request[m].status = draft.rows[m].status
            /\ request[m].result = draft.rows[m].result
            /\ draft.files[m] # None => draft.files[m] = request[m].result

\* Once the creating call has ended, a closed session stays as it was closed.
ClosedIsFinal ==
    [][(session \in Closed /\ creation.step # "finish") => session' = session]_vars

\* How far a request is, for its creator: the execution of an automatic member
\* is part of its acceptance.
State(status) ==
    CASE status = "pending" -> "invited"
      [] status \in {"approved", "running"} -> "accepted"
      [] OTHER -> status

\* The session as its creator and its members see it.  A row that the interface
\* for collaborations has written is out of the session's hands.
Ledger == INSTANCE CoopLedger WITH
             inviting <- creation.step \in {"insert", "invite", "agree", "finish"},
             outcome <- [m \in Member |->
                           IF m \in Overwritten THEN [state |-> "overwritten", result |-> None]
                           ELSE [state |-> State(request[m].status), result |-> request[m].result]],
             shown <- {m \in Member : request[m].visible},
             drafted <- [m \in {n \in Member \ Overwritten :
                                  draft.step = "drafted" /\ draft.rows[n].status # "absent"} |->
                           [outcome |-> [state |-> State(draft.rows[m].status),
                                         result |-> draft.rows[m].result],
                            files |-> draft.files[m]]]

\* Every step of handlers, timers and crashes is a step of the ledger or none:
\* whatever was read apart and interleaved, members are invited and end once,
\* a closed session is opened by nothing but the end of its own creation, and a
\* draft quotes in one step what the members have answered; and a row that the
\* interface for collaborations takes over disturbs no other member's.
ImplementsCoop == Ledger!LedgerSpec

\* An automatic member's execution ends its request, unless the server crashed
\* or lost its database, or another interface wrote the row: nothing waits for
\* ever on a scripted member.
AutoEnds ==
    \A m \in Automatic :
        execution[m] # "none" ~>
            (request[m].status \in Ended \/ m \in Overwritten \/ faults > 0)

=============================================================================
