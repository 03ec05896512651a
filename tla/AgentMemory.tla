----------------------------- MODULE AgentMemory -----------------------------
(***************************************************************************)
(* One memory of an agent (one canonical key) and the jobs that learn it.  *)
(*                                                                         *)
(* A background worker takes the turns of conversations one job at a time, *)
(* asks a model what is worth remembering and observes it; calls of the    *)
(* user remember, edit, restore, forget, confirm, reject and resolve       *)
(* conflicts meanwhile.  An observation is a chain of statements that acts *)
(* on what its first one found; the row is locked only inside each of the  *)
(* transactions.  Confidence, kinds, expiry and snippets are left out: an  *)
(* observation may or may not be confident enough to be promoted.          *)
(***************************************************************************)
EXTENDS Integers, Sequences, FiniteSets

CONSTANTS Job,         \* turns of conversations that were queued
          Call,        \* calls of the user
          Content,     \* what may be remembered under the key
          Session,     \* chat sessions
          SessionOf,   \* [Job \cup Call -> Session \cup {None}]
          ReviewsConflicts, \* conflicts are put to the user, and not settled at once
          Worker,      \* the memory worker of the server
          Wiped,       \* what the content of a forgotten memory is replaced with
          None,
          MaxVersion,  \* bound: versions of the memory
          MaxConflict, \* bound: conflicts observed
          MaxCandidates, \* what an answer of the model may hold; three in the code
          MaxFaults    \* bound: crashes, and lost answers of the database, together

ASSUME SessionAssumption == SessionOf \in [Job \cup Call -> Session \cup {None}]
ASSUME FiniteAssumption == /\ IsFiniteSet(Job) /\ IsFiniteSet(Call)
                           /\ IsFiniteSet(Content) /\ IsFiniteSet(Session)
ASSUME SettingAssumption == ReviewsConflicts \in BOOLEAN
ASSUME NamesAssumption ==
    /\ Worker \notin Call
    /\ Wiped \notin Content
    /\ None \notin Content \cup {Wiped} \cup Job
ASSUME BoundAssumption == /\ MaxVersion \in Nat \ {0} /\ MaxConflict \in Nat
                          /\ MaxCandidates \in Nat \ {0}
                          /\ MaxFaults \in Nat

VARIABLES item,      \* the row of agent_memory_items
          versions,  \* the rows of agent_memory_versions, by version
          conflicts, \* the rows of agent_memory_conflicts, by id
          evidence,  \* the rows of agent_memory_evidence
          job,       \* the rows of agent_memory_jobs
          working,   \* the job the worker holds, or None
          proc,      \* the progress of the worker and of each call
          consent,   \* the memory mode is learn_and_use
          lost,      \* answers the worker missed, about a job it claims or settles
          crashes

vars == <<item, versions, conflicts, evidence, job, working, proc, consent, lost, crashes>>

Proc == Call \cup {Worker}
Live == {"active", "candidate"}
Gone == {"forgotten", "rejected"}
Status == {"absent"} \cup Live \cup Gone

NoVersion == [content |-> None, open |-> FALSE]

Quiet == [op |-> "none", step |-> "idle", found |-> "absent", content |-> None,
          read |-> None, version |-> 1, conflict |-> 0, left |-> 0]
Spent == [Quiet EXCEPT !.step = "ended"]

TypeOK ==
    /\ item \in [status : Status, content : Content \cup {Wiped, None}, version : 1..MaxVersion]
    /\ versions \in [1..MaxVersion -> [content : Content \cup {Wiped, None}, open : BOOLEAN]]
    /\ conflicts \in Seq([content : Content, status : {"pending", "accepted", "rejected"}])
    /\ Len(conflicts) <= MaxConflict
    /\ evidence \subseteq [from : Job \cup Call, content : Content, conflict : 0..MaxConflict]
    /\ job \in [Job -> [status : {"absent", "pending", "running", "done", "skipped", "failed"},
                        attempts : Nat, payload : BOOLEAN]]
    /\ working \in Job \cup {None}
    /\ proc \in [Proc -> [op : {"observe", "remember", "forget", "edit", "restore", "accept", "none"},
                          step : {"idle", "claimed", "model", "find", "insert", "created",
                                  "version", "update", "conflict", "evidence", "count",
                                  "promote", "choose", "write", "finish", "failing", "ended"},
                          found : Status, content : Content \cup {Wiped, None},
                          read : Content \cup {Wiped, None}, version : 1..MaxVersion,
                          conflict : 0..MaxConflict, left : 0..MaxCandidates]]
    /\ consent \in BOOLEAN
    /\ lost \in 0..MaxFaults
    /\ crashes \in 0..MaxFaults

Init ==
    /\ item = [status |-> "absent", content |-> None, version |-> 1]
    /\ versions = [v \in 1..MaxVersion |-> NoVersion]
    /\ conflicts = <<>>
    /\ evidence = {}
    /\ job = [j \in Job |-> [status |-> "absent", attempts |-> 0, payload |-> FALSE]]
    /\ working = None
    /\ proc = [p \in Proc |-> Quiet]
    /\ consent = TRUE
    /\ lost = 0
    /\ crashes = 0

memory == <<item, versions, conflicts, evidence>>
queue  == <<job, working, consent, lost, crashes>>

Step(p, step) == proc' = [proc EXCEPT ![p].step = step]

\* What an observation goes on with once its evidence is written: nothing it
\* read before is used again.
Onward(p, step) ==
    [Quiet EXCEPT !.op = proc[p].op, !.step = step, !.left = proc[p].left]

\* An observation or a call returns; the worker goes on with its job.
Done(p) ==
    proc' = [proc EXCEPT ![p] = IF p = Worker THEN Onward(p, "finish") ELSE Spent]

----------------------------------------------------------------------------
(* The job queue. *)

\* A turn is queued once: its idempotency key is unique.
Enqueue(j) ==
    /\ job[j].status = "absent"
    /\ consent
    /\ job' = [job EXCEPT ![j] = [status |-> "pending", attempts |-> 0, payload |-> TRUE]]
    /\ UNCHANGED <<memory, working, proc, consent, lost, crashes>>

Running(j) == job' = [job EXCEPT ![j].status = "running", ![j].attempts = @ + 1]

Claim(j) ==
    /\ proc[Worker].step = "idle"
    /\ job[j].status = "pending"
    /\ Running(j)
    /\ working' = j
    /\ Step(Worker, "claimed")
    /\ UNCHANGED <<memory, consent, lost, crashes>>

\* The update was made but its answer is lost: the worker has no job to put
\* back, and the row runs without it.
LoseClaim(j) ==
    /\ proc[Worker].step = "idle"
    /\ job[j].status = "pending"
    /\ lost + crashes < MaxFaults
    /\ lost' = lost + 1
    /\ Running(j)
    /\ UNCHANGED <<memory, working, proc, consent, crashes>>

\* Consent is tested before the model is asked and again after it answered.
\* The turn may say nothing worth asking about.
AskModel ==
    /\ proc[Worker].step = "claimed"
    /\ \/ consent /\ job[working].payload /\ Step(Worker, "model")
       \/ (consent => job[working].payload) /\ Step(Worker, "finish")
    /\ UNCHANGED <<memory, queue>>

\* A candidate of the answer that is about this memory, n of the answer's
\* candidates being left after it.
Candidate(c, n) == [Quiet EXCEPT !.op = "observe", !.step = "find", !.content = c, !.left = n]

ModelAnswers ==
    /\ proc[Worker].step = "model"
    /\ \/ /\ consent
          /\ \E c \in Content :
               proc' = [proc EXCEPT ![Worker] = Candidate(c, MaxCandidates - 1)]
       \/ proc' = [proc EXCEPT ![Worker] = [Quiet EXCEPT !.step = "finish"]]
    /\ UNCHANGED <<memory, queue>>

\* The next candidate is observed without another look at the consent.
NextCandidate ==
    /\ proc[Worker].step = "finish" /\ proc[Worker].left > 0
    /\ \E c \in Content :
         proc' = [proc EXCEPT ![Worker] = Candidate(c, proc[Worker].left - 1)]
    /\ UNCHANGED <<memory, queue>>

Finished ==
    job' = [job EXCEPT ![working] =
              [@ EXCEPT !.status = IF proc[Worker].op = "observe" THEN "done" ELSE "skipped",
                        !.payload = FALSE]]

Release ==
    /\ working' = None
    /\ proc' = [proc EXCEPT ![Worker] = Quiet]

FinishJob ==
    /\ proc[Worker].step = "finish"
    /\ Finished
    /\ Release
    /\ UNCHANGED <<memory, consent, lost, crashes>>

Failing == proc' = [proc EXCEPT ![Worker] = [Quiet EXCEPT !.step = "failing"]]

\* The update was made but its answer is lost, which is an error like others.
LoseFinish ==
    /\ proc[Worker].step = "finish"
    /\ lost + crashes < MaxFaults
    /\ lost' = lost + 1
    /\ Finished
    /\ Failing
    /\ UNCHANGED <<memory, working, consent, crashes>>

\* Any statement of the worker may throw, for a turn that is no longer there
\* the first one.
FailWork ==
    /\ proc[Worker].step \notin {"idle", "failing"}
    /\ Failing
    /\ UNCHANGED <<memory, queue>>

\* Mutant: the last attempt is put back like the others.
AfterFailureForEver(r) == [r EXCEPT !.status = "pending"]

AfterFailure(r) ==
    IF r.attempts >= 3 THEN [r EXCEPT !.status = "failed", !.payload = FALSE]
                       ELSE [r EXCEPT !.status = "pending"]

\* The row is found by its id alone, also when it had ended already.
FailJob ==
    /\ proc[Worker].step = "failing"
    /\ job' = [job EXCEPT ![working] = AfterFailure(@)]
    /\ Release
    /\ UNCHANGED <<memory, consent, lost, crashes>>

\* The statement that puts the job back throws as well: the worker is free
\* and the row is left as it is.
LoseFailure ==
    /\ proc[Worker].step = "failing"
    /\ lost + crashes < MaxFaults
    /\ lost' = lost + 1
    /\ Release
    /\ UNCHANGED <<memory, job, consent, crashes>>

----------------------------------------------------------------------------
(* observeMemory: what the worker and an explicit remember do. *)

Explicit(p) == proc[p].op = "remember"

\* Mutant: a memory the user got rid of is observed like any other.
DecisionForgetful(p) ==
    IF item.content = proc[p].content THEN "evidence"
    ELSE IF Explicit(p) \/ item.status # "active" \/ ~ReviewsConflicts THEN "update"
    ELSE "conflict"

\* decideMemoryObservation, for a memory that exists.
Decision(p) ==
    IF item.status \in Gone /\ ~Explicit(p) THEN "ignore"
    ELSE IF item.content = proc[p].content THEN "evidence"
    ELSE IF Explicit(p) \/ item.status = "candidate" \/ ~ReviewsConflicts THEN "update"
    ELSE "conflict"

Find(p) ==
    /\ proc[p].step = "find"
    /\ IF item.status # "absent" /\ Decision(p) = "ignore"
       THEN Done(p)
       ELSE proc' = [proc EXCEPT ![p].found = item.status,
                                 ![p].step = IF item.status = "absent" THEN "insert" ELSE Decision(p)]
    /\ UNCHANGED <<memory, queue>>

\* Mutant: a new memory starts before its first version.
InsertUnnumbered(p) ==
    /\ proc[p].step = "insert"
    /\ item.status = "absent"
    /\ item' = [status |-> IF Explicit(p) THEN "active" ELSE "candidate",
                content |-> proc[p].content, version |-> 0]
    /\ Step(p, "created")
    /\ UNCHANGED <<versions, conflicts, evidence, queue>>

\* createAgentMemory: insert, read back, record the version; not one
\* transaction.  A second insert of the key throws.
Insert(p) ==
    /\ proc[p].step = "insert"
    /\ item.status = "absent"
    /\ item' = [status |-> IF Explicit(p) THEN "active" ELSE "candidate",
                content |-> proc[p].content, version |-> 1]
    /\ Step(p, "created")
    /\ UNCHANGED <<versions, conflicts, evidence, queue>>

\* What was read back is carried to the next statement.
ReadCreated(p) ==
    /\ proc[p].step = "created"
    /\ proc' = [proc EXCEPT ![p].step = "version", ![p].version = item.version,
                            ![p].read = item.content]
    /\ UNCHANGED <<memory, queue>>

\* INSERT IGNORE: a version that has a row keeps it.
WithRow(vs, v, c) ==
    IF vs[v].content = None THEN [vs EXCEPT ![v] = [content |-> c, open |-> TRUE]] ELSE vs

AddVersion(p) ==
    /\ proc[p].step = "version"
    /\ versions' = WithRow(versions, proc[p].version, proc[p].read)
    /\ proc' = [proc EXCEPT ![p].step = "evidence", ![p].version = 1, ![p].read = None]
    /\ UNCHANGED <<item, conflicts, evidence, queue>>

\* Mutant: the row of the version that ends is left open.
NewVersionOpen(c) ==
    [WithRow(versions, item.version, item.content) EXCEPT
        ![item.version + 1] = [content |-> c, open |-> TRUE]]

\* A transaction that changes the content closes the row of the version it
\* ends and adds one for the version it begins.
NewVersion(c) ==
    [WithRow(versions, item.version, item.content) EXCEPT
        ![item.version].open = FALSE,
        ![item.version + 1] = [content |-> c, open |-> TRUE]]

\* What every such transaction does; status is what it leaves the item in.
Write(c, status) ==
    IF item.content = c
    THEN /\ item' = [item EXCEPT !.status = status]
         /\ versions' = WithRow(versions, item.version, item.content)
    ELSE /\ item.version < MaxVersion
         /\ item' = [status |-> status, content |-> c, version |-> item.version + 1]
         /\ versions' = NewVersion(c)

\* The status is not looked at again: an observation that was decided before
\* the memory was forgotten still writes its content.
Update(p) ==
    /\ proc[p].step = "update"
    /\ Write(proc[p].content, IF Explicit(p) THEN "active" ELSE item.status)
    /\ Step(p, "evidence")
    /\ UNCHANGED <<conflicts, evidence, queue>>

Pending(c) == {k \in DOMAIN conflicts : conflicts[k].content = c /\ conflicts[k].status = "pending"}

\* One pending conflict stands for all observations of the same content.
ObserveConflict(p) ==
    LET c == proc[p].content IN
    /\ proc[p].step = "conflict"
    /\ IF Pending(c) # {}
       THEN /\ UNCHANGED conflicts
            /\ \E k \in Pending(c) :
                 proc' = [proc EXCEPT ![p].step = "evidence", ![p].conflict = k]
       ELSE /\ Len(conflicts) < MaxConflict
            /\ conflicts' = Append(conflicts, [content |-> c, status |-> "pending"])
            /\ proc' = [proc EXCEPT ![p].step = "evidence", ![p].conflict = Len(conflicts) + 1]
    /\ UNCHANGED <<item, versions, evidence, queue>>

\* Where an observation comes from: the worker's is its job.
From(p) == IF p = Worker THEN working ELSE p

AddEvidence(p) ==
    /\ proc[p].step = "evidence"
    /\ evidence' =
         IF \E e \in evidence : e.from = From(p) /\ e.content = proc[p].content
         THEN evidence
         ELSE evidence \cup
                {[from |-> From(p), content |-> proc[p].content, conflict |-> proc[p].conflict]}
    /\ IF proc[p].conflict = 0 THEN proc' = [proc EXCEPT ![p] = Onward(p, "count")] ELSE Done(p)
    /\ UNCHANGED <<item, versions, conflicts, queue>>

\* Mutant: every observation counts, also two of one session.
EvidenceCountRows == Cardinality({e \in evidence : e.conflict = 0})

\* What a row of evidence counts for: its session or, without one, the hash of
\* what was said where.
SourceOf(e) ==
    IF SessionOf[e.from] # None THEN SessionOf[e.from] ELSE <<e.from, e.content>>

\* The distinct sources the memory itself was observed in.
EvidenceCount == Cardinality({SourceOf(e) : e \in {d \in evidence : d.conflict = 0}})

\* The row is read again; a candidate of two sources may be promoted.
Count(p) ==
    /\ proc[p].step = "count"
    /\ \/ Done(p)
       \/ /\ ~Explicit(p) /\ item.status = "candidate" /\ EvidenceCount >= 2
          /\ proc' = [proc EXCEPT ![p].step = "promote", ![p].found = "candidate"]
    /\ UNCHANGED <<memory, queue>>

\* setAgentMemoryStatus does not look at the status it replaces.
Promote(p) ==
    /\ proc[p].step = "promote"
    /\ item' = [item EXCEPT !.status = "active"]
    /\ Done(p)
    /\ UNCHANGED <<versions, conflicts, evidence, queue>>

Observe(p) ==
    \/ Find(p) \/ Insert(p) \/ ReadCreated(p) \/ AddVersion(p) \/ Update(p)
    \/ ObserveConflict(p) \/ AddEvidence(p) \/ Count(p) \/ Promote(p)

----------------------------------------------------------------------------
(* The user's calls: each reads the memory, then writes. *)

Remember(p, c) ==
    /\ proc[p].step = "idle"
    /\ consent
    /\ proc' = [proc EXCEPT ![p] = [Quiet EXCEPT !.op = "remember", !.step = "find", !.content = c]]
    /\ UNCHANGED <<memory, queue>>

Begin(p, op, c, k) ==
    /\ proc[p].step = "idle"
    /\ item.status \in Live
    /\ proc' = [proc EXCEPT ![p] = [Quiet EXCEPT !.op = op, !.step = "write",
                                                 !.found = item.status, !.content = c,
                                                 !.conflict = k]]
    /\ UNCHANGED <<memory, queue>>

BeginForget(p) == Begin(p, "forget", None, 0)
BeginEdit(p, c) == Begin(p, "edit", c, 0)
BeginAccept(p, k) == Begin(p, "accept", None, k)

\* A restore reads the memory first and the version in another statement; a
\* version that is not there or was wiped is an error.
BeginRestore(p, v) ==
    /\ proc[p].step = "idle"
    /\ item.status \in Live
    /\ proc' = [proc EXCEPT ![p] = [Quiet EXCEPT !.op = "restore", !.step = "choose",
                                                 !.found = item.status, !.version = v]]
    /\ UNCHANGED <<memory, queue>>

ReadVersion(p) ==
    LET c == versions[proc[p].version].content IN
    /\ proc[p].step = "choose"
    /\ c \notin {None, Wiped}
    /\ proc' = [proc EXCEPT ![p] = [Quiet EXCEPT !.op = "restore", !.step = "write",
                                                 !.found = proc[p].found, !.content = c]]
    /\ UNCHANGED <<memory, queue>>

\* The pending conflicts are settled: k is accepted, the others are rejected.
Settle(k) ==
    conflicts' = [n \in DOMAIN conflicts |->
                    IF conflicts[n].status = "pending"
                    THEN [conflicts[n] EXCEPT !.status = IF n = k THEN "accepted" ELSE "rejected"]
                    ELSE conflicts[n]]

RejectAll == Settle(0)

Forget(p) ==
    /\ proc[p].step = "write" /\ proc[p].op = "forget"
    /\ item' = [item EXCEPT !.status = "forgotten", !.content = Wiped]
    /\ versions' = [v \in 1..MaxVersion |->
                      IF versions[v].content = None THEN NoVersion
                      ELSE [content |-> Wiped, open |-> FALSE]]
    /\ RejectAll
    /\ Done(p)
    /\ UNCHANGED <<evidence, queue>>

\* Editing and restoring also activate the memory, whatever became of it
\* since it was read, and reject the conflicts only when the content changes.
Edit(p) ==
    /\ proc[p].step = "write" /\ proc[p].op \in {"edit", "restore"}
    /\ Write(proc[p].content, "active")
    /\ IF item.content = proc[p].content THEN UNCHANGED conflicts ELSE RejectAll
    /\ Done(p)
    /\ UNCHANGED <<evidence, queue>>

Accept(p) ==
    LET k == proc[p].conflict IN
    /\ proc[p].step = "write" /\ proc[p].op = "accept"
    /\ conflicts[k].status = "pending"
    /\ IF item.content = conflicts[k].content THEN UNCHANGED <<item, versions>>
       ELSE Write(conflicts[k].content, "active")
    /\ evidence' = {[e EXCEPT !.conflict = IF @ = k THEN 0 ELSE @] : e \in evidence}
    /\ Settle(k)
    /\ Done(p)
    /\ UNCHANGED queue

\* A statement of a call throws: a duplicate key, a conflict that is no
\* longer pending, a lost connection or a deadlock.
Throw(p) ==
    /\ proc[p].step \notin {"idle", "ended"}
    /\ proc' = [proc EXCEPT ![p] = Spent]
    /\ UNCHANGED <<memory, queue>>

UserCall(p) ==
    \/ \E c \in Content : Remember(p, c) \/ BeginEdit(p, c)
    \/ BeginForget(p)
    \/ \E v \in 1..MaxVersion : BeginRestore(p, v)
    \/ \E k \in DOMAIN conflicts : BeginAccept(p, k)
    \/ ReadVersion(p)
    \/ Forget(p) \/ Edit(p) \/ Accept(p)
    \/ Observe(p)
    \/ Throw(p)

----------------------------------------------------------------------------
(* Single statements guarded by the status, and the rest of the system. *)

\* The user confirms a candidate, or rates a conversation it was seen in.
Settled(status) ==
    /\ item.status = "candidate"
    /\ item' = [item EXCEPT !.status = status]
    /\ UNCHANGED <<versions, conflicts, evidence, queue, proc>>

Confirm == Settled("active")
Reject  == Settled("rejected")
PositiveFeedback == evidence # {} /\ Settled("active")
NegativeFeedback == evidence # {} /\ Settled("rejected")

RejectConflict(k) ==
    /\ conflicts[k].status = "pending"
    /\ conflicts' = [conflicts EXCEPT ![k].status = "rejected"]
    /\ UNCHANGED <<item, versions, evidence, queue, proc>>

ChangeMode ==
    /\ consent' = ~consent
    /\ UNCHANGED <<memory, job, working, proc, lost, crashes>>

\* The server restarts.  A job that was running for ten minutes by then is
\* put back; after a quicker restart it is not, until another one.
Restart(late) ==
    /\ lost + crashes < MaxFaults
    /\ crashes' = crashes + 1
    /\ proc' = [p \in Proc |-> IF p = Worker THEN Quiet
                               ELSE IF proc[p].step = "idle" THEN Quiet ELSE Spent]
    /\ working' = None
    /\ job' = [j \in Job |-> IF late /\ job[j].status = "running"
                             THEN [job[j] EXCEPT !.status = "pending"] ELSE job[j]]
    /\ UNCHANGED <<memory, consent, lost>>

Learning ==
    \/ \E j \in Job : Enqueue(j) \/ Claim(j) \/ LoseClaim(j)
    \/ AskModel \/ ModelAnswers \/ NextCandidate
    \/ FinishJob \/ LoseFinish \/ FailWork \/ FailJob \/ LoseFailure
    \/ Observe(Worker)

Next ==
    \/ Learning
    \/ \E p \in Call : UserCall(p)
    \/ Confirm \/ Reject \/ PositiveFeedback \/ NegativeFeedback
    \/ \E k \in DOMAIN conflicts : RejectConflict(k)
    \/ ChangeMode
    \/ \E late \in BOOLEAN : Restart(late)

Spec == Init /\ [][Next]_vars

----------------------------------------------------------------------------
\* The history explains the memory: while the memory is in use, the version
\* it is at says what it holds, and every earlier version has ended, whatever
\* calls, jobs and crashes came between the statements that wrote them.
VersionsTrackContent ==
    item.status \in Live =>
        /\ versions[item.version].content \in {None, item.content}
        /\ \A v \in 1..MaxVersion : versions[v].open => v = item.version

\* Nobody but the user makes a memory of one source permanent: the worker
\* activates a candidate only after two sources had shown it, retries of a
\* job, repeated answers of the model and several candidates of one answer
\* notwithstanding.  A session is one source; where none is known, each text
\* of each turn is.
AutomaticNeedsTwoSources ==
    [][(/\ item.status = "candidate" /\ item'.status = "active"
        /\ proc[Worker].step = "promote" /\ proc'[Worker] # proc[Worker])
         => Cardinality({SourceOf(e) : e \in {d \in evidence : d.conflict = 0}}) >= 2]_vars

\* A memory the user got rid of stays as it was left: neither its status nor
\* its content changes again, except by an explicit remember or by a step
\* that had read the memory while it was still there.  No later turn of a
\* conversation, retry of a job or answer of the model brings it back.
GoneStaysGone ==
    [][(item.status \in Gone /\ item' # item)
         => \E p \in Proc : /\ proc'[p] # proc[p]
                            /\ proc[p].op = "remember" \/ proc[p].found \in Live]_vars

\* The steps at which the worker learns from the turn of its job.
LearningSteps == {"model", "find", "insert", "created", "version", "update", "conflict",
                  "evidence", "count", "promote"}

\* A job is tried three times, and once more for each crash that put it back,
\* although the rows are settled by their ids alone.  A job that has ended
\* keeps nothing of its turn, and nothing is learned from it again when a lost
\* answer puts it back.  While no answer is lost a job that may be tried has
\* its turn; without a crash as well, one that runs has the worker.
JobsEnd ==
    \A j \in Job :
        /\ job[j].attempts <= 3 + crashes
        /\ job[j].status \in {"absent", "done", "skipped", "failed"} => ~job[j].payload
        /\ working = j /\ proc[Worker].step \in LearningSteps => job[j].payload
        /\ lost = 0 /\ job[j].status \in {"pending", "running"} => job[j].payload
        /\ lost = 0 /\ crashes = 0 /\ job[j].status = "running" => working = j

=============================================================================
