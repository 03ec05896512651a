-------------------------- MODULE CoopSessionProofs --------------------------
(* Theorems about CoopSession for any number of members and of calls.      *)
EXTENDS CoopSession, WellFoundedInduction, TLAPS

-----------------------------------------------------------------------------
(* Types                                                                   *)

Creation == [step : {"idle", "insert", "invite", "agree", "finish", "start", "ended"},
             next : 1..(N + 1)]
CallRow  == [kind : Answer \cup Review \cup {None}, member : Member,
             files : BOOLEAN, read : Results,
             step : {"idle", "checked", "running", "written", "ended"}]
Draft    == [step : {"none", "rows", "drafted"},
             rows : [Member -> [status : Statuses, result : Results]],
             files : [Member -> Call \cup {None}]]

\* The loop of the creation begins at the first member and stays at a member.
LoopInv ==
    /\ creation.step = "idle" => creation.next = 1
    /\ creation.step \in {"insert", "invite", "agree"} => creation.next \in Member

\* What the type invariant says, conjunct by conjunct, and the loop.
TypeInv ==
    /\ session \in {"none", "running", "published"} \cup Closed
    /\ request \in [Member -> Row]
    /\ log \in [Member -> Seq(Event)]
    /\ creation \in Creation
    /\ call \in [Call -> CallRow]
    /\ execution \in [Member -> {"none", "due", "timer"}]
    /\ draft \in Draft
    /\ faults \in 0..MaxFaults
    /\ LoopInv

LEMMA StatusNames ==
    /\ Statuses = {"absent", "pending", "approved", "running", "completed", "rejected", "failed",
                   "partial_success", "waiting_input"}
    /\ Row = [status : Statuses, result : Results, visible : BOOLEAN]
BY DEF Statuses, Active, Ended, Row, Results

LEMMA Rewritten ==
    ASSUME TypeInv, NEW m \in Member, NEW status \in Statuses, NEW result \in Results,
           Rewrite(m, status, result)
    PROVE  /\ request' \in [Member -> Row]
           /\ request'[m].status = status /\ request'[m].result = result
           /\ \A n \in Member \ {m} : request'[n] = request[n]
<1> DEFINE new == [status |-> status, result |-> result, visible |-> request[m].visible]
<1>1. new \in Row
  BY StatusNames DEF TypeInv
<1>2. request' = [request EXCEPT ![m] = new]
  BY DEF Rewrite
<1>3. new.status = status /\ new.result = result
  OBVIOUS
<1> HIDE DEF new
<1> QED
  BY <1>1, <1>2, <1>3 DEF TypeInv

LEMMA Recorded ==
    ASSUME TypeInv, NEW m \in Member, NEW event \in Event, Record(m, event)
    PROVE  /\ log' \in [Member -> Seq(Event)]
           /\ log'[m] = Append(log[m], event)
           /\ \A n \in Member \ {m} : log'[n] = log[n]
BY DEF Record, TypeInv

LEMMA PlainEvents ==
    \A type \in {"invited", "agreed", "rejected", "started", "submitted", "executed", "failed"} :
        Plain(type) \in Event
BY DEF Plain, Event

LEMMA CreationAt ==
    ASSUME creation \in Creation,
           NEW step \in {"idle", "insert", "invite", "agree", "finish", "start", "ended"}
    PROVE  /\ [creation EXCEPT !.step = step] \in Creation
           /\ [creation EXCEPT !.step = step].step = step
           /\ [creation EXCEPT !.step = step].next = creation.next
BY DEF Creation

LEMMA Constants ==
    /\ 1 \in Member /\ 1 \in 1..(N + 1)
    /\ IdleCall \in CallRow /\ EndedCall \in CallRow
    /\ NoRow \in Row /\ NoDraft \in Draft
<1>1. 1 \in Member /\ 1 \in 1..(N + 1)
  BY NAssumption DEF Member
<1>2. IdleCall \in CallRow
  BY <1>1 DEF IdleCall, CallRow, Results
<1>3. EndedCall \in CallRow
  BY <1>2 DEF EndedCall, CallRow
<1>4. NoRow \in Row
  BY StatusNames DEF NoRow, Results
<1>5. NoView \in [status : Statuses, result : Results]
  BY StatusNames DEF NoView, Results
<1>6. NoDraft \in Draft
  BY <1>5 DEF NoDraft, Draft
<1> QED
  BY <1>1, <1>2, <1>3, <1>4, <1>6

LEMMA TypeInitially == Init => TypeInv
<1>1. SUFFICES ASSUME Init PROVE TypeInv
  OBVIOUS
<1>2. request \in [Member -> Row] /\ log \in [Member -> Seq(Event)]
  BY <1>1, Constants DEF Init
<1>3. creation \in Creation /\ LoopInv
  BY <1>1, Constants DEF Init, Creation, LoopInv
<1>4. call \in [Call -> CallRow] /\ draft \in Draft
  BY <1>1, Constants DEF Init
<1>5. execution \in [Member -> {"none", "due", "timer"}]
  BY <1>1 DEF Init
<1> QED
  BY <1>1, <1>2, <1>3, <1>4, <1>5, FaultsAssumption DEF Init, TypeInv

LEMMA CreatingType ==
    ASSUME TypeInv, Creating
    PROVE  TypeInv'
<1>1. N \in Nat \ {0} /\ Member = 1..N /\ creation \in Creation
  BY NAssumption DEF Member, TypeInv
\* The member the loop is at, and what follows.
<1>2. ASSUME creation.step \in {"insert", "invite", "agree"}
      PROVE  creation.next \in Member /\ AfterMember(creation.next) \in Creation
  <2>1. creation.next \in 1..N
    BY <1>1, <1>2 DEF TypeInv, LoopInv
  <2>2. creation.next + 1 \in 1..(N + 1)
    BY <1>1, <2>1
  <2> QED
    BY <1>1, <2>1, <2>2 DEF AfterMember, Creation
<1>3. ASSUME creation.step \in {"insert", "invite", "agree"},
             creation' = AfterMember(creation.next)
      PROVE  LoopInv'
  <2>1. creation.next \in 1..N
    BY <1>1, <1>3 DEF TypeInv, LoopInv
  <2>2. AfterMember(creation.next).step = "insert" => creation.next + 1 \in 1..N
    BY <1>1, <2>1 DEF AfterMember
  <2> QED
    BY <1>1, <1>3, <2>1, <2>2 DEF AfterMember, LoopInv
<1>4. CASE CreateSession
  <2>1. creation' \in Creation /\ LoopInv'
    <3>1. creation.next = 1
      BY <1>4 DEF CreateSession, TypeInv, LoopInv
    <3> QED
      BY <1>1, <1>4, <3>1, Constants, CreationAt DEF CreateSession, LoopInv
  <2> QED
    BY <1>4, <2>1 DEF CreateSession, TypeInv
<1>5. CASE InsertRequest
  <2>1. Rewrite(creation.next, IF creation.next \in Automatic THEN "approved" ELSE "pending", None)
    BY <1>5 DEF InsertRequest
  <2>2. request' \in [Member -> Row]
    BY <1>2, <1>5, <2>1, Rewritten, StatusNames DEF InsertRequest, Results
  <2>3. creation' \in Creation /\ LoopInv'
    BY <1>1, <1>2, <1>5, CreationAt DEF InsertRequest, LoopInv
  <2> QED
    BY <1>5, <2>2, <2>3 DEF InsertRequest, TypeInv
<1>6. CASE LogInvited
  <2>1. log' \in [Member -> Seq(Event)]
    BY <1>2, <1>6, PlainEvents, Recorded DEF LogInvited
  <2>2. creation' \in Creation /\ LoopInv'
    <3>1. CASE creation.next \in Automatic
      BY <1>1, <1>2, <1>6, <3>1, CreationAt DEF LogInvited, LoopInv
    <3>2. CASE creation.next \notin Automatic
      BY <1>2, <1>3, <1>6, <3>2 DEF LogInvited
    <3> QED
      BY <3>1, <3>2
  <2> QED
    BY <1>6, <2>1, <2>2 DEF LogInvited, TypeInv
<1>7. CASE LogAutoAgreed
  <2>1. log' \in [Member -> Seq(Event)]
    BY <1>2, <1>7, Recorded, PlainEvents DEF LogAutoAgreed
  <2>2. creation' \in Creation /\ LoopInv'
    BY <1>2, <1>3, <1>7 DEF LogAutoAgreed
  <2> QED
    BY <1>7, <2>1, <2>2 DEF LogAutoAgreed, TypeInv
<1>8. CASE MarkRunning
  BY <1>1, <1>8, CreationAt DEF MarkRunning, TypeInv, LoopInv
<1>9. CASE StartExecutions
  <2>1. execution' \in [Member -> {"none", "due", "timer"}]
    BY <1>9 DEF StartExecutions, TypeInv
  <2> QED
    BY <1>1, <1>9, <2>1, CreationAt DEF StartExecutions, TypeInv, LoopInv
<1> QED
  BY <1>4, <1>5, <1>6, <1>7, <1>8, <1>9 DEF Creating

LEMMA AnsweringType ==
    ASSUME TypeInv, NEW c \in Call, Commit(c) \/ Refuse(c)
    PROVE  /\ call' \in [Call -> CallRow]
           /\ Commit(c) => request' \in [Member -> Row] /\ log' \in [Member -> Seq(Event)]
<1>1. PICK m \in Member : m = call[c].member /\ request[m].result \in Results
  BY StatusNames DEF TypeInv, CallRow
<1>2. call' \in [Call -> CallRow]
  <2>1. call' = [call EXCEPT ![c] = EndedCall]
    BY DEF Commit, Refuse
  <2> QED
    BY <2>1, Constants DEF TypeInv
\* A transaction writes the row and its event.
<1>3. ASSUME NEW status \in Statuses, NEW result \in Results, NEW event \in Event,
             Rewrite(m, status, result), Record(m, event)
      PROVE  request' \in [Member -> Row] /\ log' \in [Member -> Seq(Event)]
  BY <1>3, Rewritten, Recorded
<1>4. CASE Agree(c)
  <2>1. Rewrite(m, "approved", request[m].result) /\ Record(m, Plain("agreed"))
    BY <1>1, <1>4 DEF Agree
  <2>2. "approved" \in Statuses /\ Plain("agreed") \in Event
    BY StatusNames, PlainEvents
  <2> QED
    BY <1>1, <1>2, <1>3, <2>1, <2>2
<1>5. CASE Reject(c)
  <2>1. Rewrite(m, "rejected", request[m].result) /\ Record(m, Plain("rejected"))
    BY <1>1, <1>5 DEF Reject
  <2>2. "rejected" \in Statuses /\ Plain("rejected") \in Event
    BY StatusNames, PlainEvents
  <2> QED
    BY <1>1, <1>2, <1>3, <2>1, <2>2
<1>6. CASE Submit(c)
  <2>1. [type |-> "submitted", files |-> IF call[c].files THEN c ELSE None] \in Event
    BY DEF Event
  <2>2. "completed" \in Statuses /\ c \in Results
    BY StatusNames DEF Results
  <2>3. /\ Rewrite(m, "completed", c)
        /\ Record(m, [type |-> "submitted", files |-> IF call[c].files THEN c ELSE None])
    BY <1>1, <1>6 DEF Submit
  <2> QED
    BY <1>2, <1>3, <2>1, <2>2, <2>3
<1> QED
  BY <1>2, <1>4, <1>5, <1>6 DEF Commit

LEMMA ExecutingType ==
    ASSUME TypeInv, NEW m \in Member, Executing(m)
    PROVE  /\ request' \in [Member -> Row]
           /\ log' \in [Member -> Seq(Event)]
           /\ execution' \in [Member -> {"none", "due", "timer"}]
           /\ UNCHANGED <<session, creation, call, draft, faults>>
<1>1. request[m].result \in Results /\ Template \in Results
  BY StatusNames DEF TypeInv, Results
<1>2. CASE ClaimExecution(m)
  BY <1>1, <1>2, Rewritten, Recorded, PlainEvents, StatusNames DEF ClaimExecution, Mode, TypeInv
<1>3. CASE SkipExecution(m)
  BY <1>3 DEF SkipExecution, TypeInv
<1>4. CASE CompleteExecution(m)
  BY <1>1, <1>4, Rewritten, Recorded, PlainEvents, StatusNames DEF CompleteExecution, TypeInv
<1>5. CASE FailExecution(m)
  BY <1>1, <1>5, Rewritten, Recorded, PlainEvents, StatusNames DEF FailExecution, TypeInv
<1> QED
  BY <1>2, <1>3, <1>4, <1>5 DEF Executing

\* Publishing shows the rows and changes nothing else of them.
LEMMA Published ==
    ASSUME TypeInv, Publish
    PROVE  /\ request' \in [Member -> Row]
           /\ \A m \in Member : /\ request'[m].status = request[m].status
                                /\ request'[m].result = request[m].result
<1>1. ASSUME NEW m \in Member
      PROVE  /\ [request[m] EXCEPT !.visible = request[m].status # "absent"] \in Row
             /\ [request[m] EXCEPT !.visible = request[m].status # "absent"].status = request[m].status
             /\ [request[m] EXCEPT !.visible = request[m].status # "absent"].result = request[m].result
  BY DEF TypeInv, Row
<1>2. request' = [m \in Member |-> [request[m] EXCEPT !.visible = request[m].status # "absent"]]
  BY DEF Publish
<1> QED
  BY <1>1, <1>2

-----------------------------------------------------------------------------
(* A request ends once                                                     *)

EndingTypes == {"rejected", "failed", "submitted", "executed"}

LEMMA EndingsDef ==
    \A m : Endings(m) = {i \in DOMAIN log[m] : log[m][i].type \in EndingTypes}
BY DEF Endings, EndingTypes

\* A set of positions of a sequence has a last one.
LEMMA LastPosition ==
    ASSUME NEW n \in Nat, NEW T \in SUBSET (1..n), T # {}
    PROVE  Max(T) \in T
<1> DEFINE Below == {pair \in Nat \X Nat : pair[1] < pair[2]}
<1> DEFINE FromEnd == {n - i : i \in T}
<1>1. IsWellFoundedOn(Below, Nat)
  BY NatLessThanWellFounded DEF OpToRel
<1>2. \A i \in T : n - i \in Nat
  OBVIOUS
<1>3. FromEnd \subseteq Nat
  BY <1>2
<1>4. PICK k : k \in T
  OBVIOUS
<1>5. n - k \in FromEnd
  BY <1>4
<1>6. PICK d \in FromEnd : \A e \in FromEnd : ~(<<e, d>> \in Below)
  <2> HIDE DEF FromEnd, Below
  <2> QED
    BY <1>1, <1>3, <1>5, WFMin
<1>7. PICK i \in T : d = n - i
  OBVIOUS
<1>8. ASSUME NEW j \in T PROVE i >= j
  <2>1. n - j \in FromEnd /\ n - j \in Nat /\ d \in Nat
    BY <1>2, <1>3
  <2>2. ~(n - j < d)
    BY <1>6, <2>1
  <2> QED
    BY <1>7, <2>1, <2>2
<1> QED
  BY <1>8 DEF Max

\* The last submission that came with files.
LEMMA FilesFound ==
    ASSUME TypeInv, NEW m \in Member
    PROVE  /\ FilesOf(m) \in Call \cup {None}
           /\ FilesOf(m) # None =>
                \E i \in DOMAIN log[m] : log[m][i].type = "submitted" /\ log[m][i].files = FilesOf(m)
<1> DEFINE with == {i \in DOMAIN log[m] : log[m][i].type = "submitted" /\ log[m][i].files # None}
<1>1. CASE with = {}
  BY <1>1 DEF FilesOf
<1>2. CASE with # {}
  <2>1. log[m] \in Seq(Event)
    BY DEF TypeInv
  <2>2. Len(log[m]) \in Nat /\ with \in SUBSET (1..Len(log[m]))
    BY <2>1
  <2>3. PICK i \in with : i = Max(with)
    <3> HIDE DEF with
    <3> QED
      BY <1>2, <2>2, LastPosition
  <2>4. FilesOf(m) = log[m][i].files
    BY <1>2, <2>3 DEF FilesOf
  <2>5. i \in 1..Len(log[m])
    BY <2>2, <2>3
  <2>6. log[m][i] \in Event
    BY <2>1, <2>5
  <2> QED
    BY <2>3, <2>4, <2>6 DEF Event
<1> QED
  BY <1>1, <1>2

\* What the interface for collaborations writes.
LEMMA WritesRow ==
    ASSUME TypeInv, NEW c \in Call, call[c].kind \in Review, NEW write \in Writes(c)
    PROVE  write[1] \in Statuses \ {"absent"} /\ write[2] \in Results
<1>1. PICK m \in Member, now \in Results, read \in Results :
        m = call[c].member /\ now = request[m].result /\ read = call[c].read
  BY StatusNames DEF TypeInv, CallRow
<1>2. c \in Results /\ None \in Results
  BY DEF Results
<1>3. Writes(c) \subseteq (Statuses \ {"absent"}) \X Results
  BY <1>1, <1>2, StatusNames DEF Writes, Review
<1> QED
  BY <1>3

\* Such a write, or the end of the executor.
LEMMA OverwriteType ==
    ASSUME TypeInv, NEW c \in Call, Overwrite(c) \/ FailRun(c)
    PROVE  \E m \in Member : \E status \in Statuses \ {"absent"}, result \in Results :
              /\ m = call[c].member
              /\ Rewrite(m, status, result)
              /\ \E step \in {"running", "written"} : call' = [call EXCEPT ![c].step = step]
              /\ call[c].step \in {"checked", "running"}
              /\ UNCHANGED <<session, log, creation, execution, draft, faults>>
<1>1. PICK m \in Member : m = call[c].member /\ request[m].result \in Results
  BY StatusNames DEF TypeInv, CallRow
<1>2. CASE Overwrite(c)
  <2>1. PICK write \in Writes(c) : Rewrite(m, write[1], write[2])
    BY <1>1, <1>2 DEF Overwrite
  <2>2. write[1] \in Statuses \ {"absent"} /\ write[2] \in Results
    BY <1>2, WritesRow DEF Overwrite
  <2> QED
    BY <1>1, <1>2, <2>1, <2>2 DEF Overwrite
<1>3. CASE FailRun(c)
  <2>1. PICK result \in {Retired, request[m].result} : Rewrite(m, "failed", result)
    BY <1>1, <1>3 DEF FailRun
  <2>2. "failed" \in Statuses \ {"absent"} /\ result \in Results
    BY <1>1, <2>1, StatusNames DEF Results
  <2> QED
    BY <1>1, <1>3, <2>1, <2>2 DEF FailRun
<1> QED
  BY <1>2, <1>3

\* Another event is added at the end.
LEMMA EndingsAppended ==
    ASSUME TypeInv, NEW m \in Member, NEW event \in Event, Record(m, event)
    PROVE  /\ DOMAIN log'[m] = DOMAIN log[m] \cup {Len(log[m]) + 1}
           /\ Len(log[m]) + 1 \notin DOMAIN log[m]
           /\ log'[m][Len(log[m]) + 1] = event
           /\ \A i \in DOMAIN log[m] : log'[m][i] = log[m][i]
           /\ event.type \notin EndingTypes => Endings(m)' = Endings(m)
           /\ event.type \in EndingTypes => Endings(m)' = Endings(m) \cup {Len(log[m]) + 1}
           /\ \A n \in Member \ {m} : Endings(n)' = Endings(n) /\ log'[n] = log[n]
<1>1. log[m] \in Seq(Event) /\ log'[m] = Append(log[m], event)
      /\ \A n \in Member \ {m} : log'[n] = log[n]
  BY Recorded DEF TypeInv
<1>2. /\ Len(log[m]) \in Nat /\ DOMAIN log[m] = 1..Len(log[m])
      /\ DOMAIN log'[m] = 1..(Len(log[m]) + 1)
      /\ log'[m][Len(log[m]) + 1] = event
      /\ \A i \in 1..Len(log[m]) : log'[m][i] = log[m][i]
  BY <1>1
<1>3. /\ DOMAIN log'[m] = DOMAIN log[m] \cup {Len(log[m]) + 1}
      /\ Len(log[m]) + 1 \notin DOMAIN log[m]
  BY <1>2
<1>4. /\ event.type \notin EndingTypes => Endings(m)' = Endings(m)
      /\ event.type \in EndingTypes => Endings(m)' = Endings(m) \cup {Len(log[m]) + 1}
  BY <1>2, <1>3 DEF Endings, EndingTypes
<1>5. \A n \in Member \ {m} : Endings(n)' = Endings(n)
  BY <1>1 DEF Endings
<1> QED
  BY <1>1, <1>2, <1>3, <1>4, <1>5

LEMMA TypeStep == TypeInv /\ [Next]_vars => TypeInv'
<1> SUFFICES ASSUME TypeInv, [Next]_vars PROVE TypeInv'
  OBVIOUS
<1>1. CASE Creating
  BY <1>1, CreatingType
<1>2. ASSUME NEW c \in Call, NEW m \in Member, NEW kind \in Answer \cup Review,
             CheckCall(c, m, kind)
      PROVE  TypeInv'
  <2>0. request[m].result \in Results /\ None \in Results
    BY StatusNames DEF TypeInv, Results
  <2>1. PICK files \in BOOLEAN, read \in Results :
          call' = [call EXCEPT ![c] =
                     [kind |-> kind, member |-> m, files |-> files, step |-> "checked",
                      read |-> read]]
    BY <1>2, <2>0 DEF CheckCall
  <2>2. call' \in [Call -> CallRow]
    BY <2>1 DEF CallRow, TypeInv
  <2> QED
    BY <1>2, <2>2 DEF CheckCall, TypeInv, LoopInv
<1>3. ASSUME NEW c \in Call, Commit(c) \/ Refuse(c)
      PROVE  TypeInv'
  <2>1. /\ call' \in [Call -> CallRow]
        /\ Commit(c) => request' \in [Member -> Row] /\ log' \in [Member -> Seq(Event)]
    BY <1>3, AnsweringType
  <2> QED
    BY <1>3, <2>1 DEF Commit, Refuse, TypeInv, LoopInv
<1>4. ASSUME NEW m \in Member, Executing(m)
      PROVE  TypeInv'
  BY <1>4, ExecutingType DEF TypeInv, LoopInv
<1>5. ASSUME NEW m \in Member, LoseExecution(m)
      PROVE  TypeInv'
  <2>1. faults' \in 0..MaxFaults
    BY <1>5, FaultsAssumption DEF LoseExecution, TypeInv
  <2> QED
    BY <1>5, <2>1 DEF LoseExecution, TypeInv, LoopInv
<1>6. CASE ReadRequests
  <2>1. [m \in Member |-> View(m)] \in [Member -> [status : Statuses, result : Results]]
    BY StatusNames DEF View, TypeInv
  <2>2. NoDraft.files \in [Member -> Call \cup {None}]
    BY DEF NoDraft
  <2>3. draft' \in Draft
    BY <1>6, <2>1, <2>2 DEF ReadRequests, Draft
  <2> QED
    BY <1>6, <2>3 DEF ReadRequests, TypeInv, LoopInv
<1>7. CASE Consolidate
  <2>1. PICK found \in BOOLEAN :
          draft' = IF Ready(draft.rows)
                   THEN [step |-> "drafted", rows |-> draft.rows,
                         files |-> [m \in Member |->
                                      IF found /\ draft.rows[m].status # "absent"
                                      THEN FilesOf(m) ELSE None]]
                   ELSE NoDraft
    BY <1>7 DEF Consolidate
  <2>2. \A m \in Member : FilesOf(m) \in Call \cup {None}
    BY FilesFound
  <2>3. [m \in Member |-> IF found /\ draft.rows[m].status # "absent" THEN FilesOf(m) ELSE None]
          \in [Member -> Call \cup {None}]
    BY <2>2
  <2>4. draft.rows \in [Member -> [status : Statuses, result : Results]]
    BY DEF TypeInv, Draft
  <2>5. draft' \in Draft
    BY <2>1, <2>3, <2>4, Constants DEF Draft
  <2> QED
    BY <1>7, <2>5 DEF Consolidate, TypeInv, LoopInv
<1>8. CASE Publish
  BY <1>8, Published DEF Publish, TypeInv, LoopInv
<1>9. CASE Close
  BY <1>9 DEF Close, TypeInv, LoopInv
<1>10. CASE Crash
  <2>1. creation' \in Creation /\ LoopInv'
    BY <1>10, CreationAt DEF Crash, TypeInv, LoopInv
  <2>3. call' \in [Call -> CallRow]
    <3>1. ASSUME NEW c \in Call
          PROVE  call[c] \in CallRow /\ [call[c] EXCEPT !.step = "written"] \in CallRow
      BY DEF TypeInv, CallRow
    <3> QED
      BY <1>10, <3>1, Constants DEF Crash
  <2>5. faults' \in 0..MaxFaults
    BY <1>10, FaultsAssumption DEF Crash, TypeInv
  <2> QED
    BY <1>10, <2>1, <2>3, <2>5, Constants DEF Crash, TypeInv
<1>11. CASE UNCHANGED vars
  BY <1>11 DEF vars, TypeInv, LoopInv
<1>12. ASSUME NEW c \in Call, Overwrite(c) \/ FailRun(c)
       PROVE  TypeInv'
  <2>1. PICK m \in Member, status \in Statuses, result \in Results :
          /\ Rewrite(m, status, result)
          /\ \E step \in {"running", "written"} : call' = [call EXCEPT ![c].step = step]
          /\ UNCHANGED <<session, log, creation, execution, draft, faults>>
    BY <1>12, OverwriteType
  <2>2. request' \in [Member -> Row]
    BY <2>1, Rewritten
  <2>3. call' \in [Call -> CallRow]
    <3>1. PICK step \in {"running", "written"} : call' = [call EXCEPT ![c].step = step]
      BY <2>1
    <3>2. [call[c] EXCEPT !.step = step] \in CallRow
      BY DEF TypeInv, CallRow
    <3>3. call' = [call EXCEPT ![c] = [call[c] EXCEPT !.step = step]]
      BY <3>1
    <3> QED
      BY <3>2, <3>3 DEF TypeInv
  <2> QED
    BY <2>1, <2>2, <2>3 DEF TypeInv, LoopInv
<1> QED
  BY <1>1, <1>2, <1>3, <1>4, <1>5, <1>6, <1>7, <1>8, <1>9, <1>10, <1>11, <1>12
     DEF Next, Answering

-----------------------------------------------------------------------------
(* What a step does to a member's request                                  *)

\* The members the creation has not come to have no request.
AbsentInv ==
    \A m \in Member :
        \/ creation.step \in {"idle", "insert"} /\ m >= creation.next
        \/ creation.step \in {"invite", "agree"} /\ m > creation.next
        => request[m].status = "absent"

\* A call that has read a request has found one.
CalledInv ==
    \A c \in Call : call[c].step \in {"checked", "running", "written"}
                    => request[call[c].member].status # "absent"

\* Nothing is recorded that ends the request, and a request that has ended
\* keeps its row.
Untouched(m) ==
    /\ request'[m].status \in Ended <=> request[m].status \in Ended
    /\ request[m].status \in Ended =>
          request'[m].status = request[m].status /\ request'[m].result = request[m].result
    /\ DOMAIN log[m] \subseteq DOMAIN log'[m]
    /\ \A i \in DOMAIN log[m] : log'[m][i] = log[m][i]
    /\ Endings(m)' = Endings(m)

\* The request ends, with one event that tells how.
EndsNow(m) ==
    /\ request[m].status \notin Ended /\ request'[m].status \in Ended
    /\ DOMAIN log'[m] = DOMAIN log[m] \cup {Len(log[m]) + 1}
    /\ Len(log[m]) + 1 \notin DOMAIN log[m]
    /\ \A i \in DOMAIN log[m] : log'[m][i] = log[m][i]
    /\ Endings(m)' = Endings(m) \cup {Len(log[m]) + 1}
    /\ LET event == log'[m][Len(log[m]) + 1]
       IN  /\ event.type \in EndingOf[request'[m].status]
           /\ event.type = "submitted" /\ event.files # None => event.files = request'[m].result

LEMMA Quietly ==
    ASSUME NEW m \in Member,
           request'[m].status = request[m].status, request'[m].result = request[m].result,
           log'[m] = log[m]
    PROVE  Untouched(m)
BY DEF Untouched, Endings

\* A row and an event that leave the request open.
LEMMA GoesOn ==
    ASSUME TypeInv, NEW m \in Member, NEW status \in Active, NEW result \in Results,
           NEW type \in {"agreed", "started"}, request[m].status \in Active,
           Rewrite(m, status, result), Record(m, Plain(type))
    PROVE  \A n \in Member : Untouched(n)
<1>1. status \in Statuses /\ status \notin Ended /\ request[m].status \notin Ended
  BY DEF Statuses, Active, Ended
<1>2. Plain(type) \in Event /\ Plain(type).type \notin EndingTypes
  BY PlainEvents DEF Plain, EndingTypes
<1>3. /\ request'[m].status = status
      /\ \A n \in Member \ {m} : request'[n] = request[n]
  BY <1>1, Rewritten
<1>4. /\ DOMAIN log'[m] = DOMAIN log[m] \cup {Len(log[m]) + 1}
      /\ \A i \in DOMAIN log[m] : log'[m][i] = log[m][i]
      /\ Endings(m)' = Endings(m)
      /\ \A n \in Member \ {m} : Endings(n)' = Endings(n) /\ log'[n] = log[n]
  BY <1>2, EndingsAppended
<1>5. Untouched(m)
  BY <1>1, <1>3, <1>4 DEF Untouched
<1>6. \A n \in Member \ {m} : Untouched(n)
  BY <1>3, <1>4, Quietly
<1> QED
  BY <1>5, <1>6

\* A row and an event that end it.
LEMMA EndsWith ==
    ASSUME TypeInv, NEW m \in Member, NEW status \in Ended, NEW result \in Results,
           NEW event \in Event, request[m].status \in Active,
           event.type \in EndingOf[status],
           event.type = "submitted" /\ event.files # None => event.files = result,
           Rewrite(m, status, result), Record(m, event)
    PROVE  EndsNow(m) /\ \A n \in Member \ {m} : Untouched(n)
<1>1. status \in Statuses /\ request[m].status \notin Ended
  BY DEF Statuses, Active, Ended
<1>2. event.type \in EndingTypes
  BY DEF EndingOf, EndingTypes, Ended
<1>3. /\ request'[m].status = status /\ request'[m].result = result
      /\ \A n \in Member \ {m} : request'[n] = request[n]
  BY <1>1, Rewritten
<1>4. /\ DOMAIN log'[m] = DOMAIN log[m] \cup {Len(log[m]) + 1}
      /\ Len(log[m]) + 1 \notin DOMAIN log[m]
      /\ log'[m][Len(log[m]) + 1] = event
      /\ \A i \in DOMAIN log[m] : log'[m][i] = log[m][i]
      /\ Endings(m)' = Endings(m) \cup {Len(log[m]) + 1}
      /\ \A n \in Member \ {m} : Endings(n)' = Endings(n) /\ log'[n] = log[n]
  BY <1>2, EndingsAppended
<1>5. EndsNow(m)
  BY <1>1, <1>3, <1>4 DEF EndsNow
<1>6. \A n \in Member \ {m} : Untouched(n)
  BY <1>3, <1>4, Quietly
<1> QED
  BY <1>5, <1>6

LEMMA CreatingMoves ==
    ASSUME TypeInv, AbsentInv, Creating
    PROVE  AbsentInv' /\ \A m \in Member : Untouched(m)
<1>1. N \in Nat \ {0} /\ Member = 1..N /\ creation \in Creation
  BY NAssumption DEF Member, TypeInv
<1>2. CASE CreateSession \/ MarkRunning \/ StartExecutions
  <2>1. request' = request /\ log' = log
    BY <1>2 DEF CreateSession, MarkRunning, StartExecutions
  <2>2. AbsentInv'
    BY <1>1, <1>2, <2>1, CreationAt DEF CreateSession, MarkRunning, StartExecutions, AbsentInv
  <2> QED
    BY <2>1, <2>2, Quietly
<1>3. CASE InsertRequest
  <2>1. PICK k \in Member : k = creation.next
    BY <1>3 DEF InsertRequest, TypeInv, LoopInv
  <2>2. Rewrite(k, IF k \in Automatic THEN "approved" ELSE "pending", None)
    BY <1>3, <2>1 DEF InsertRequest
  <2>3. PICK status \in Active : Rewrite(k, status, None)
    BY <2>2 DEF Active
  <2>4. /\ request'[k].status = status
        /\ \A n \in Member \ {k} : request'[n] = request[n]
    <3>1. status \in Statuses /\ None \in Results
      BY DEF Statuses, Results
    <3> QED
      BY <2>3, <3>1, Rewritten
  <2>5. request[k].status = "absent" /\ log' = log
    BY <1>1, <1>3, <2>1 DEF InsertRequest, AbsentInv
  <2>6. creation'.step = "invite" /\ creation'.next = k
    BY <1>1, <1>3, <2>1, CreationAt DEF InsertRequest
  <2>7. AbsentInv'
    BY <1>1, <1>3, <2>1, <2>4, <2>6 DEF AbsentInv, InsertRequest
  <2>8. Untouched(k)
    <3>1. request[k].status \notin Ended /\ request'[k].status \notin Ended
      BY <2>4, <2>5 DEF Ended, Active
    <3> QED
      BY <2>5, <3>1 DEF Untouched, Endings
  <2> QED
    BY <2>4, <2>5, <2>7, <2>8, Quietly
<1>4. CASE LogInvited \/ LogAutoAgreed
  <2>1. PICK k \in Member : k = creation.next
    BY <1>4 DEF LogInvited, LogAutoAgreed, TypeInv, LoopInv
  <2>2. PICK type \in {"invited", "agreed"} : Record(k, Plain(type))
    BY <1>4, <2>1 DEF LogInvited, LogAutoAgreed
  <2>3. Plain(type) \in Event /\ Plain(type).type \notin EndingTypes
    BY PlainEvents DEF Plain, EndingTypes
  <2>4. /\ DOMAIN log'[k] = DOMAIN log[k] \cup {Len(log[k]) + 1}
        /\ \A i \in DOMAIN log[k] : log'[k][i] = log[k][i]
        /\ Endings(k)' = Endings(k)
        /\ \A n \in Member \ {k} : Endings(n)' = Endings(n) /\ log'[n] = log[n]
    BY <2>2, <2>3, EndingsAppended
  <2>5. request' = request
    BY <1>4 DEF LogInvited, LogAutoAgreed
  <2>6. Untouched(k) /\ \A n \in Member \ {k} : Untouched(n)
    BY <2>4, <2>5, Quietly DEF Untouched
  <2>7. \/ creation'.step = "agree" /\ creation'.next = k
        \/ creation'.step \in {"insert", "finish", "ended"} /\ creation'.next = k + 1
    <3>1. CASE creation' = [creation EXCEPT !.step = "agree"]
      BY <1>1, <2>1, <3>1, CreationAt
    <3>2. CASE creation' = AfterMember(creation.next)
      BY <2>1, <3>2 DEF AfterMember
    <3> QED
      BY <1>4, <3>1, <3>2 DEF LogInvited, LogAutoAgreed
  <2>8. AbsentInv'
    BY <1>1, <1>4, <2>1, <2>5, <2>7 DEF AbsentInv, LogInvited, LogAutoAgreed
  <2> QED
    BY <2>6, <2>8
<1> QED
  BY <1>2, <1>3, <1>4 DEF Creating

\* The interface for collaborations keeps the rows it has written, and a step
\* adds at most one of them.
LEMMA OverwrittenMoves ==
    ASSUME TypeInv, [Next]_vars
    PROVE  \/ Overwritten' = Overwritten /\ ~\E c \in Call : Overwrite(c)
           \/ \E c \in Call : /\ Overwrite(c)
                              /\ Overwritten' = Overwritten \cup {call[c].member}
<1>0. call \in [Call -> CallRow]
  BY DEF TypeInv
<1> DEFINE At(d) == call[d].step \in {"running", "written"}
<1>1. Overwritten = {call[d].member : d \in {e \in Call : At(e)}}
  BY DEF Overwritten
<1>2. ASSUME \A d \in Call : At(d)' = At(d) /\ (At(d) => call'[d].member = call[d].member)
      PROVE  Overwritten' = Overwritten
  BY <1>2 DEF Overwritten
<1>3. ASSUME NEW c \in Call, NEW row, ~At(c), row.step \notin {"running", "written"},
             call' = [call EXCEPT ![c] = row]
      PROVE  Overwritten' = Overwritten
  BY <1>0, <1>2, <1>3
<1>4. ASSUME NEW c \in Call, Commit(c) \/ Refuse(c) PROVE Overwritten' = Overwritten
  BY <1>3, <1>4 DEF Commit, Refuse, EndedCall, IdleCall
<1>5. ASSUME NEW c \in Call, NEW m \in Member, NEW kind \in Answer \cup Review, CheckCall(c, m, kind)
      PROVE  Overwritten' = Overwritten
  BY <1>3, <1>5 DEF CheckCall
<1>6. ASSUME NEW c \in Call, FailRun(c) PROVE Overwritten' = Overwritten
  <2>1. call' = [call EXCEPT ![c].step = "written"] /\ At(c)
    BY <1>6 DEF FailRun
  <2>2. \A d \in Call : At(d)' = At(d) /\ call'[d].member = call[d].member
    BY <1>0, <2>1 DEF CallRow
  <2> QED
    BY <1>2, <2>2
<1>7. ASSUME Crash PROVE Overwritten' = Overwritten
  <2>1. \A d \in Call : At(d)' = At(d) /\ (At(d) => call'[d].member = call[d].member)
    BY <1>0, <1>7 DEF Crash, EndedCall, IdleCall, CallRow
  <2> QED
    BY <1>2, <2>1
<1>8. ASSUME NEW c \in Call, Overwrite(c)
      PROVE  Overwritten' = Overwritten \cup {call[c].member}
  <2>1. PICK step \in {"running", "written"} : call' = [call EXCEPT ![c].step = step]
    BY <1>8 DEF Overwrite
  <2>2. /\ \A d \in Call : call'[d].member = call[d].member
        /\ \A d \in Call \ {c} : At(d)' = At(d)
        /\ At(c)'
    BY <1>0, <2>1 DEF CallRow
  <2> QED
    BY <2>2 DEF Overwritten
<1>9. ASSUME call' = call PROVE Overwritten' = Overwritten
  BY <1>9 DEF Overwritten
<1>10. \/ call' = call \/ Crash
       \/ \E c \in Call : Commit(c) \/ Refuse(c) \/ FailRun(c) \/ Overwrite(c)
       \/ \E c \in Call, m \in Member, kind \in Answer \cup Review : CheckCall(c, m, kind)
  BY ExecutingType
     DEF Next, Creating, CreateSession, InsertRequest, LogInvited, LogAutoAgreed, MarkRunning,
         StartExecutions, Answering, LoseExecution, ReadRequests, Consolidate, Publish, Close, vars
<1>11. CASE \E c \in Call : Overwrite(c)
  BY <1>8, <1>11
<1>12. CASE ~\E c \in Call : Overwrite(c)
  BY <1>4, <1>5, <1>6, <1>7, <1>9, <1>10, <1>12
<1> QED
  BY <1>11, <1>12

LEMMA StepMoves ==
    ASSUME TypeInv, AbsentInv, CalledInv, [Next]_vars
    PROVE  /\ AbsentInv'
           /\ Overwritten \subseteq Overwritten'
           /\ \A m \in Member : Untouched(m) \/ EndsNow(m) \/ m \in Overwritten'
<1>0. /\ Overwritten \subseteq Overwritten'
      /\ \A c \in Call : Overwrite(c) => call[c].member \in Overwritten'
  <2>1. ASSUME NEW c \in Call, NEW d \in Call, Overwrite(c), Overwrite(d) PROVE c = d
    <3>1. PICK step \in {"running", "written"}, other \in {"running", "written"} :
            call' = [call EXCEPT ![c].step = step] /\ call' = [call EXCEPT ![d].step = other]
      BY <2>1 DEF Overwrite
    <3>2. call \in [Call -> CallRow] /\ call[d].step = "checked"
      BY <2>1 DEF Overwrite, TypeInv
    <3> QED
      BY <3>1, <3>2 DEF CallRow
  <2> QED
    BY <2>1, OverwrittenMoves
<1> SUFFICES AbsentInv' /\ \A m \in Member : Untouched(m) \/ EndsNow(m) \/ m \in Overwritten'
  BY <1>0
<1>1. CASE Creating
  BY <1>1, CreatingMoves
\* Outside of the creation nothing brings back the absence of a request.
<1>2. ASSUME creation' = creation,
             \A m \in Member : request[m].status = "absent" => request'[m].status = "absent"
      PROVE  AbsentInv'
  BY <1>2 DEF AbsentInv
<1>3. ASSUME NEW m \in Member, request[m].status \in Active,
             \A n \in Member \ {m} : request'[n] = request[n]
      PROVE  \A n \in Member : request[n].status = "absent" => request'[n].status = "absent"
  BY <1>3 DEF Active
<1>4. ASSUME NEW c \in Call, Commit(c)
      PROVE  AbsentInv' /\ \A m \in Member : Untouched(m) \/ EndsNow(m)
  <2>1. PICK m \in Member : m = call[c].member /\ request[m].result \in Results
    BY StatusNames DEF TypeInv, CallRow
  <2>2. request[m].status \in Active /\ creation' = creation
    BY <1>4, <2>1 DEF Commit, StillOpen, OpenTo, Active, Answer
  <2>3. \A n \in Member \ {m} : request'[n] = request[n]
    <3>1. PICK status, result : Rewrite(m, status, result)
      BY <1>4, <2>1 DEF Commit, Agree, Reject, Submit
    <3> QED
      BY <3>1 DEF Rewrite, TypeInv
  <2>4. AbsentInv'
    BY <1>2, <1>3, <2>2, <2>3
  <2>5. CASE Agree(c)
    <3>1. Rewrite(m, "approved", request[m].result) /\ Record(m, Plain("agreed"))
      BY <2>1, <2>5 DEF Agree
    <3>2. "approved" \in Active
      BY DEF Active
    <3> QED
      BY <2>1, <2>2, <2>4, <3>1, <3>2, GoesOn
  <2>6. CASE Reject(c)
    <3>1. Rewrite(m, "rejected", request[m].result) /\ Record(m, Plain("rejected"))
      BY <2>1, <2>6 DEF Reject
    <3>2. /\ "rejected" \in Ended /\ Plain("rejected") \in Event
          /\ Plain("rejected").type = "rejected"
          /\ Plain("rejected").type \in EndingOf["rejected"]
      BY PlainEvents DEF Ended, Plain, EndingOf
    <3> QED
      BY <2>1, <2>2, <2>4, <3>1, <3>2, EndsWith
  <2>7. CASE Submit(c)
    <3> DEFINE event == [type |-> "submitted", files |-> IF call[c].files THEN c ELSE None]
    <3>1. Rewrite(m, "completed", c) /\ Record(m, event)
      BY <2>1, <2>7 DEF Submit
    <3>2. /\ "completed" \in Ended /\ event \in Event /\ c \in Results
          /\ event.type \in EndingOf["completed"]
          /\ event.files # None => event.files = c
      BY DEF Ended, EndingOf, Event, Results
    <3> HIDE DEF event
    <3> QED
      BY <2>1, <2>2, <2>4, <3>1, <3>2, EndsWith
  <2> QED
    BY <1>4, <2>5, <2>6, <2>7 DEF Commit
<1>5. ASSUME NEW m \in Member, Executing(m)
      PROVE  AbsentInv' /\ \A n \in Member : Untouched(n) \/ EndsNow(n)
  <2>1. /\ creation' = creation
        /\ request[m].result \in Results /\ Template \in Results
    BY <1>5, ExecutingType, StatusNames DEF TypeInv, Results
  <2>2. CASE SkipExecution(m)
    <3>1. request' = request /\ log' = log
      BY <2>2 DEF SkipExecution
    <3> QED
      BY <1>2, <2>1, <3>1, Quietly
  <2>3. CASE ~SkipExecution(m)
    <3>1. request[m].status \in Active
      BY <1>5, <2>3 DEF Executing, ClaimExecution, CompleteExecution, FailExecution, Active
    <3>2. PICK status, result : Rewrite(m, status, result)
      BY <1>5, <2>3 DEF Executing, ClaimExecution, CompleteExecution, FailExecution
    <3>3. \A n \in Member \ {m} : request'[n] = request[n]
      BY <3>2 DEF Rewrite, TypeInv
    <3>4. AbsentInv'
      BY <1>2, <1>3, <2>1, <3>1, <3>3
    <3>5. CASE ClaimExecution(m)
      <4>1. Rewrite(m, "running", request[m].result) /\ Record(m, Plain("started"))
        BY <3>5 DEF ClaimExecution
      <4>2. "running" \in Active
        BY DEF Active
      <4> QED
        BY <2>1, <3>1, <3>4, <4>1, <4>2, GoesOn
    <3>6. CASE CompleteExecution(m)
      <4>1. Rewrite(m, "completed", Template) /\ Record(m, Plain("executed"))
        BY <3>6 DEF CompleteExecution
      <4>2. /\ "completed" \in Ended /\ Plain("executed") \in Event
            /\ Plain("executed").type = "executed"
            /\ Plain("executed").type \in EndingOf["completed"]
        BY PlainEvents DEF Ended, Plain, EndingOf
      <4> QED
        BY <2>1, <3>1, <3>4, <4>1, <4>2, EndsWith
    <3>7. CASE FailExecution(m)
      <4>1. Rewrite(m, "failed", request[m].result) /\ Record(m, Plain("failed"))
        BY <3>7 DEF FailExecution
      <4>2. /\ "failed" \in Ended /\ Plain("failed") \in Event
            /\ Plain("failed").type = "failed"
            /\ Plain("failed").type \in EndingOf["failed"]
        BY PlainEvents DEF Ended, Plain, EndingOf
      <4> QED
        BY <2>1, <3>1, <3>4, <4>1, <4>2, EndsWith
    <3> QED
      BY <1>5, <2>3, <3>5, <3>6, <3>7 DEF Executing
  <2> QED
    BY <2>2, <2>3
<1>6. CASE Publish
  <2>1. creation' = creation /\ log' = log
    BY <1>6 DEF Publish
  <2> QED
    BY <1>2, <1>6, <2>1, Published, Quietly
<1>7. CASE Crash
  <2>1. request' = request /\ log' = log
    BY <1>7 DEF Crash
  <2>2. AbsentInv'
    <3>1. creation \in Creation
      BY DEF TypeInv
    <3>2. creation' = creation \/ creation'.step = "ended"
      <4>1. creation.step = "idle" => [creation EXCEPT !.step = "idle"] = creation
        BY <3>1 DEF Creation
      <4>2. creation' = [creation EXCEPT !.step = IF creation.step = "idle" THEN "idle" ELSE "ended"]
        BY <1>7 DEF Crash
      <4> QED
        BY <3>1, <4>1, <4>2, CreationAt
    <3> QED
      BY <2>1, <3>2 DEF AbsentInv
  <2> QED
    BY <2>1, <2>2, Quietly
<1>8. CASE UNCHANGED <<request, log, creation>>
  BY <1>2, <1>8, Quietly
<1>9. \/ UNCHANGED <<request, log, creation>>
      \/ Creating \/ Publish \/ Crash
      \/ \E c \in Call : Commit(c) \/ Overwrite(c) \/ FailRun(c)
      \/ \E m \in Member : Executing(m)
  BY DEF Next, Answering, CheckCall, Refuse, LoseExecution, ReadRequests, Consolidate, Close, vars
<1>10. ASSUME NEW c \in Call, Overwrite(c) \/ FailRun(c)
       PROVE  AbsentInv' /\ \A m \in Member : Untouched(m) \/ m \in Overwritten'
  <2>1. PICK m \in Member, status \in Statuses \ {"absent"}, result \in Results :
          /\ m = call[c].member /\ Rewrite(m, status, result)
          /\ call[c].step \in {"checked", "running"}
          /\ UNCHANGED <<session, log, creation, execution, draft, faults>>
    BY <1>10, OverwriteType
  <2>2. \A n \in Member \ {m} : request'[n] = request[n]
    BY <2>1, Rewritten
  <2>3. request[m].status # "absent"
    BY <2>1 DEF CalledInv
  <2>4. AbsentInv'
    BY <1>2, <2>1, <2>2, <2>3
  <2>5. m \in Overwritten'
    <3>1. CASE Overwrite(c)
      BY <1>0, <2>1, <3>1
    <3>2. CASE FailRun(c)
      BY <1>0, <2>1, <3>2 DEF FailRun, Overwritten
    <3> QED
      BY <1>10, <3>1, <3>2
  <2>6. \A n \in Member \ {m} : Untouched(n)
    BY <2>1, <2>2, Quietly
  <2> QED
    BY <2>4, <2>5, <2>6
<1> QED
  BY <1>0, <1>1, <1>4, <1>5, <1>6, <1>7, <1>8, <1>9, <1>10

\* No request goes away.
LEMMA RowsStay ==
    ASSUME TypeInv, CalledInv, [Next]_vars, NEW m \in Member, request[m].status # "absent"
    PROVE  request'[m].status # "absent"
<1>1. CASE request' = request
  BY <1>1
<1>2. ASSUME NEW n \in Member, NEW status \in Statuses \ {"absent"}, NEW result \in Results,
             Rewrite(n, status, result)
      PROVE  request'[m].status # "absent"
  BY <1>2, Rewritten
<1>3. CASE Publish
  BY <1>3, Published
<1>4. CASE InsertRequest
  <2>1. PICK n \in Member : n = creation.next
    BY <1>4 DEF InsertRequest, TypeInv, LoopInv
  <2>2. /\ "approved" \in Statuses \ {"absent"} /\ "pending" \in Statuses \ {"absent"}
        /\ None \in Results
    BY StatusNames DEF Results
  <2> QED
    BY <1>2, <1>4, <2>1, <2>2 DEF InsertRequest
<1>5. ASSUME NEW c \in Call, Commit(c)
      PROVE  request'[m].status # "absent"
  <2>1. PICK n \in Member : n = call[c].member /\ request[n].result \in Results
    BY StatusNames DEF TypeInv, CallRow
  <2>2. PICK status \in Statuses \ {"absent"}, result \in Results : Rewrite(n, status, result)
    BY <1>5, <2>1, StatusNames DEF Commit, Agree, Reject, Submit, Results
  <2> QED
    BY <1>2, <2>2
<1>6. ASSUME NEW n \in Member, Executing(n)
      PROVE  request'[m].status # "absent"
  <2>1. request[n].result \in Results /\ Template \in Results
    BY StatusNames DEF TypeInv, Results
  <2>2. \/ request' = request
        \/ \E status \in Statuses \ {"absent"}, result \in Results : Rewrite(n, status, result)
    BY <1>6, <2>1, StatusNames
       DEF Executing, ClaimExecution, SkipExecution, CompleteExecution, FailExecution
  <2> QED
    BY <1>1, <1>2, <2>2
<1>7. ASSUME NEW c \in Call, Overwrite(c) \/ FailRun(c)
      PROVE  request'[m].status # "absent"
  BY <1>2, <1>7, OverwriteType
<1>8. \/ request' = request
      \/ InsertRequest \/ Publish
      \/ \E c \in Call : Commit(c) \/ Overwrite(c) \/ FailRun(c)
      \/ \E n \in Member : Executing(n)
  BY DEF Next, Creating, CreateSession, LogInvited, LogAutoAgreed, MarkRunning, StartExecutions,
     Answering, CheckCall, Refuse, LoseExecution, ReadRequests, Consolidate, Close, Crash, vars
<1> QED
  BY <1>1, <1>3, <1>4, <1>5, <1>6, <1>7, <1>8

LEMMA CalledStep == TypeInv /\ CalledInv /\ [Next]_vars => CalledInv'
<1> SUFFICES ASSUME TypeInv, CalledInv, [Next]_vars,
                    NEW c \in Call, call'[c].step \in {"checked", "running", "written"}
             PROVE  request'[call'[c].member].status # "absent"
  BY DEF CalledInv
<1>0. call \in [Call -> CallRow] /\ \A d \in Call : call[d].member \in Member
  BY DEF TypeInv, CallRow
<1>1. ASSUME call'[c].member = call[c].member,
             call[c].step \in {"checked", "running", "written"}
      PROVE  request'[call'[c].member].status # "absent"
  BY <1>0, <1>1, RowsStay DEF CalledInv
<1>2. ASSUME NEW d \in Call, NEW m \in Member, NEW kind \in Answer \cup Review, CheckCall(d, m, kind)
      PROVE  request'[call'[c].member].status # "absent"
  <2>1. CASE d = c
    <3>1. call'[c].member = m
      BY <1>0, <1>2, <2>1 DEF CheckCall
    <3>2. request[m].status # "absent"
      BY <1>2 DEF CheckCall, OpenTo, Active
    <3> QED
      BY <3>1, <3>2, RowsStay
  <2>2. CASE d # c
    BY <1>0, <1>1, <1>2, <2>2 DEF CheckCall
  <2> QED
    BY <2>1, <2>2
<1>3. ASSUME NEW d \in Call, Commit(d) \/ Refuse(d)
      PROVE  request'[call'[c].member].status # "absent"
  <2>1. d # c /\ call'[c] = call[c]
    BY <1>0, <1>3 DEF Commit, Refuse, EndedCall, IdleCall
  <2> QED
    BY <1>1, <2>1
<1>4. ASSUME NEW d \in Call, Overwrite(d) \/ FailRun(d)
      PROVE  request'[call'[c].member].status # "absent"
  <2>1. PICK step \in {"running", "written"} :
          call' = [call EXCEPT ![d].step = step] /\ call[d].step \in {"checked", "running"}
    BY <1>4, OverwriteType
  <2>2. call'[c].member = call[c].member /\ call[c].step \in {"checked", "running", "written"}
    BY <1>0, <2>1 DEF CallRow
  <2> QED
    BY <1>1, <2>2
<1>5. CASE Crash
  <2>1. call'[c].member = call[c].member /\ call[c].step \in {"checked", "running", "written"}
    BY <1>0, <1>5 DEF Crash, EndedCall, IdleCall, CallRow
  <2> QED
    BY <1>1, <2>1
<1>6. CASE call' = call
  BY <1>1, <1>6
<1> QED
  BY <1>2, <1>3, <1>4, <1>5, <1>6, ExecutingType
     DEF Next, Creating, CreateSession, InsertRequest, LogInvited, LogAutoAgreed, MarkRunning,
         StartExecutions, Answering, LoseExecution, ReadRequests, Consolidate, Publish, Close, vars

-----------------------------------------------------------------------------
(* The invariants of a request                                             *)

\* The files of a submission are those of the result in the row.
SubmittedInv ==
    \A m \in Member \ Overwritten : \A i \in DOMAIN log[m] :
        log[m][i].type = "submitted" /\ log[m][i].files # None
        => request[m].result = log[m][i].files

RowInv == TypeInv /\ AbsentInv /\ CalledInv /\ EndedOnce /\ SubmittedInv

LEMMA RowInitially == Init => RowInv
<1> SUFFICES ASSUME Init PROVE RowInv
  OBVIOUS
<1>1. \A m \in Member : request[m].status = "absent" /\ log[m] = <<>>
  BY DEF Init, NoRow
<1>2. \A m \in Member : DOMAIN log[m] = {}
  BY <1>1
<1> QED
  BY <1>1, <1>2, TypeInitially
     DEF RowInv, AbsentInv, CalledInv, EndedOnce, SubmittedInv, Endings, Ended, Init, IdleCall

LEMMA RowStep == RowInv /\ [Next]_vars => RowInv'
<1> SUFFICES ASSUME RowInv, [Next]_vars PROVE RowInv'
  OBVIOUS
<1>1. TypeInv' /\ AbsentInv' /\ CalledInv'
  BY TypeStep, CalledStep, StepMoves DEF RowInv
<1>2. \A m \in Member \ Overwritten' : m \notin Overwritten /\ (Untouched(m) \/ EndsNow(m))
  BY StepMoves DEF RowInv
\* A request that goes on as it was.
<1>3. ASSUME NEW m \in Member \ Overwritten, Untouched(m)
      PROVE  /\ IF request'[m].status \in Ended
                THEN \E i \in DOMAIN log'[m] :
                        Endings(m)' = {i} /\ log'[m][i].type \in EndingOf[request'[m].status]
                ELSE Endings(m)' = {}
             /\ \A i \in DOMAIN log'[m] :
                   log'[m][i].type = "submitted" /\ log'[m][i].files # None
                   => request'[m].result = log'[m][i].files
  <2>1. CASE request[m].status \in Ended
    <3>1. PICK i \in DOMAIN log[m] :
            Endings(m) = {i} /\ log[m][i].type \in EndingOf[request[m].status]
      BY <2>1 DEF RowInv, EndedOnce
    <3>2. Endings(m)' = {i} /\ log'[m][i] = log[m][i] /\ i \in DOMAIN log'[m]
      BY <1>3, <3>1 DEF Untouched
    <3>3. ASSUME NEW k \in DOMAIN log'[m], log'[m][k].type = "submitted", log'[m][k].files # None
          PROVE  request'[m].result = log'[m][k].files
      <4>1. k \in Endings(m)'
        BY <3>3 DEF Endings
      <4>2. k = i
        BY <3>2, <4>1
      <4>3. request[m].result = log[m][i].files
        BY <3>1, <3>2, <3>3, <4>2 DEF RowInv, SubmittedInv
      <4> QED
        BY <1>3, <2>1, <3>2, <4>2, <4>3 DEF Untouched
    <3> QED
      BY <1>3, <2>1, <3>1, <3>2, <3>3 DEF Untouched
  <2>2. CASE request[m].status \notin Ended
    <3>1. Endings(m)' = {} /\ request'[m].status \notin Ended
      BY <1>3, <2>2 DEF Untouched, RowInv, EndedOnce
    <3>2. \A k \in DOMAIN log'[m] : log'[m][k].type # "submitted"
      BY <3>1 DEF Endings
    <3> QED
      BY <3>1, <3>2
  <2> QED
    BY <2>1, <2>2
\* A request that ends.
<1>4. ASSUME NEW m \in Member \ Overwritten, EndsNow(m)
      PROVE  /\ IF request'[m].status \in Ended
                THEN \E i \in DOMAIN log'[m] :
                        Endings(m)' = {i} /\ log'[m][i].type \in EndingOf[request'[m].status]
                ELSE Endings(m)' = {}
             /\ \A i \in DOMAIN log'[m] :
                   log'[m][i].type = "submitted" /\ log'[m][i].files # None
                   => request'[m].result = log'[m][i].files
  <2> DEFINE last == Len(log[m]) + 1
  <2>1. Endings(m) = {}
    BY <1>4 DEF EndsNow, RowInv, EndedOnce
  <2>2. Endings(m)' = {last} /\ last \in DOMAIN log'[m] /\ request'[m].status \in Ended
    BY <1>4, <2>1 DEF EndsNow
  <2>3. log'[m][last].type \in EndingOf[request'[m].status]
    BY <1>4 DEF EndsNow
  <2>4. ASSUME NEW k \in DOMAIN log'[m], log'[m][k].type = "submitted", log'[m][k].files # None
        PROVE  request'[m].result = log'[m][k].files
    <3>1. k \in Endings(m)'
      BY <2>4 DEF Endings
    <3>2. k = last
      BY <2>2, <3>1
    <3> QED
      BY <1>4, <2>4, <3>2 DEF EndsNow
  <2> QED
    BY <2>2, <2>3, <2>4
<1>5. EndedOnce' /\ SubmittedInv'
  BY <1>2, <1>3, <1>4 DEF EndedOnce, SubmittedInv
<1> QED
  BY <1>1, <1>5 DEF RowInv

LEMMA RowInvariant == Spec => []RowInv
BY RowInitially, RowStep, PTL DEF Spec

\* The rows, the events, the calls and the draft keep their types.
THEOREM CoopTypeCorrect == Spec => []TypeOK
<1>1. RowInv => TypeOK
  BY DEF RowInv, TypeInv, TypeOK, Creation, CallRow, Draft, Statuses, Results
<1> QED
  BY <1>1, RowInvariant, PTL

\* Whichever of a member's calls and the timer comes first, a request ends once
\* and its row tells of the same end as its events.
THEOREM CoopEndedOnce == Spec => []EndedOnce
<1>1. RowInv => EndedOnce
  BY DEF RowInv
<1> QED
  BY <1>1, RowInvariant, PTL

-----------------------------------------------------------------------------
(* The draft of a consolidation                                            *)

DraftInv ==
    /\ draft.step \in {"rows", "drafted"} =>
          \A m \in Member \ Overwritten : draft.rows[m].status \in Ended =>
              /\ request[m].status = draft.rows[m].status
              /\ request[m].result = draft.rows[m].result
    /\ draft.step = "drafted" =>
          \A m \in Member \ Overwritten : draft.rows[m].status # "absent" =>
              /\ draft.rows[m].status \in Ended
              /\ draft.files[m] # None => draft.files[m] = request[m].result

LEMMA EndedStay ==
    ASSUME RowInv, [Next]_vars, NEW m \in Member \ Overwritten', request[m].status \in Ended
    PROVE  request'[m].status = request[m].status /\ request'[m].result = request[m].result
BY StepMoves DEF RowInv, Untouched, EndsNow

LEMMA DraftStep == RowInv /\ DraftInv /\ [Next]_vars => DraftInv'
<1> SUFFICES ASSUME RowInv, DraftInv, [Next]_vars PROVE DraftInv'
  OBVIOUS
<1>0. Overwritten \subseteq Overwritten'
  BY StepMoves DEF RowInv
<1>1. CASE draft' = draft
  <2>1. ASSUME NEW m \in Member \ Overwritten', draft.step \in {"rows", "drafted"}, draft.rows[m].status \in Ended
        PROVE  /\ request'[m].status = draft.rows[m].status
               /\ request'[m].result = draft.rows[m].result
               /\ request'[m].result = request[m].result
    <3>1. request[m].status = draft.rows[m].status /\ request[m].result = draft.rows[m].result
      BY <1>0, <2>1 DEF DraftInv
    <3> QED
      BY <2>1, <3>1, EndedStay
  <2>2. ASSUME NEW m \in Member \ Overwritten', draft.step = "drafted", draft.rows[m].status # "absent"
        PROVE  /\ draft.rows[m].status \in Ended
               /\ draft.files[m] # None => draft.files[m] = request'[m].result
    BY <1>0, <2>1, <2>2 DEF DraftInv
  <2> QED
    BY <1>1, <2>1, <2>2 DEF DraftInv
<1>2. CASE draft' = NoDraft
  BY <1>2 DEF DraftInv, NoDraft
<1>3. CASE ReadRequests
  <2>1. /\ draft'.step = "rows" /\ request' = request
        /\ \A m \in Member : draft'.rows[m].status = request[m].status
                             /\ draft'.rows[m].result = request[m].result
    BY <1>3 DEF ReadRequests, View
  <2> QED
    BY <2>1 DEF DraftInv
<1>4. CASE Consolidate
  <2>1. PICK found \in BOOLEAN :
          draft' = IF Ready(draft.rows)
                   THEN [step |-> "drafted", rows |-> draft.rows,
                         files |-> [m \in Member |->
                                      IF found /\ draft.rows[m].status # "absent"
                                      THEN FilesOf(m) ELSE None]]
                   ELSE NoDraft
    BY <1>4 DEF Consolidate
  <2>2. CASE ~Ready(draft.rows)
    BY <1>2, <2>1, <2>2
  <2>3. CASE Ready(draft.rows)
    <3>1. /\ draft'.step = "drafted" /\ draft'.rows = draft.rows
          /\ draft'.files = [m \in Member |-> IF found /\ draft.rows[m].status # "absent"
                                              THEN FilesOf(m) ELSE None]
      BY <2>1, <2>3
    <3>2. draft.step = "rows" /\ request' = request
      BY <1>4 DEF Consolidate
    <3>3. \A m \in Member : draft.rows[m].status # "absent" => draft.rows[m].status \in Ended
      BY <2>3 DEF Ready
    <3>4. ASSUME NEW m \in Member \ Overwritten', draft'.files[m] # None
          PROVE  draft'.files[m] = request[m].result
      <4>1. FilesOf(m) # None /\ draft'.files[m] = FilesOf(m)
        BY <3>1, <3>4
      <4>2. PICK i \in DOMAIN log[m] :
              log[m][i].type = "submitted" /\ log[m][i].files = FilesOf(m)
        BY <4>1, FilesFound DEF RowInv
      <4> QED
        BY <1>0, <4>1, <4>2 DEF RowInv, SubmittedInv
    <3> QED
      BY <1>0, <3>1, <3>2, <3>3, <3>4 DEF DraftInv
  <2> QED
    BY <2>2, <2>3
<1>5. \/ draft' = draft \/ draft' = NoDraft \/ ReadRequests \/ Consolidate
  BY ExecutingType
     DEF RowInv, Next, Creating, CreateSession, InsertRequest, LogInvited, LogAutoAgreed,
         MarkRunning, StartExecutions, Answering, CheckCall, Commit, Refuse, Overwrite, FailRun,
         LoseExecution, Publish, Close, Crash, vars
<1> QED
  BY <1>1, <1>2, <1>3, <1>4, <1>5

\* A consolidated draft stays true: each result it used is still the member's,
\* and the files it lists came with that result.
THEOREM CoopDraftMatches == Spec => []DraftMatchesResults
<1>1. Init => DraftInv
  BY DEF Init, DraftInv, NoDraft
<1>2. RowInv /\ DraftInv => DraftMatchesResults
  BY DEF DraftInv, DraftMatchesResults
<1> QED
  BY <1>1, <1>2, RowInvariant, DraftStep, PTL DEF Spec

-----------------------------------------------------------------------------
(* A closed session                                                        *)

\* There is no session before its creation has begun.
SessionInv == creation.step = "idle" => session = "none"

LEMMA SessionStep == TypeInv /\ SessionInv /\ [Next]_vars => SessionInv'
<1> SUFFICES ASSUME TypeInv, SessionInv, [Next]_vars PROVE SessionInv'
  OBVIOUS
<1>1. creation \in Creation
  BY DEF TypeInv
<1>2. CASE Creating
  <2>1. ASSUME NEW step \in {"insert", "invite", "agree", "start", "ended"},
               creation' = [creation EXCEPT !.step = step]
        PROVE  creation'.step # "idle"
    BY <1>1, <2>1, CreationAt
  <2>2. \A m : AfterMember(m).step # "idle"
    BY DEF AfterMember
  <2> QED
    BY <1>2, <2>1, <2>2 DEF Creating, CreateSession, InsertRequest, LogInvited, LogAutoAgreed,
       MarkRunning, StartExecutions, SessionInv
<1>3. CASE Crash
  <2>1. creation'.step = "idle" => creation.step = "idle"
    BY <1>1, <1>3, CreationAt DEF Crash
  <2> QED
    BY <1>3, <2>1 DEF Crash, SessionInv
<1>4. CASE Publish \/ Close
  BY <1>4 DEF Publish, Close, SessionInv
<1>5. CASE UNCHANGED <<session, creation>>
  BY <1>5 DEF SessionInv
<1> QED
  BY <1>2, <1>3, <1>4, <1>5, ExecutingType
     DEF Next, Answering, CheckCall, Commit, Refuse, Overwrite, FailRun, LoseExecution,
         ReadRequests, Consolidate, vars

\* A session that its creator has closed is never opened, published or closed
\* another way again, except by the last update of its own creation.
THEOREM CoopClosedIsFinal == Spec => ClosedIsFinal
<1>1. ASSUME TypeInv, SessionInv, [Next]_vars
      PROVE  (session \in Closed /\ creation.step # "finish") => session' = session
  <2>1. SUFFICES ASSUME session \in Closed, creation.step # "finish"
                 PROVE  session' = session
    OBVIOUS
  <2>2. session # "none" /\ session # "published"
    BY <2>1 DEF Closed
  <2>3. ~CreateSession /\ ~MarkRunning /\ ~Publish /\ ~Close
    BY <1>1, <2>1, <2>2 DEF CreateSession, MarkRunning, Publish, Close, SessionInv
  <2> QED
    BY <1>1, <2>3, ExecutingType
       DEF Next, Creating, InsertRequest, LogInvited, LogAutoAgreed, StartExecutions, Answering,
           CheckCall, Commit, Refuse, Overwrite, FailRun, LoseExecution, ReadRequests, Consolidate,
           Crash, vars
<1>2. Init => SessionInv
  BY DEF Init, SessionInv
<1>3. RowInv => TypeInv
  BY DEF RowInv
<1> QED
  BY <1>1, <1>2, <1>3, RowInvariant, SessionStep, PTL DEF Spec, ClosedIsFinal

-----------------------------------------------------------------------------
(* Refinement of CoopLedger: what the mapping needs beside the invariants  *)
(* of rows and draft.                                                      *)

\* A call that has become a result is over, so it ends no second request.
CallInv ==
    \A m \in Member \ Overwritten, c \in Call : request[m].result = c => call[c].step = "ended"

\* Only automatic members have a timer.
TimerInv == \A m \in Member : execution[m] = "timer" => m \in Automatic

\* The members the creation has passed have their request; its last update
\* comes after them all, and only if there are automatic ones.
PresentInv ==
    /\ \A m \in Member :
          \/ creation.step = "insert" /\ m < creation.next
          \/ creation.step \in {"invite", "agree"} /\ m <= creation.next
          \/ creation.step = "finish"
          => request[m].status # "absent"
    /\ creation.step = "finish" => Automatic # {}

LedgerInv == CallInv /\ TimerInv /\ PresentInv

\* The rows are written by these steps alone.
LEMMA RequestMoves ==
    ASSUME [Next]_vars
    PROVE  \/ request' = request
           \/ InsertRequest \/ Publish
           \/ \E c \in Call : Commit(c) \/ Overwrite(c) \/ FailRun(c)
           \/ \E m \in Member : Executing(m)
BY DEF Next, Creating, CreateSession, LogInvited, LogAutoAgreed, MarkRunning, StartExecutions,
   Answering, CheckCall, Refuse, LoseExecution, ReadRequests, Consolidate, Close, Crash, vars

\* A row that a step writes, and the other rows.
LEMMA RowWritten ==
    ASSUME TypeInv, NEW m \in Member, NEW status, NEW result, Rewrite(m, status, result)
    PROVE  \A n \in Member :
              /\ request'[n].status = IF n = m THEN status ELSE request[n].status
              /\ request'[n].result = IF n = m THEN result ELSE request[n].result
              /\ request'[n].visible = request[n].visible
<1> DEFINE new == [status |-> status, result |-> result, visible |-> request[m].visible]
<1>1. request \in [Member -> Row]
  BY DEF TypeInv
<1>2. request' = [request EXCEPT ![m] = new]
  BY DEF Rewrite
<1>3. new.status = status /\ new.result = result /\ new.visible = request[m].visible
  OBVIOUS
<1> HIDE DEF new
<1> QED
  BY <1>1, <1>2, <1>3

\* What a transaction of a member's call writes.
LEMMA CommitWrites ==
    ASSUME TypeInv, NEW c \in Call, Commit(c)
    PROVE  LET m == call[c].member
           IN  /\ m \in Member /\ request[m].status \in Active
               /\ \/ request[m].status = "pending" /\ Rewrite(m, "approved", request[m].result)
                  \/ request[m].status = "pending" /\ Rewrite(m, "rejected", request[m].result)
                  \/ Rewrite(m, "completed", c)
<1>1. call[c].member \in Member /\ call[c].kind \in Answer
  BY DEF TypeInv, CallRow, Commit
<1>2. request[call[c].member].status \in OpenTo(call[c].kind)
  BY DEF Commit, StillOpen
<1>3. CASE Agree(c)
  BY <1>1, <1>2, <1>3 DEF Agree, OpenTo, Active
<1>4. CASE Reject(c)
  BY <1>1, <1>2, <1>4 DEF Reject, OpenTo, Active
<1>5. CASE Submit(c)
  BY <1>1, <1>2, <1>5 DEF Submit, OpenTo, Active
<1> QED
  BY <1>3, <1>4, <1>5 DEF Commit

\* What a step of an execution writes.
LEMMA ExecutingWrites ==
    ASSUME TypeInv, NEW m \in Member, Executing(m)
    PROVE  \/ request' = request
           \/ request[m].status = "approved" /\ Rewrite(m, "running", request[m].result)
           \/ /\ execution[m] = "timer" /\ request[m].status = "running"
              /\ Rewrite(m, "completed", Template) \/ Rewrite(m, "failed", request[m].result)
BY DEF Executing, ClaimExecution, SkipExecution, CompleteExecution, FailExecution

LEMMA OverwrittenMember ==
    ASSUME TypeInv, [Next]_vars, NEW c \in Call, Overwrite(c) \/ FailRun(c)
    PROVE  call[c].member \in Overwritten'
<1>1. PICK step \in {"running", "written"} : call' = [call EXCEPT ![c].step = step]
  BY OverwriteType
<1>2. call \in [Call -> CallRow]
  BY DEF TypeInv
<1>3. call'[c].step = step /\ call'[c].member = call[c].member
  BY <1>1, <1>2 DEF CallRow
<1> QED
  BY <1>3 DEF Overwritten

\* A result is new only by a commit or a template, where the interface for
\* collaborations has not written.
LEMMA NewResults ==
    ASSUME TypeInv, AbsentInv, CalledInv, [Next]_vars, NEW m \in Member \ Overwritten'
    PROVE  \/ request'[m].result \in {request[m].result, None, Template}
           \/ \E c \in Call : Commit(c) /\ request'[m].result = c
<1>1. CASE request' = request
  BY <1>1
<1>2. CASE InsertRequest
  <2>1. creation.next \in Member
    BY <1>2 DEF InsertRequest, TypeInv, LoopInv
  <2> QED
    BY <1>2, <2>1, RowWritten DEF InsertRequest
<1>3. CASE Publish
  BY <1>3, Published
<1>4. ASSUME NEW c \in Call, Commit(c)
      PROVE  \/ request'[m].result \in {request[m].result, None, Template}
             \/ Commit(c) /\ request'[m].result = c
  BY <1>4, CommitWrites, RowWritten
<1>5. ASSUME NEW n \in Member, Executing(n)
      PROVE  request'[m].result \in {request[m].result, None, Template}
  BY <1>5, ExecutingWrites, RowWritten
<1>6. ASSUME NEW c \in Call, Overwrite(c) \/ FailRun(c)
      PROVE  request'[m].result = request[m].result
  <2>1. PICK n \in Member, status \in Statuses, result \in Results :
          n = call[c].member /\ Rewrite(n, status, result)
    BY <1>6, OverwriteType
  <2>2. n \in Overwritten'
    BY <1>6, <2>1, OverwrittenMember
  <2> QED
    BY <2>1, <2>2, RowWritten
<1> QED
  BY <1>1, <1>2, <1>3, <1>4, <1>5, <1>6, RequestMoves

LEMMA CallStep == TypeInv /\ AbsentInv /\ CalledInv /\ CallInv /\ [Next]_vars => CallInv'
<1> SUFFICES ASSUME TypeInv, AbsentInv, CalledInv, CallInv, [Next]_vars,
                    NEW m \in Member \ Overwritten', NEW c \in Call, request'[m].result = c
             PROVE  call'[c].step = "ended"
  BY DEF CallInv
<1>0. call \in [Call -> CallRow] /\ m \notin Overwritten
  BY StepMoves DEF TypeInv
\* A call that has ended stays so.
<1>1. ASSUME call[c].step = "ended" PROVE call'[c].step = "ended"
  <2>1. ASSUME NEW d \in Call, call[d].step # "ended", NEW r, call' = [call EXCEPT ![d] = r]
        PROVE  call'[c].step = "ended"
    BY <1>0, <1>1, <2>1
  <2>2. ASSUME NEW d \in Call, \/ Commit(d) \/ Refuse(d) \/ Overwrite(d) \/ FailRun(d)
                              \/ \E n \in Member, kind \in Answer \cup Review : CheckCall(d, n, kind)
        PROVE  call'[c].step = "ended"
    <3>1. call[d].step # "ended" /\ \E r : call' = [call EXCEPT ![d] = r]
      BY <2>2 DEF Commit, Refuse, Overwrite, FailRun, CheckCall
    <3> QED
      BY <2>1, <3>1
  <2>3. CASE Crash
    BY <1>0, <1>1, <2>3 DEF Crash
  <2>4. CASE call' = call
    BY <1>1, <2>4
  <2> QED
    BY <2>2, <2>3, <2>4, ExecutingType
       DEF Next, Creating, CreateSession, InsertRequest, LogInvited, LogAutoAgreed, MarkRunning,
           StartExecutions, Answering, LoseExecution, ReadRequests, Consolidate, Publish, Close, vars
<1>2. CASE request[m].result = c
  BY <1>0, <1>1, <1>2 DEF CallInv
<1>3. CASE request[m].result # c
  <2>1. PICK d \in Call : Commit(d) /\ request'[m].result = d
    BY <1>3, NewResults, ResultAssumption
  <2>2. d = c /\ call' = [call EXCEPT ![c] = EndedCall]
    BY <2>1 DEF Commit
  <2> QED
    BY <1>0, <2>2 DEF EndedCall, IdleCall
<1> QED
  BY <1>2, <1>3

LEMMA TimerStep == TypeInv /\ TimerInv /\ [Next]_vars => TimerInv'
<1> SUFFICES ASSUME TypeInv, TimerInv, [Next]_vars, NEW m \in Member, execution'[m] = "timer"
             PROVE  m \in Automatic
  BY DEF TimerInv
<1>1. execution \in [Member -> {"none", "due", "timer"}]
  BY DEF TypeInv
<1>2. ASSUME NEW n \in Member, ClaimExecution(n) PROVE m \in Automatic
  <2>1. execution' = [execution EXCEPT ![n] = Mode(n)]
    BY <1>2 DEF ClaimExecution
  <2> QED
    BY <1>1, <2>1 DEF Mode, TimerInv
<1>3. ASSUME NEW n \in Member, execution' = [execution EXCEPT ![n] = "none"] PROVE m \in Automatic
  BY <1>1, <1>3 DEF TimerInv
<1>4. CASE StartExecutions
  BY <1>4 DEF StartExecutions, TimerInv
<1>5. CASE Crash
  BY <1>5 DEF Crash
<1>6. CASE execution' = execution
  BY <1>6 DEF TimerInv
<1> QED
  BY <1>2, <1>3, <1>4, <1>5, <1>6
     DEF Next, Creating, CreateSession, InsertRequest, LogInvited, LogAutoAgreed, MarkRunning,
         Answering, CheckCall, Commit, Refuse, Overwrite, FailRun, Executing, SkipExecution, CompleteExecution,
         FailExecution, LoseExecution, ReadRequests, Consolidate, Publish, Close, vars

LEMMA PresentStep == TypeInv /\ CalledInv /\ PresentInv /\ [Next]_vars => PresentInv'
<1> SUFFICES ASSUME TypeInv, CalledInv, PresentInv, [Next]_vars PROVE PresentInv'
  OBVIOUS
<1>1. /\ N \in Nat \ {0} /\ Member = 1..N /\ creation \in Creation
      /\ \A m \in Member : request[m].status # "absent" => request'[m].status # "absent"
  BY NAssumption, RowsStay DEF Member, TypeInv
<1>2. CASE creation' = creation
  BY <1>1, <1>2 DEF PresentInv
<1>3. CASE creation'.step \in {"idle", "start", "ended"}
  BY <1>3 DEF PresentInv
<1>4. CASE CreateSession
  <2>1. creation'.step = "insert" /\ creation'.next = 1
    BY <1>1, <1>4, CreationAt DEF CreateSession, TypeInv, LoopInv
  <2> QED
    BY <1>1, <2>1 DEF PresentInv
<1>5. CASE InsertRequest
  <2>1. creation.next \in Member
    BY <1>5 DEF InsertRequest, TypeInv, LoopInv
  <2>2. request'[creation.next].status # "absent"
    BY <1>5, <2>1, RowWritten DEF InsertRequest
  <2>3. creation'.step = "invite" /\ creation'.next = creation.next /\ creation.step = "insert"
    BY <1>1, <1>5, CreationAt DEF InsertRequest
  <2>4. \A m \in Member : m <= creation.next => m = creation.next \/ m < creation.next
    BY <1>1, <2>1
  <2> QED
    BY <1>1, <2>2, <2>3, <2>4 DEF PresentInv
<1>6. CASE LogInvited \/ LogAutoAgreed
  <2>1. creation.step \in {"invite", "agree"} /\ creation.next \in Member
    BY <1>6 DEF LogInvited, LogAutoAgreed, TypeInv, LoopInv
  <2>2. \/ creation'.step = "agree" /\ creation'.next = creation.next
        \/ creation' = AfterMember(creation.next)
    BY <1>1, <1>6, CreationAt DEF LogInvited, LogAutoAgreed
  <2>3. CASE creation'.step = "agree" /\ creation'.next = creation.next
    BY <1>1, <2>1, <2>3 DEF PresentInv
  <2>4. CASE creation' = AfterMember(creation.next)
    <3>1. /\ creation'.next = creation.next + 1
          /\ creation'.step = IF creation.next < N THEN "insert"
                              ELSE IF Automatic = {} THEN "ended" ELSE "finish"
      BY <2>4 DEF AfterMember
    <3>2. \A m \in Member : m < creation.next + 1 \/ ~(creation.next < N) => m <= creation.next
      BY <1>1, <2>1
    <3> QED
      BY <1>1, <2>1, <3>1, <3>2 DEF PresentInv
  <2> QED
    BY <2>2, <2>3, <2>4
<1>7. CASE Crash
  <2>1. \/ creation'.step = "idle" \/ creation'.step = "ended"
    BY <1>1, <1>7, CreationAt DEF Crash
  <2> QED
    BY <1>3, <2>1
<1>8. CASE MarkRunning \/ StartExecutions
  BY <1>1, <1>3, <1>8, CreationAt DEF MarkRunning, StartExecutions
<1> QED
  BY <1>2, <1>4, <1>5, <1>6, <1>7, <1>8, ExecutingType
     DEF Next, Creating, Answering, CheckCall, Commit, Refuse, Overwrite, FailRun, LoseExecution,
         ReadRequests, Consolidate, Publish, Close, vars

LEMMA LedgerInvariant == Spec => []LedgerInv
<1>1. Init => LedgerInv
  <2> SUFFICES ASSUME Init PROVE LedgerInv
    OBVIOUS
  <2>1. \A m \in Member : request[m].result = None /\ execution[m] = "none"
    BY DEF Init, NoRow
  <2> QED
    BY <2>1, ResultAssumption DEF Init, LedgerInv, CallInv, TimerInv, PresentInv, Member
<1>2. RowInv /\ LedgerInv /\ [Next]_vars => LedgerInv'
  BY CallStep, TimerStep, PresentStep DEF RowInv, LedgerInv
<1> QED
  BY <1>1, <1>2, RowInvariant, PTL DEF Spec

-----------------------------------------------------------------------------
(* Refinement of CoopLedger, step by step.  The names of the mapping:      *)

Inviting == creation.step \in {"insert", "invite", "agree", "finish"}
Seen(status, result) == [state |-> State(status), result |-> result]
Gone == [state |-> "overwritten", result |-> None]
Outcome == [m \in Member |-> IF m \in Overwritten THEN Gone
                            ELSE Seen(request[m].status, request[m].result)]
Shown == {m \in Member : request[m].visible}
Quoted == {m \in Member \ Overwritten : draft.step = "drafted" /\ draft.rows[m].status # "absent"}
Drafted == [m \in Quoted |-> [outcome |-> Seen(draft.rows[m].status, draft.rows[m].result),
                              files |-> draft.files[m]]]

LEMMA StateNames ==
    /\ State("absent") = "absent" /\ State("pending") = "invited"
    /\ State("approved") = "accepted" /\ State("running") = "accepted"
    /\ \A status \in Ended : State(status) = status
    /\ \A status \in Statuses : State(status) = "absent" => status = "absent"
    /\ Ledger!Over = Ended
BY DEF State, Ended, Active, Statuses, Ledger!Over

\* The mapped outcome of a row that a step writes.
LEMMA OutcomeWritten ==
    ASSUME TypeInv, NEW m \in Member, NEW status, NEW result, Rewrite(m, status, result),
           Overwritten' = Overwritten
    PROVE  /\ m \in Overwritten => Outcome' = Outcome
           /\ m \notin Overwritten =>
                 /\ Outcome[m] = Seen(request[m].status, request[m].result)
                 /\ Outcome' = [Outcome EXCEPT ![m] = Seen(status, result)]
                 /\ State(status) # State(request[m].status) /\ result = request[m].result =>
                       Outcome' = [Outcome EXCEPT ![m].state = State(status)]
                 /\ State(status) = State(request[m].status) /\ result = request[m].result =>
                       Outcome' = Outcome
           /\ Shown' = Shown
<1>1. \A n \in Member :
         /\ request'[n].status = IF n = m THEN status ELSE request[n].status
         /\ request'[n].result = IF n = m THEN result ELSE request[n].result
         /\ request'[n].visible = request[n].visible
  BY RowWritten
<1>2. Outcome' = [n \in Member |-> IF n \in Overwritten THEN Gone
                                  ELSE Seen(request'[n].status, request'[n].result)]
  BY DEF Outcome, Seen, State, Gone
<1>3. m \in Overwritten => Outcome' = Outcome
  BY <1>1, <1>2 DEF Outcome
<1>4. m \notin Overwritten => Outcome' = [Outcome EXCEPT ![m] = Seen(status, result)]
  BY <1>1, <1>2 DEF Outcome
<1>5. m \notin Overwritten => Outcome[m] = Seen(request[m].status, request[m].result)
  BY DEF Outcome
<1>6. ASSUME result = request[m].result, m \notin Overwritten
      PROVE  [Outcome[m] EXCEPT !.state = State(status)] = Seen(status, result)
  BY <1>5, <1>6 DEF Seen
<1>7. ASSUME State(status) = State(request[m].status), result = request[m].result,
             m \notin Overwritten
      PROVE  Seen(status, result) = Outcome[m]
  BY <1>5, <1>7 DEF Seen
<1>8. Shown' = Shown
  BY <1>1 DEF Shown
<1>9. Outcome = [n \in Member |-> Outcome[n]]
  BY DEF Outcome
<1> QED
  BY <1>3, <1>4, <1>5, <1>6, <1>7, <1>8, <1>9

LEMMA SameRequests ==
    ASSUME request' = request, Overwritten' = Overwritten
    PROVE  Outcome' = Outcome /\ Shown' = Shown
BY DEF Outcome, Shown, Seen, State, Gone

LEMMA SameDraft ==
    ASSUME draft' = draft, Overwritten' = Overwritten
    PROVE  Drafted' = Drafted
BY DEF Drafted, Quoted, Seen, State

LEMMA NoDraftQuotes ==
    /\ draft.step # "drafted" => Drafted = [m \in {} |-> None]
    /\ draft'.step # "drafted" => Drafted' = [m \in {} |-> None]
<1>1. draft.step # "drafted" => Quoted = {}
  BY DEF Quoted
<1>2. draft'.step # "drafted" => Quoted' = {}
  BY DEF Quoted
<1> QED
  BY <1>1, <1>2 DEF Drafted

\* The ledger stands still.
Stands == UNCHANGED <<session, Inviting, Outcome, Shown, Drafted>>

\* The steps of the ledger that speak of one member, and of a draft.
LEMMA LedgerOfMember ==
    ASSUME NEW m \in Member,
           \/ Ledger!Invite(m) \/ Ledger!Accept(m) \/ Ledger!Decline(m) \/ Ledger!Execute(m)
           \/ Ledger!Overwrite(m)
           \/ \E c \in Call : Ledger!Deliver(m, c)
    PROVE  Ledger!LedgerNext
BY DEF Ledger!LedgerNext

LEMMA LedgerOfDraft ==
    ASSUME NEW S \in SUBSET Ledger!Answered, NEW F \in SUBSET S, Ledger!Consolidate(S, F)
    PROVE  Ledger!LedgerNext
BY DEF Ledger!LedgerNext

LEMMA CreatingRefines ==
    ASSUME TypeInv, AbsentInv, CalledInv, SessionInv, PresentInv, Creating
    PROVE  Ledger!LedgerNext \/ Stands
<1>0. Overwritten' = Overwritten
  BY DEF Overwritten, Creating, CreateSession, InsertRequest, LogInvited, LogAutoAgreed,
     MarkRunning, StartExecutions
<1>1. /\ N \in Nat \ {0} /\ Member = 1..N /\ creation \in Creation
      /\ draft' = draft /\ Drafted' = Drafted
  BY <1>0, SameDraft, NAssumption
     DEF Member, TypeInv, Creating, CreateSession, InsertRequest, LogInvited, LogAutoAgreed,
         MarkRunning, StartExecutions
<1>2. CASE CreateSession
  <2>1. session = "none" /\ Inviting' /\ session' = "running"
    BY <1>1, <1>2, CreationAt DEF CreateSession, SessionInv, Inviting
  <2>2. Outcome' = Outcome /\ Shown' = Shown
    BY <1>0, <1>2, SameRequests DEF CreateSession
  <2>3. Ledger!OpenSession
    BY <1>1, <2>1, <2>2
       DEF Ledger!OpenSession, Inviting, Outcome, Shown, Drafted, Quoted, Seen, Gone
  <2> QED
    BY <2>3 DEF Ledger!LedgerNext
<1>3. CASE InsertRequest
  <2>1. PICK k \in Member : k = creation.next
    BY <1>3 DEF InsertRequest, TypeInv, LoopInv
  <2> DEFINE status == IF k \in Automatic THEN "approved" ELSE "pending"
  <2>2. Rewrite(k, status, None)
    BY <1>3, <2>1 DEF InsertRequest
  <2>0. request[k].status = "absent" /\ k \notin Overwritten
    BY <1>1, <1>3, <2>1 DEF InsertRequest, AbsentInv, CalledInv, Overwritten
  <2>3. /\ Outcome' = [Outcome EXCEPT ![k] = Seen(status, None)] /\ Shown' = Shown
        /\ Seen(status, None) = [state |-> IF k \in Automatic THEN "accepted" ELSE "invited",
                                 result |-> None]
    <3>1. State(status) = IF k \in Automatic THEN "accepted" ELSE "invited"
      BY StateNames
    <3>2. Seen(status, None) = [state |-> IF k \in Automatic THEN "accepted" ELSE "invited",
                                result |-> None]
      BY <3>1 DEF Seen
    <3> HIDE DEF status
    <3>3. Outcome' = [Outcome EXCEPT ![k] = Seen(status, None)] /\ Shown' = Shown
      BY <1>0, <2>0, <2>2, OutcomeWritten
    <3> QED
      BY <3>2, <3>3
  <2>4. Outcome[k].state = "absent" /\ Inviting /\ Inviting' /\ session' = session
    BY <1>1, <1>3, <2>0, <2>1, StateNames, CreationAt DEF InsertRequest, Outcome, Seen, Inviting
  <2>5. Ledger!Invite(k)
    BY <1>1, <2>3, <2>4 DEF Ledger!Invite, Inviting, Outcome, Shown, Drafted, Quoted, Seen, Gone
  <2> QED
    BY <2>5, LedgerOfMember
<1>4. CASE LogInvited \/ LogAutoAgreed
  <2>1. /\ Outcome' = Outcome /\ Shown' = Shown /\ session' = session /\ Inviting
        /\ Drafted' = Drafted
    BY <1>0, <1>1, <1>4, SameRequests DEF LogInvited, LogAutoAgreed, Inviting
  <2>2. CASE Inviting'
    BY <2>1, <2>2 DEF Stands, Inviting
  <2>3. CASE ~Inviting'
    <3>1. Ledger!StopInviting
      BY <2>1, <2>3 DEF Ledger!StopInviting, Inviting, Outcome, Shown, Drafted, Quoted, Seen, Gone
    <3> QED
      BY <3>1 DEF Ledger!LedgerNext
  <2> QED
    BY <2>2, <2>3
<1>5. CASE MarkRunning
  <2>1. /\ Outcome' = Outcome /\ Shown' = Shown /\ session' = "running"
        /\ Inviting /\ ~Inviting' /\ Automatic # {}
    BY <1>0, <1>1, <1>5, SameRequests, CreationAt DEF MarkRunning, Inviting, PresentInv
  <2>2. \A m \in Member : Outcome[m].state # "absent"
    BY <1>5, StateNames, StatusNames DEF MarkRunning, PresentInv, Outcome, Seen, Gone, TypeInv
  <2>3. Ledger!Present = Member
    BY <2>2 DEF Ledger!Present, Outcome, Seen, Gone
  <2>4. Ledger!StartSession
    BY <1>1, <2>1, <2>3
       DEF Ledger!StartSession, Inviting, Outcome, Shown, Drafted, Quoted, Seen, Gone
  <2> QED
    BY <2>4 DEF Ledger!LedgerNext
<1>6. CASE StartExecutions
  <2>1. session' = session /\ Inviting' = Inviting
    BY <1>1, <1>6, CreationAt DEF StartExecutions, Inviting
  <2> QED
    BY <1>0, <1>1, <1>6, <2>1, SameRequests DEF StartExecutions, Stands
<1> QED
  BY <1>2, <1>3, <1>4, <1>5, <1>6 DEF Creating

\* The steps of members and executions: all else of the ledger stands still.
LEMMA AnswerRefines ==
    ASSUME TypeInv, UNCHANGED <<session, creation, draft>>, Shown' = Shown,
           Overwritten' = Overwritten
    PROVE  /\ UNCHANGED <<session, Inviting, Shown, Drafted>>
           /\ Outcome' = Outcome => Stands
BY SameDraft DEF Inviting, Stands

LEMMA CommitRefines ==
    ASSUME TypeInv, CallInv, NEW c \in Call, Commit(c), Overwritten' = Overwritten
    PROVE  Ledger!LedgerNext \/ Stands
<1>1. PICK m \in Member :
        /\ request[m].status \in Active
        /\ \/ request[m].status = "pending" /\ Rewrite(m, "approved", request[m].result)
           \/ request[m].status = "pending" /\ Rewrite(m, "rejected", request[m].result)
           \/ Rewrite(m, "completed", c)
  BY CommitWrites
<1>2. UNCHANGED <<session, creation, draft>> /\ call[c].step = "checked"
  BY DEF Commit
<1> SUFFICES ASSUME m \notin Overwritten PROVE Ledger!LedgerNext \/ Stands
  BY <1>1, <1>2, OutcomeWritten, AnswerRefines
<1>3. Outcome[m].state \in {"invited", "accepted"}
      /\ (request[m].status = "pending" => Outcome[m].state = "invited")
  BY <1>1, StateNames DEF Active, Outcome, Seen
<1>4. CASE request[m].status = "pending" /\ Rewrite(m, "approved", request[m].result)
  <2>1. Outcome' = [Outcome EXCEPT ![m].state = "accepted"] /\ Shown' = Shown
    BY <1>1, <1>4, OutcomeWritten, StateNames
  <2>2. UNCHANGED <<session, Inviting, Shown, Drafted>>
    BY <1>2, <2>1, AnswerRefines
  <2>3. Ledger!Accept(m)
    BY <1>3, <1>4, <2>1, <2>2
       DEF Ledger!Accept, Inviting, Outcome, Shown, Drafted, Quoted, Seen, Gone
  <2> QED
    BY <1>1, <2>3, LedgerOfMember
<1>5. CASE request[m].status = "pending" /\ Rewrite(m, "rejected", request[m].result)
  <2>1. Outcome' = [Outcome EXCEPT ![m].state = "rejected"] /\ Shown' = Shown
    BY <1>1, <1>5, OutcomeWritten, StateNames DEF Ended
  <2>2. UNCHANGED <<session, Inviting, Shown, Drafted>>
    BY <1>2, <2>1, AnswerRefines
  <2>3. Ledger!Decline(m)
    BY <1>3, <1>5, <2>1, <2>2
       DEF Ledger!Decline, Inviting, Outcome, Shown, Drafted, Quoted, Seen, Gone
  <2> QED
    BY <1>1, <2>3, LedgerOfMember
<1>6. CASE Rewrite(m, "completed", c)
  <2>1. /\ Outcome' = [Outcome EXCEPT ![m] = [state |-> "completed", result |-> c]]
        /\ Shown' = Shown
    <3>1. Seen("completed", c) = [state |-> "completed", result |-> c]
      BY StateNames DEF Seen, Ended
    <3> QED
      BY <1>1, <1>6, <3>1, OutcomeWritten
  <2>2. UNCHANGED <<session, Inviting, Shown, Drafted>>
    BY <1>2, <2>1, AnswerRefines
  <2>3. \A n \in Member : Outcome[n].result # c
    BY <1>2, ResultAssumption DEF CallInv, Outcome, Seen, Gone
  <2>4. Ledger!Deliver(m, c)
    BY <1>3, <2>1, <2>2, <2>3
       DEF Ledger!Deliver, Inviting, Outcome, Shown, Drafted, Quoted, Seen, Gone
  <2> QED
    BY <1>1, <2>4, LedgerOfMember
<1> QED
  BY <1>1, <1>4, <1>5, <1>6

LEMMA ExecutingRefines ==
    ASSUME TypeInv, TimerInv, NEW m \in Member, Executing(m)
    PROVE  Ledger!LedgerNext \/ Stands
<1>1. UNCHANGED <<session, creation, draft>> /\ Overwritten' = Overwritten
  BY ExecutingType DEF Overwritten
<1>0. \/ request' = request
      \/ \E status, result : Rewrite(m, status, result)
  BY ExecutingWrites
<1> SUFFICES ASSUME m \notin Overwritten PROVE Ledger!LedgerNext \/ Stands
  BY <1>0, <1>1, OutcomeWritten, SameRequests, AnswerRefines
<1>2. CASE request' = request
  BY <1>1, <1>2, SameRequests, AnswerRefines
<1>3. CASE request[m].status = "approved" /\ Rewrite(m, "running", request[m].result)
  BY <1>1, <1>3, OutcomeWritten, StateNames, AnswerRefines
<1>4. CASE /\ execution[m] = "timer" /\ request[m].status = "running"
           /\ Rewrite(m, "completed", Template) \/ Rewrite(m, "failed", request[m].result)
  <2>1. m \in Automatic /\ Outcome[m].state = "accepted"
    BY <1>4, StateNames DEF TimerInv, Outcome, Seen
  <2>2. /\ \/ Outcome' = [Outcome EXCEPT ![m] = [state |-> "completed", result |-> Template]]
           \/ Outcome' = [Outcome EXCEPT ![m].state = "failed"]
        /\ Shown' = Shown
    <3>1. /\ Seen("completed", Template) = [state |-> "completed", result |-> Template]
          /\ State("failed") = "failed" /\ State("failed") # State(request[m].status)
      BY <1>4, StateNames DEF Seen, Ended
    <3> QED
      BY <1>1, <1>4, <3>1, OutcomeWritten
  <2>3. UNCHANGED <<session, Inviting, Shown, Drafted>>
    BY <1>1, <2>2, AnswerRefines
  <2>4. Ledger!Execute(m)
    BY <2>1, <2>2, <2>3
       DEF Ledger!Execute, Inviting, Outcome, Shown, Drafted, Quoted, Seen, Gone
  <2> QED
    BY <2>4, LedgerOfMember
<1> QED
  BY <1>2, <1>3, <1>4, ExecutingWrites

\* Rows and files were read apart, but the draft is what the ledger shows now.
LEMMA ConsolidateRefines ==
    ASSUME RowInv, DraftInv, Consolidate
    PROVE  Ledger!LedgerNext \/ Stands
<1>1. /\ UNCHANGED <<session, request, creation>> /\ draft.step = "rows"
      /\ UNCHANGED <<session, Inviting, Outcome, Shown>> /\ Overwritten' = Overwritten
  BY SameRequests DEF Consolidate, Inviting, Overwritten
<1>2. PICK found \in BOOLEAN :
        draft' = IF Ready(draft.rows)
                 THEN [step |-> "drafted", rows |-> draft.rows,
                       files |-> [m \in Member |->
                                    IF found /\ draft.rows[m].status # "absent"
                                    THEN FilesOf(m) ELSE None]]
                 ELSE NoDraft
  BY DEF Consolidate
<1>3. CASE ~Ready(draft.rows)
  <2>1. draft.step # "drafted" /\ draft'.step # "drafted"
    BY <1>1, <1>2, <1>3 DEF NoDraft
  <2> QED
    BY <1>1, <2>1, NoDraftQuotes DEF Stands
<1>4. CASE Ready(draft.rows)
  <2>0. PICK S \in SUBSET (Member \ Overwritten), F \in SUBSET Member :
          S = Quoted' /\ F = {m \in S : draft'.files[m] # None}
    BY <1>1 DEF Quoted
  <2>1. /\ draft'.step = "drafted" /\ draft'.rows = draft.rows
        /\ draft'.files = [m \in Member |-> IF found /\ draft.rows[m].status # "absent"
                                            THEN FilesOf(m) ELSE None]
    BY <1>2, <1>4
  <2>2. S = {m \in Member \ Overwritten : draft.rows[m].status # "absent"}
    BY <1>1, <2>0, <2>1 DEF Quoted
  <2>3. ASSUME NEW m \in S
        PROVE  /\ m \in Member /\ draft.rows[m].status \in Ended
               /\ request[m].status = draft.rows[m].status
               /\ request[m].result = draft.rows[m].result
    BY <1>1, <1>4, <2>2, <2>3 DEF Ready, DraftInv
  <2>4. \/ \E m \in S : request[m].status = "completed"
        \/ \E m \in Member : Outcome[m].state = "overwritten"
    <3>1. PICK m \in Member : draft.rows[m].status = "completed"
      BY <1>4 DEF Ready
    <3>2. CASE m \in Overwritten
      BY <3>2 DEF Outcome, Gone
    <3>3. CASE m \notin Overwritten
      BY <2>2, <2>3, <3>1, <3>3
    <3> QED
      BY <3>2, <3>3
  <2>5. ASSUME NEW m \in S
        PROVE  /\ Outcome[m] = Seen(draft.rows[m].status, draft.rows[m].result)
               /\ Outcome[m].state \in Ledger!Over
               /\ request[m].status = "completed" => Outcome[m].state = "completed"
               /\ Outcome[m].result = request[m].result
    BY <2>3, <2>5, StateNames DEF Outcome, Seen
  \* The files are those of the submission that is the result.
  <2>6. ASSUME NEW m \in F PROVE draft'.files[m] \in Call /\ draft'.files[m] = Outcome[m].result
    <3>1. m \in Member /\ draft'.files[m] # None /\ draft'.files[m] = FilesOf(m)
      BY <2>0, <2>1, <2>2, <2>6
    <3>2. FilesOf(m) \in Call /\ \E i \in DOMAIN log[m] :
             log[m][i].type = "submitted" /\ log[m][i].files = FilesOf(m)
      BY <3>1, FilesFound DEF RowInv
    <3> QED
      BY <2>0, <2>5, <2>6, <3>1, <3>2 DEF RowInv, SubmittedInv
  <2>7. Drafted' = [m \in S |-> [outcome |-> Outcome[m],
                                 files |-> IF m \in F THEN Outcome[m].result ELSE None]]
    <3>1. Drafted' = [m \in S |-> [outcome |-> Seen(draft'.rows[m].status, draft'.rows[m].result),
                                   files |-> draft'.files[m]]]
      BY <2>0 DEF Drafted, Seen, State
    <3>2. \A m \in S : /\ Seen(draft'.rows[m].status, draft'.rows[m].result) = Outcome[m]
                       /\ draft'.files[m] = IF m \in F THEN Outcome[m].result ELSE None
      BY <2>0, <2>1, <2>5, <2>6
    <3> QED
      BY <3>1, <3>2
  <2>8. S \in SUBSET Ledger!Answered
    BY <2>3, <2>5 DEF Ledger!Answered, Outcome, Seen
  <2>9. /\ \/ \E m \in S : Outcome[m].state = "completed"
           \/ \E m \in Member : Outcome[m].state = "overwritten"
        /\ \A m \in F : Outcome[m].result \in Call
    BY <2>4, <2>5, <2>6
  <2>10. Ledger!Consolidate(S, F)
    BY <1>1, <2>7, <2>9
       DEF Ledger!Consolidate, Inviting, Outcome, Shown, Drafted, Quoted, Seen, Gone
  <2> QED
    BY <2>0, <2>8, <2>10, LedgerOfDraft
<1> QED
  BY <1>3, <1>4

\* A row that the interface for collaborations writes leaves the ledger.
LEMMA OverwriteRefines ==
    ASSUME TypeInv, CalledInv, NEW c \in Call, Overwrite(c),
           Overwritten' = Overwritten \cup {call[c].member}
    PROVE  Ledger!LedgerNext \/ Stands
<1>1. PICK m \in Member, status \in Statuses \ {"absent"}, result \in Results :
        /\ m = call[c].member /\ Rewrite(m, status, result)
        /\ UNCHANGED <<session, log, creation, execution, draft, faults>>
  BY OverwriteType
<1>2. CASE m \in Overwritten
  BY <1>1, <1>2, OutcomeWritten, AnswerRefines
<1>3. CASE m \notin Overwritten
  <2>1. /\ request[m].status \in Statuses /\ request[m].status # "absent"
        /\ Outcome[m].state = State(request[m].status)
    BY <1>1, <1>3, StatusNames DEF Overwrite, CalledInv, TypeInv, Outcome, Seen
  <2>2. Outcome[m].state \notin {"absent", "overwritten"}
    BY <2>1, StateNames, StatusNames DEF State
  <2>3. \A n \in Member \ {m} : request'[n] = request[n]
    BY <1>1, Rewritten
  <2>4. \A n \in Member : request'[n].visible = request[n].visible
    BY <1>1, RowWritten
  <2>5. Outcome' = [n \in Member |-> IF n \in Overwritten \cup {m} THEN Gone
                                    ELSE Seen(request'[n].status, request'[n].result)]
    BY <1>1 DEF Outcome, Seen, State, Gone
  <2>6. Outcome' = [Outcome EXCEPT ![m] = Gone] /\ Shown' = Shown
    <3>1. \A n \in Member \ {m} :
             Outcome[n] = IF n \in Overwritten \cup {m} THEN Gone
                          ELSE Seen(request'[n].status, request'[n].result)
      BY <2>3 DEF Outcome
    <3>2. Outcome = [n \in Member |-> Outcome[n]]
      BY DEF Outcome
    <3> QED
      BY <2>4, <2>5, <3>1, <3>2 DEF Shown
  <2>7. Quoted' = Quoted \ {m} /\ DOMAIN Drafted = Quoted
    BY <1>1 DEF Quoted, Drafted
  <2>8. Drafted' = [n \in Quoted' |-> [outcome |-> Seen(draft.rows[n].status, draft.rows[n].result),
                                      files |-> draft.files[n]]]
    BY <1>1 DEF Drafted, Seen, State
  <2>9. Drafted' = [n \in DOMAIN Drafted \ {m} |-> Drafted[n]]
    BY <2>7, <2>8 DEF Drafted
  <2>10. Inviting' = Inviting /\ session' = session
    BY <1>1 DEF Inviting
  <2>11. Ledger!Overwrite(m)
    BY <2>2, <2>6, <2>9, <2>10
       DEF Ledger!Overwrite, Inviting, Outcome, Shown, Drafted, Quoted, Seen, Gone
  <2> QED
    BY <2>11, LedgerOfMember
<1> QED
  BY <1>2, <1>3

LEMMA FailRunRefines ==
    ASSUME TypeInv, NEW c \in Call, FailRun(c), Overwritten' = Overwritten
    PROVE  Stands
<1>1. PICK m \in Member, status \in Statuses, result \in Results :
        /\ m = call[c].member /\ Rewrite(m, status, result)
        /\ UNCHANGED <<session, log, creation, execution, draft, faults>>
  BY OverwriteType
<1>2. m \in Overwritten
  BY <1>1 DEF FailRun, Overwritten
<1> QED
  BY <1>1, <1>2, OutcomeWritten, AnswerRefines


LEMMA LedgerStep ==
    RowInv /\ DraftInv /\ SessionInv /\ LedgerInv /\ [Next]_vars
    => [Ledger!LedgerNext]_(Ledger!ledgerVars)
<1> SUFFICES ASSUME RowInv, DraftInv, SessionInv, LedgerInv, [Next]_vars
             PROVE  Ledger!LedgerNext \/ Stands
  BY DEF Ledger!ledgerVars, Stands, Inviting, Outcome, Shown, Drafted, Quoted, Seen, Gone
<1>0. TypeInv /\ AbsentInv /\ CalledInv /\ CallInv /\ TimerInv /\ PresentInv
  BY DEF RowInv, LedgerInv
<1> SUFFICES ASSUME Overwritten' = Overwritten, ~\E c \in Call : Overwrite(c)
             PROVE  Ledger!LedgerNext \/ Stands
  BY <1>0, OverwrittenMoves, OverwriteRefines
<1>1. CASE Creating
  BY <1>0, <1>1, CreatingRefines
<1>2. ASSUME NEW c \in Call, Commit(c) PROVE Ledger!LedgerNext \/ Stands
  BY <1>0, <1>2, CommitRefines
<1>3. ASSUME NEW m \in Member, Executing(m) PROVE Ledger!LedgerNext \/ Stands
  BY <1>0, <1>3, ExecutingRefines
<1>4. CASE UNCHANGED <<session, request, creation, draft>>
  BY <1>4, SameRequests, SameDraft DEF Stands, Inviting
<1>5. CASE ReadRequests
  <2>1. draft'.step # "drafted" /\ UNCHANGED <<session, request, creation>>
    BY <1>5 DEF ReadRequests
  <2>2. Drafted' = [m \in {} |-> None] /\ UNCHANGED <<session, Inviting, Outcome, Shown>>
    BY <2>1, NoDraftQuotes, SameRequests DEF Inviting
  <2>3. Ledger!DropDraft
    BY <2>2 DEF Ledger!DropDraft, Inviting, Outcome, Shown, Drafted, Quoted, Seen, Gone
  <2> QED
    BY <2>3 DEF Ledger!LedgerNext
<1>6. CASE Consolidate
  BY <1>6, ConsolidateRefines
<1>7. CASE Publish
  <2>1. session = "running" /\ session' = "published" /\ UNCHANGED <<creation, draft>>
    BY <1>0, <1>7 DEF Publish, TypeInv
  <2>2. /\ request' \in [Member -> Row]
        /\ \A m \in Member : /\ request'[m].status = request[m].status
                             /\ request'[m].result = request[m].result
                             /\ request'[m].visible = (request[m].status # "absent")
    <3>1. \A m \in Member : request'[m] = [request[m] EXCEPT !.visible = request[m].status # "absent"]
      BY <1>7 DEF Publish
    <3>2. \A m \in Member : request[m] \in Row
      BY <1>0 DEF TypeInv
    <3> QED
      BY <1>0, <1>7, <3>1, <3>2, Published DEF Row
  <2>3. Outcome' = Outcome
    BY <2>2 DEF Outcome, Seen, State, Gone
  <2>4. \A m \in Member : Outcome[m].state # "absent" <=> request[m].status # "absent"
    <3>1. \A m \in Overwritten : request[m].status # "absent"
      BY <1>0 DEF Overwritten, CalledInv
    <3>2. \A m \in Member : request[m].status \in Statuses
      BY <1>0, StatusNames DEF TypeInv
    <3> QED
      BY <3>1, <3>2, StateNames DEF Outcome, Seen, Gone
  <2>5. Shown' = Ledger!Present
    BY <2>2, <2>4 DEF Shown, Ledger!Present, Outcome, Seen, Gone
  <2>6. Inviting' = Inviting /\ Drafted' = Drafted
    BY <2>1, SameDraft DEF Inviting
  <2>7. Ledger!Publish
    BY <2>1, <2>3, <2>5, <2>6
       DEF Ledger!Publish, Inviting, Outcome, Shown, Drafted, Quoted, Seen, Gone
  <2> QED
    BY <2>7 DEF Ledger!LedgerNext
<1>8. CASE Close
  <2>1. /\ session \in {"running", "published"} /\ session' \in {"closed", "dissolved"}
        /\ UNCHANGED <<Inviting, Outcome, Shown, Drafted>>
    BY <1>0, <1>8, SameRequests, SameDraft DEF Close, TypeInv, Closed, Inviting
  <2>2. Ledger!Close
    BY <2>1 DEF Ledger!Close, Inviting, Outcome, Shown, Drafted, Quoted, Seen, Gone
  <2> QED
    BY <2>2 DEF Ledger!LedgerNext
\* A crash loses what is under way: the invitations that are left, and the
\* rows a consolidation had read.
<1>9. CASE Crash
  <2>1. /\ UNCHANGED <<session, Outcome, Shown>>
        /\ draft' = draft \/ (draft.step # "drafted" /\ draft'.step # "drafted")
    BY <1>9, SameRequests DEF Crash, NoDraft
  <2>2. Drafted' = Drafted
    BY <2>1, SameDraft, NoDraftQuotes
  <2>3. ~Inviting'
    <3>1. creation'.step = IF creation.step = "idle" THEN "idle" ELSE "ended"
      BY <1>0, <1>9, CreationAt DEF Crash, TypeInv
    <3> QED
      BY <3>1 DEF Inviting
  <2>4. CASE Inviting
    <3>1. Ledger!StopInviting
      BY <2>1, <2>2, <2>3, <2>4
         DEF Ledger!StopInviting, Inviting, Outcome, Shown, Drafted, Quoted, Seen, Gone
    <3> QED
      BY <3>1 DEF Ledger!LedgerNext
  <2>5. CASE ~Inviting
    <3>1. Inviting' = Inviting
      BY <2>3, <2>5 DEF Inviting
    <3> QED
      BY <2>1, <2>2, <3>1 DEF Stands
  <2> QED
    BY <2>4, <2>5
<1>10. ASSUME NEW c \in Call, FailRun(c) PROVE Ledger!LedgerNext \/ Stands
  BY <1>0, <1>10, FailRunRefines
<1> QED
  BY <1>1, <1>2, <1>3, <1>4, <1>5, <1>6, <1>7, <1>8, <1>9, <1>10
     DEF Next, Answering, CheckCall, Refuse, LoseExecution, vars

\* The whole session, with its reads taken apart from its writes, its timers
\* and its crashes, is the ledger its creator and its members believe in.
THEOREM CoopImplemented == Spec => ImplementsCoop
<1>1. Init => Ledger!LedgerInit
  <2> SUFFICES ASSUME Init PROVE Ledger!LedgerInit
    OBVIOUS
  <2>1. /\ session = "none" /\ Inviting = FALSE
        /\ \A m \in Member : request[m].status = "absent" /\ request[m].result = None
                             /\ request[m].visible = FALSE
    BY DEF Init, NoRow, Inviting
  <2>2. Outcome = [m \in Member |-> [state |-> "absent", result |-> None]] /\ Shown = {}
    <3>1. Overwritten = {}
      BY DEF Init, Overwritten, IdleCall
    <3> QED
      BY <2>1, <3>1, StateNames DEF Outcome, Seen, Shown
  <2>3. Drafted = [m \in {} |-> None]
    BY NoDraftQuotes DEF Init, NoDraft
  <2> QED
    BY <2>1, <2>2, <2>3
       DEF Ledger!LedgerInit, Inviting, Outcome, Shown, Drafted, Quoted, Seen, Gone
<1>2. Init => DraftInv /\ SessionInv
  BY DEF Init, DraftInv, NoDraft, SessionInv
<1>3. RowInv => TypeInv
  BY DEF RowInv
<1>4. Spec => [](DraftInv /\ SessionInv)
  BY <1>2, <1>3, RowInvariant, DraftStep, SessionStep, PTL DEF Spec
<1> QED
  BY <1>1, <1>4, RowInvariant, LedgerInvariant, LedgerStep, PTL
     DEF Spec, ImplementsCoop, Ledger!LedgerSpec

==============================================================================
