-------------------------- MODULE ChatSessionProofs --------------------------
(* Theorems about ChatSession for any requests and deletions.              *)
EXTENDS ChatSession, FiniteSetTheorems, TLAPS

-----------------------------------------------------------------------------
(* Type correctness                                                        *)

RunState == [step : {"idle", "active", "ended"}, tracked : BOOLEAN]
DeletionState == [step : {"idle"} \cup Holds \cup Ended, expert : BOOLEAN]

\* Waking the waiting deletions makes them see an idle conversation.
LEMMA Notified ==
    ASSUME deletion \in [Deletion -> DeletionState]
    PROVE  /\ NotifyIdle(deletion) \in [Deletion -> DeletionState]
           /\ \A d \in Deletion :
                 NotifyIdle(deletion)[d].step =
                    IF deletion[d].step = "waiting" THEN "idleSeen" ELSE deletion[d].step
BY DEF NotifyIdle, DeletionState, Holds, Past

\* ... which the sweep does when it drops the record.
LEMMA AfterSweepType ==
    ASSUME deletion \in [Deletion -> DeletionState]
    PROVE  /\ AfterSweep \in [Deletion -> DeletionState]
           /\ \A d \in Deletion :
                 AfterSweep[d].step =
                    IF expired /\ deletion[d].step = "waiting" THEN "idleSeen"
                    ELSE deletion[d].step
BY Notified DEF AfterSweep

\* One deletion goes on, or is over.
LEMMA DeletionMoves ==
    ASSUME deletion \in [Deletion -> DeletionState], NEW d \in Deletion,
           NEW step \in Holds \cup Ended, To(d, step) \/ End(d, step)
    PROVE  /\ deletion' \in [Deletion -> DeletionState]
           /\ deletion'[d].step = step
           /\ \A e \in Deletion \ {d} : deletion'[e] = deletion[e]
<1>1. CASE To(d, step)
  BY <1>1 DEF To, DeletionState
<1>2. CASE End(d, step)
  BY <1>2 DEF End, DeletionState
<1> QED
  BY <1>1, <1>2

\* What every step of a delete request does to the requests and the lock.
LEMMA DeletingMoves ==
    ASSUME deletion \in [Deletion -> DeletionState], NEW d \in Deletion, Deleting(d)
    PROVE  /\ deletion' \in [Deletion -> DeletionState]
           /\ \A e \in Deletion \ {d} : deletion'[e] = deletion[e]
           /\ deletion[d].step \in Holds
           /\ \/ deletion'[d].step \in Past /\ deletion[d].step \in Past /\ lock' = lock
              \/ deletion'[d].step \in Ended /\ lock' = FALSE
           /\ UNCHANGED chatVars
<1>1. CASE WaitTimeout(d)
  BY <1>1, DeletionMoves DEF WaitTimeout, Unlock, Holds, Past, Ended
<1>2. CASE CheckTasks(d)
  BY <1>2, DeletionMoves DEF CheckTasks, Unlock, Holds, Past, Ended
<1>3. CASE RemoveTranscript(d)
  BY <1>3, DeletionMoves DEF RemoveTranscript, Unlock, Holds, Past, Ended
<1>4. CASE DeleteTasks(d)
  BY <1>4, DeletionMoves DEF DeleteTasks, Unlock, Holds, Past, Ended
<1>5. CASE FinishDeletion(d)
  BY <1>5, DeletionMoves DEF FinishDeletion, Unlock, Holds, Past, Ended
<1>6. CASE FailDeletion(d)
  BY <1>6, DeletionMoves DEF FailDeletion, Holds, Past, Ended
<1>7. CASE RemovalThrows(d)
  BY <1>7, DeletionMoves DEF RemovalThrows, Holds, Past, Ended
<1> QED
  BY <1>1, <1>2, <1>3, <1>4, <1>5, <1>6, <1>7 DEF Deleting

LEMMA RunMoves ==
    ASSUME run \in [Run -> RunState], NEW r \in Run,
           NEW b \in BOOLEAN, NEW step \in {"active", "ended"},
           run' = [run EXCEPT ![r] = [step |-> step, tracked |-> b]]
    PROVE  /\ run' \in [Run -> RunState]
           /\ run'[r] = [step |-> step, tracked |-> b]
           /\ \A s \in Run \ {r} : run'[s] = run[s]
<1>1. [step |-> step, tracked |-> b] \in RunState
  BY DEF RunState
<1> QED
  BY <1>1

\* Steps that are neither of the chat table nor of a deletion.
Elsewhere ==
    \/ \E r \in Run : WriteTranscript(r)
    \/ SubmitTask \/ TasksEnd \/ Listing
    \/ UNCHANGED vars

LEMMA ElsewhereKeeps == Elsewhere => UNCHANGED <<chatVars, deleteVars>>
BY DEF Elsewhere, WriteTranscript, SubmitTask, TasksEnd, Listing, BeginLoad, LoadTasks,
       LoadFiles, EndLoad, FailLoad, Evict, vars, chatVars, deleteVars

LEMMA StepCases ==
    ASSUME [Next]_vars
    PROVE  \/ Elsewhere
           \/ Expire \/ SweepByOther
           \/ \E r \in Run : SendLocked(r) \/ SendUntracked(r) \/ SendTracked(r) \/ EndRun(r)
           \/ \E d \in Deletion : Deleting(d) \/ \E expert \in BOOLEAN : BeginDeletion(d, expert)
BY DEF Next, Chatting, Elsewhere

LoadState == [step : {"none", "tasks", "files", "merge"}, current : BOOLEAN, found : BOOLEAN]

\* The history, the tasks and the list.
DataOK ==
    /\ transcript \in BOOLEAN
    /\ tasks \in {"none", "active", "ended"}
    /\ cache \in {"none", "shown", "absent"}
    /\ load \in LoadState

LEMMA LoadMoves ==
    ASSUME load \in LoadState,
           NEW step \in {"none", "tasks", "files", "merge"}, NEW b \in BOOLEAN
    PROVE  /\ NoLoad \in LoadState
           /\ [load EXCEPT !.current = b] \in LoadState
           /\ [load EXCEPT !.step = step, !.found = b] \in LoadState
           /\ [NoLoad EXCEPT !.step = step, !.current = b] \in LoadState
BY DEF LoadState, NoLoad

LEMMA DataStep ==
    ASSUME DataOK, [Next]_vars
    PROVE  DataOK'
<1> USE DEF DataOK, chatVars, deleteVars, dataVars, listVars
<1>1. Invalidate => cache' \in {"none", "shown", "absent"} /\ load' \in LoadState
  BY LoadMoves DEF Invalidate
<1>2. CASE Listing
  <2>1. CASE BeginLoad
    BY <2>1, LoadMoves DEF BeginLoad
  <2>2. CASE LoadTasks
    BY <2>2, LoadMoves DEF LoadTasks
  <2>3. CASE LoadFiles
    <3>1. load.found \in BOOLEAN
      BY DEF LoadState
    <3> DEFINE b == load.found \/ transcript
    <3>2. b \in BOOLEAN
      BY <3>1
    <3>3. load' = [load EXCEPT !.step = "merge", !.found = b]
      BY <2>3 DEF LoadFiles
    <3> HIDE DEF b
    <3>4. load' \in LoadState
      BY <3>2, <3>3, LoadMoves
    <3> QED
      BY <2>3, <3>4 DEF LoadFiles
  <2>4. CASE EndLoad
    BY <2>4, LoadMoves DEF EndLoad, StoreLoaded
  <2>5. CASE FailLoad
    BY <2>5, LoadMoves DEF FailLoad
  <2>6. CASE Evict
    BY <2>6 DEF Evict
  <2> QED
    BY <1>2, <2>1, <2>2, <2>3, <2>4, <2>5, <2>6 DEF Listing
<1>3. CASE Elsewhere
  BY <1>2, <1>3 DEF Elsewhere, WriteTranscript, SubmitTask, TasksEnd, vars
<1>4. CASE Expire \/ SweepByOther
  BY <1>4 DEF Expire, SweepByOther
<1>5. ASSUME NEW r \in Run,
             SendLocked(r) \/ SendUntracked(r) \/ SendTracked(r) \/ EndRun(r)
      PROVE  DataOK'
  BY <1>1, <1>5 DEF SendLocked, SendUntracked, SendTracked, EndRun
<1>6. ASSUME NEW d \in Deletion, NEW expert \in BOOLEAN, BeginDeletion(d, expert)
      PROVE  DataOK'
  BY <1>6 DEF BeginDeletion
<1>7. ASSUME NEW d \in Deletion, Deleting(d)
      PROVE  DataOK'
  BY <1>1, <1>7 DEF Deleting, WaitTimeout, CheckTasks, RemoveTranscript, RemovalThrows, DeleteTasks,
                    FinishDeletion, FailDeletion
<1> QED
  BY <1>3, <1>4, <1>5, <1>6, <1>7, StepCases

\* The requests and the table; a record is of a run under way.
ChatOK ==
    /\ run \in [Run -> RunState]
    /\ record \in InFlight \cup {None}
    /\ expired \in BOOLEAN
    /\ expired => record # None
    /\ swept \in Nat
    /\ lock \in BOOLEAN
    /\ deletion \in [Deletion -> DeletionState]

LEMMA TypeParts == TypeOK <=> ChatOK /\ DataOK
BY DEF TypeOK, ChatOK, DataOK, RunState, DeletionState, LoadState

LEMMA ChatInit == Init => TypeOK
<1> SUFFICES ASSUME Init PROVE TypeOK
    OBVIOUS
<1>1. run \in [Run -> RunState] /\ deletion \in [Deletion -> DeletionState]
  BY DEF Init, RunState, DeletionState
<1>2. load \in LoadState
  BY DEF Init, NoLoad, LoadState
<1> QED
  BY <1>1, <1>2, TypeParts DEF Init, ChatOK, DataOK

\* A chat request that is let in is in flight if and only if it is tracked;
\* one that is refused or ends is not, and the others do not change.
LEMMA InFlightMoves ==
    ASSUME ChatOK, NEW r \in Run, NEW b \in BOOLEAN, NEW step \in {"active", "ended"},
           run' = [run EXCEPT ![r] = [step |-> step, tracked |-> b]]
    PROVE  InFlight' = IF step = "active" /\ b THEN InFlight \cup {r} ELSE InFlight \ {r}
<1>1. \A s \in Run : s \in InFlight' <=> run'[s].step = "active" /\ run'[s].tracked
  BY DEF InFlight
<1>2. \A s \in Run : s \in InFlight <=> run[s].step = "active" /\ run[s].tracked
  BY DEF InFlight
<1>3. InFlight \subseteq Run /\ InFlight' \subseteq Run
  BY DEF InFlight
<1>4. r \in InFlight' <=> step = "active" /\ b
  BY <1>1, RunMoves DEF ChatOK
<1>5. \A s \in Run \ {r} : s \in InFlight' <=> s \in InFlight
  BY <1>1, <1>2, RunMoves DEF ChatOK
<1> QED
  BY <1>3, <1>4, <1>5

LEMMA ChatStep ==
    ASSUME ChatOK, [Next]_vars
    PROVE  ChatOK'
<1> USE DEF chatVars, deleteVars, dataVars, listVars
<1>0. deletion \in [Deletion -> DeletionState]
  BY DEF ChatOK
<1>1. CASE Elsewhere
  BY <1>1, ElsewhereKeeps DEF ChatOK, InFlight
<1>2. CASE Expire
  BY <1>2 DEF Expire, ChatOK, InFlight
<1>3. CASE SweepByOther
  <2>1. deletion' \in [Deletion -> DeletionState] /\ InFlight' = InFlight
    BY <1>0, <1>3, AfterSweepType DEF SweepByOther, InFlight
  <2>2. record' = None /\ expired' = FALSE /\ swept' \in Nat
    BY <1>3 DEF SweepByOther, Sweep, Swept, ChatOK
  <2> QED
    BY <1>3, <2>1, <2>2 DEF SweepByOther, ChatOK
<1>4. ASSUME NEW r \in Run, SendLocked(r)
      PROVE  ChatOK'
  <2>1. run[r].step = "idle" /\ r \notin InFlight
    BY <1>4 DEF SendLocked, InFlight
  <2>2. run' = [run EXCEPT ![r] = [step |-> "ended", tracked |-> FALSE]]
    BY <1>4 DEF SendLocked, Answered
  <2>3. InFlight' = InFlight \ {r} /\ run' \in [Run -> RunState]
    BY <2>2, InFlightMoves, RunMoves DEF ChatOK
  <2>4. InFlight' = InFlight
    BY <2>1, <2>3
  <2> QED
    BY <1>4, <2>3, <2>4 DEF SendLocked, ChatOK
<1>5. ASSUME NEW r \in Run, SendUntracked(r)
      PROVE  ChatOK'
  <2>1. run[r].step = "idle" /\ r \notin InFlight
    BY <1>5 DEF SendUntracked, InFlight
  <2>2. run' = [run EXCEPT ![r] = [step |-> "active", tracked |-> FALSE]]
    BY <1>5 DEF SendUntracked, Active
  <2>3. InFlight' = InFlight \ {r} /\ run' \in [Run -> RunState]
    BY <2>2, InFlightMoves, RunMoves DEF ChatOK
  <2>4. InFlight' = InFlight
    BY <2>1, <2>3
  <2> QED
    BY <1>5, <2>3, <2>4 DEF SendUntracked, ChatOK
<1>6. ASSUME NEW r \in Run, SendTracked(r)
      PROVE  ChatOK'
  <2>1. run[r].step = "idle" /\ r \notin InFlight
    BY <1>6 DEF SendTracked, InFlight
  <2>2. /\ AfterSweep \in [Deletion -> DeletionState]
        /\ swept' \in Nat /\ expired' = FALSE
    BY <1>0, <1>6, AfterSweepType DEF SendTracked, Sweep, ChatOK
  <2>3. CASE Swept # None
    <3>0. run' = [run EXCEPT ![r] = [step |-> "ended", tracked |-> FALSE]]
      BY <1>6, <2>3 DEF SendTracked, Answered
    <3>1. InFlight' = InFlight \ {r} /\ run' \in [Run -> RunState]
      BY <3>0, InFlightMoves, RunMoves DEF ChatOK
    <3> QED
      BY <1>6, <2>1, <2>2, <2>3, <3>1 DEF SendTracked, Swept, ChatOK
  <2>4. CASE Swept = None
    <3>1. InFlight' = InFlight \cup {r} /\ run' \in [Run -> RunState]
      BY <1>6, <2>1, <2>4, InFlightMoves, RunMoves DEF SendTracked, Active, ChatOK
    <3> QED
      BY <1>6, <2>2, <2>4, <3>1 DEF SendTracked, ChatOK
  <2> QED
    BY <2>3, <2>4
<1>7. ASSUME NEW r \in Run, EndRun(r)
      PROVE  ChatOK'
  <2>1. InFlight' = InFlight \ {r} /\ run' \in [Run -> RunState]
    BY <1>7, InFlightMoves, RunMoves DEF EndRun, Answered, ChatOK
  <2>2. CASE run[r].tracked /\ record # None
    BY <1>0, <1>7, <2>1, <2>2, Notified DEF EndRun, ChatOK
  <2>3. CASE ~(run[r].tracked /\ record # None)
    <3>1. record # None => record # r
      BY <2>3 DEF ChatOK, InFlight
    <3> QED
      BY <1>7, <2>1, <2>3, <3>1 DEF EndRun, ChatOK
  <2> QED
    BY <2>2, <2>3
<1>8. ASSUME NEW d \in Deletion, Deleting(d)
      PROVE  ChatOK'
  BY <1>0, <1>8, DeletingMoves DEF ChatOK, InFlight
<1>9. ASSUME NEW d \in Deletion, NEW expert \in BOOLEAN, BeginDeletion(d, expert)
      PROVE  ChatOK'
  <2>1. deletion' \in [Deletion -> DeletionState]
    <3> DEFINE s == [step |-> IF lock THEN "ended"
                              ELSE IF Swept = None THEN "idleSeen" ELSE "waiting",
                     expert |-> expert /\ ~lock]
    <3>1. s \in DeletionState
      BY DEF DeletionState, Holds, Past, Ended, ChatOK
    <3>2. deletion' = [AfterSweep EXCEPT ![d] = s]
      BY <1>9 DEF BeginDeletion
    <3> HIDE DEF s
    <3> QED
      BY <1>0, <3>1, <3>2, AfterSweepType
  <2>2. /\ InFlight' = InFlight /\ run' = run /\ lock' = TRUE
        /\ record' \in {record, None} /\ expired' = FALSE /\ swept' \in Nat
    BY <1>9 DEF BeginDeletion, Sweep, Swept, ChatOK, InFlight
  <2> QED
    BY <2>1, <2>2 DEF ChatOK
<1> QED
  BY <1>1, <1>2, <1>3, <1>4, <1>5, <1>6, <1>7, <1>8, <1>9, StepCases

\* The table of runs in flight never keeps the record of a run that has ended,
\* through expiry, sweeps, refusals and late completions: types hold always.
THEOREM ChatTypeCorrect == Spec => []TypeOK
<1>1. TypeOK /\ [Next]_vars => TypeOK'
  BY ChatStep, DataStep
     DEF TypeOK, ChatOK, DataOK, RunState, DeletionState, LoadState
<1> QED
  BY <1>1, ChatInit, PTL DEF Spec

-----------------------------------------------------------------------------
(* The lock of the conversation and its holder                             *)

\* Holding the lock does not depend on which step of the deletion is next.
LEMMA HoldersSwept ==
    ASSUME ChatOK, NEW new \in [Deletion -> DeletionState],
           new = NotifyIdle(deletion) \/ new = AfterSweep
    PROVE  \A d \in Deletion : new[d].step \in Holds <=> deletion[d].step \in Holds
BY Notified, AfterSweepType DEF ChatOK, Holds, Past

LEMMA LockInit == Init => LockHasHolder
BY DEF Init, LockHasHolder, Holders, Holds, Past

LEMMA LockStep ==
    ASSUME ChatOK, LockHasHolder, [Next]_vars
    PROVE  LockHasHolder'
<1> USE DEF chatVars, deleteVars
<1>0. deletion \in [Deletion -> DeletionState]
  BY DEF ChatOK
<1>1. ASSUME lock' = lock,
             \A d \in Deletion : deletion'[d].step \in Holds <=> deletion[d].step \in Holds
      PROVE  LockHasHolder'
  BY <1>1 DEF LockHasHolder, Holders
<1>2. CASE Elsewhere
  BY <1>1, <1>2, ElsewhereKeeps
<1>3. CASE Expire
  BY <1>1, <1>3 DEF Expire
<1>4. CASE SweepByOther
  BY <1>0, <1>1, <1>4, HoldersSwept, AfterSweepType DEF SweepByOther
<1>5. ASSUME NEW r \in Run, SendLocked(r) \/ SendUntracked(r)
      PROVE  LockHasHolder'
  BY <1>1, <1>5 DEF SendLocked, SendUntracked
<1>6. ASSUME NEW r \in Run, SendTracked(r)
      PROVE  LockHasHolder'
  BY <1>0, <1>1, <1>6, HoldersSwept, AfterSweepType DEF SendTracked
<1>7. ASSUME NEW r \in Run, EndRun(r)
      PROVE  LockHasHolder'
  BY <1>0, <1>1, <1>7, HoldersSwept, Notified DEF EndRun
<1>8. ASSUME NEW d \in Deletion, Deleting(d)
      PROVE  LockHasHolder'
  <2>1. /\ \A e \in Deletion \ {d} : deletion'[e] = deletion[e]
        /\ deletion[d].step \in Holds
        /\ \/ deletion'[d].step \in Past /\ lock' = lock
           \/ deletion'[d].step \in Ended /\ lock' = FALSE
    BY <1>0, <1>8, DeletingMoves
  <2>2. \A e \in Deletion : deletion[e].step \in Holds => e = d
    BY <2>1 DEF LockHasHolder, Holders
  <2>3. CASE deletion'[d].step \in Past /\ lock' = lock
    BY <1>1, <2>1, <2>3 DEF Holds
  <2>4. CASE deletion'[d].step \in Ended /\ lock' = FALSE
    <3>1. Holders' = {}
      BY <2>1, <2>2, <2>4 DEF Holders, Holds, Past, Ended
    <3> QED
      BY <2>4, <3>1 DEF LockHasHolder
  <2> QED
    BY <2>1, <2>3, <2>4
<1>9. ASSUME NEW d \in Deletion, NEW expert \in BOOLEAN, BeginDeletion(d, expert)
      PROVE  LockHasHolder'
  <2>1. \A e \in Deletion \ {d} : deletion'[e].step \in Holds <=> deletion[e].step \in Holds
    BY <1>0, <1>9, HoldersSwept, AfterSweepType DEF BeginDeletion
  <2>2. /\ deletion[d].step = "idle" /\ lock' = TRUE
        /\ deletion'[d].step = IF lock THEN "ended"
                               ELSE IF Swept = None THEN "idleSeen" ELSE "waiting"
    BY <1>0, <1>9, AfterSweepType DEF BeginDeletion
  <2>3. CASE lock
    BY <1>1, <2>1, <2>2, <2>3 DEF Holds, Past
  <2>4. CASE ~lock
    <3>1. \A e \in Deletion : deletion[e].step \notin Holds
      BY <2>4 DEF LockHasHolder, Holders
    <3>2. deletion'[d].step \in Holds
      BY <2>2, <2>4 DEF Holds, Past
    <3>3. Holders' = {d}
      BY <2>1, <3>1, <3>2 DEF Holders
    <3> QED
      BY <2>2, <3>3 DEF LockHasHolder
  <2> QED
    BY <2>3, <2>4
<1> QED
  BY <1>2, <1>3, <1>4, <1>5, <1>6, <1>7, <1>8, <1>9, StepCases

\* At most one delete request holds the conversation's lock, and the lock is
\* held only while one does: every refusal, timeout and failure releases it.
THEOREM ChatLockHasHolder == Spec => []LockHasHolder
<1>1. TypeOK /\ LockHasHolder /\ [Next]_vars => LockHasHolder'
  BY LockStep, TypeParts
<1> QED
  BY <1>1, LockInit, ChatTypeCorrect, PTL DEF Spec

-----------------------------------------------------------------------------
(* Runs exclude each other, but for the runs that have outlived a record   *)

LEMMA InFlightFinite == IsFiniteSet(InFlight)
BY RequestsAssumption, FS_Subset DEF InFlight

LEMMA RunsInit == Init => OneRunPerRecord
<1> SUFFICES ASSUME Init PROVE OneRunPerRecord
    OBVIOUS
<1>1. InFlight = {}
  BY DEF Init, InFlight
<1> QED
  BY <1>1, FS_EmptySet DEF Init, OneRunPerRecord

LEMMA RunsStep ==
    ASSUME ChatOK, OneRunPerRecord, [Next]_vars
    PROVE  OneRunPerRecord'
<1> USE DEF chatVars, deleteVars
<1> DEFINE Card == Cardinality(InFlight)
           Held == IF record = None THEN 0 ELSE 1
<1>0. /\ Card \in Nat /\ swept \in Nat /\ Card <= Held + swept
  BY InFlightFinite, FS_CardinalityType DEF OneRunPerRecord, ChatOK
<1>1. ASSUME InFlight' = InFlight, record' = Swept, Sweep
      PROVE  OneRunPerRecord'
  BY <1>0, <1>1 DEF Sweep, Swept, OneRunPerRecord, ChatOK
<1>2. ASSUME InFlight' = InFlight, record' = record, swept' = swept
      PROVE  OneRunPerRecord'
  BY <1>2 DEF OneRunPerRecord
<1>3. CASE Elsewhere
  BY <1>2, <1>3, ElsewhereKeeps DEF InFlight
<1>4. CASE Expire
  BY <1>2, <1>4 DEF Expire, InFlight
<1>5. CASE SweepByOther
  BY <1>1, <1>5 DEF SweepByOther, InFlight
<1>6. ASSUME NEW r \in Run, SendLocked(r) \/ SendUntracked(r)
      PROVE  OneRunPerRecord'
  <2>1. run' \in {[run EXCEPT ![r] = [step |-> step, tracked |-> FALSE]] :
                     step \in {"active", "ended"}}
    BY <1>6 DEF SendLocked, SendUntracked, Active, Answered
  <2>2. InFlight' = InFlight \ {r}
    BY <2>1, InFlightMoves
  <2>3. r \notin InFlight
    BY <1>6 DEF SendLocked, SendUntracked, InFlight
  <2> QED
    BY <1>2, <1>6, <2>2, <2>3 DEF SendLocked, SendUntracked
<1>7. ASSUME NEW r \in Run, SendTracked(r)
      PROVE  OneRunPerRecord'
  <2>1. r \notin InFlight
    BY <1>7 DEF SendTracked, InFlight
  <2>2. CASE Swept # None
    <3>1. run' = [run EXCEPT ![r] = [step |-> "ended", tracked |-> FALSE]]
      BY <1>7, <2>2 DEF SendTracked, Answered
    <3>2. InFlight' = InFlight \ {r}
      BY <3>1, InFlightMoves
    <3> QED
      BY <1>1, <1>7, <2>1, <2>2, <3>2 DEF SendTracked
  <2>3. CASE Swept = None
    <3>1. run' = [run EXCEPT ![r] = [step |-> "active", tracked |-> TRUE]]
      BY <1>7, <2>3 DEF SendTracked, Active
    <3>2. InFlight' = InFlight \cup {r}
      BY <3>1, InFlightMoves
    <3>3. Cardinality(InFlight') = Card + 1
      BY <2>1, <3>2, InFlightFinite, FS_AddElement
    <3>4. record' = r /\ r # None
      BY <1>7, <2>3, NoneAssumption DEF SendTracked
    <3>5. Held + swept = swept'
      <4>1. CASE expired
        BY <1>0, <1>7, <4>1 DEF SendTracked, Sweep, ChatOK
      <4>2. CASE ~expired
        BY <1>0, <1>7, <2>3, <4>2 DEF SendTracked, Sweep, Swept
      <4> QED
        BY <4>1, <4>2
    <3> QED
      BY <1>0, <3>3, <3>4, <3>5 DEF OneRunPerRecord
  <2> QED
    BY <2>2, <2>3
<1>8. ASSUME NEW r \in Run, EndRun(r)
      PROVE  OneRunPerRecord'
  <2>1. run' = [run EXCEPT ![r] = [step |-> "ended", tracked |-> FALSE]] /\ swept' = swept
    BY <1>8 DEF EndRun, Answered
  <2>2. InFlight' = InFlight \ {r}
    BY <2>1, InFlightMoves
  <2>3. Cardinality(InFlight') = IF r \in InFlight THEN Card - 1 ELSE Card
    BY <2>2, InFlightFinite, FS_RemoveElement
  <2>4. CASE run[r].tracked /\ record # None
    <3>1. r \in InFlight /\ record' = None
      BY <1>8, <2>4 DEF EndRun, InFlight
    <3> QED
      BY <1>0, <2>1, <2>3, <2>4, <3>1 DEF OneRunPerRecord
  <2>5. CASE ~(run[r].tracked /\ record # None)
    <3>1. record' = record
      BY <1>8, <2>5 DEF EndRun
    <3> QED
      BY <1>0, <2>1, <2>3, <3>1 DEF OneRunPerRecord
  <2> QED
    BY <2>4, <2>5
<1>9. ASSUME NEW d \in Deletion, Deleting(d)
      PROVE  OneRunPerRecord'
  BY <1>2, <1>9, DeletingMoves DEF ChatOK, InFlight
<1>10. ASSUME NEW d \in Deletion, NEW expert \in BOOLEAN, BeginDeletion(d, expert)
       PROVE  OneRunPerRecord'
  BY <1>1, <1>10 DEF BeginDeletion, InFlight
<1> QED
  BY <1>3, <1>4, <1>5, <1>6, <1>7, <1>8, <1>9, <1>10, StepCases

\* However many requests, expiries and late completions there are, the tracked
\* runs at work are one for the record and one for each record swept away.
THEOREM ChatOneRunPerRecord == Spec => []OneRunPerRecord
<1>1. TypeOK /\ OneRunPerRecord /\ [Next]_vars => OneRunPerRecord'
  BY RunsStep, TypeParts
<1> QED
  BY <1>1, RunsInit, ChatTypeCorrect, PTL DEF Spec

-----------------------------------------------------------------------------
(* A deletion that has seen the conversation idle                          *)

LEMMA ExcludesInit == Init => DeletionExcludesRuns
BY DEF Init, DeletionExcludesRuns, Past

LEMMA ExcludesStep ==
    ASSUME ChatOK, OneRunPerRecord, OneRunPerRecord', ChatOK', LockHasHolder,
           DeletionExcludesRuns, [Next]_vars
    PROVE  DeletionExcludesRuns'
<1> USE DEF chatVars, deleteVars
<1>0. deletion \in [Deletion -> DeletionState]
  BY DEF ChatOK
\* It is enough that the record is gone whenever a deletion is past its wait.
<1>1. ASSUME (\E d \in Deletion : deletion'[d].step \in Past) => record' = None
      PROVE  DeletionExcludesRuns'
  <2>1. swept' = 0 /\ record' = None => InFlight' = {}
    <3>1. IsFiniteSet(InFlight') /\ Cardinality(InFlight') \in Nat
      <4>1. InFlight' \subseteq Run
        BY DEF InFlight
      <4> QED
        BY <4>1, RequestsAssumption, FS_Subset, FS_CardinalityType
    <3> QED
      BY <3>1, FS_EmptySet DEF OneRunPerRecord
  <2> QED
    BY <1>1, <2>1 DEF DeletionExcludesRuns
<1>2. ASSUME \A d \in Deletion : deletion'[d].step \in Past => deletion[d].step \in Past,
             record' \in {record, None}
      PROVE  DeletionExcludesRuns'
  BY <1>1, <1>2 DEF DeletionExcludesRuns
<1>3. CASE Elsewhere
  BY <1>2, <1>3, ElsewhereKeeps
<1>4. CASE Expire
  BY <1>2, <1>4 DEF Expire
<1>5. CASE SweepByOther
  BY <1>1, <1>5 DEF SweepByOther, Swept
<1>6. ASSUME NEW r \in Run, SendLocked(r) \/ SendUntracked(r)
      PROVE  DeletionExcludesRuns'
  BY <1>2, <1>6 DEF SendLocked, SendUntracked
\* A run is let in only while nobody holds the lock.
<1>7. ASSUME NEW r \in Run, SendTracked(r)
      PROVE  DeletionExcludesRuns'
  <2>1. \A d \in Deletion : deletion[d].step \notin Holds
    BY <1>7 DEF SendTracked, MayStart, LockHasHolder, Holders
  <2>2. \A d \in Deletion : deletion'[d].step \notin Past
    BY <1>0, <1>7, <2>1, AfterSweepType DEF SendTracked, Holds
  <2> QED
    BY <1>1, <2>2
<1>8. ASSUME NEW r \in Run, EndRun(r)
      PROVE  DeletionExcludesRuns'
  <2>1. CASE run[r].tracked /\ record # None
    BY <1>1, <1>8, <2>1 DEF EndRun
  <2>2. CASE ~(run[r].tracked /\ record # None)
    BY <1>2, <1>8, <2>2 DEF EndRun
  <2> QED
    BY <2>1, <2>2
<1>9. ASSUME NEW d \in Deletion, Deleting(d)
      PROVE  DeletionExcludesRuns'
  <2>1. /\ \A e \in Deletion \ {d} : deletion'[e] = deletion[e]
        /\ deletion'[d].step \in Past => deletion[d].step \in Past
        /\ UNCHANGED chatVars
    BY <1>0, <1>9, DeletingMoves DEF Past, Ended
  <2> QED
    BY <1>2, <2>1
<1>10. ASSUME NEW d \in Deletion, NEW expert \in BOOLEAN, BeginDeletion(d, expert)
       PROVE  DeletionExcludesRuns'
  <2>1. /\ \A e \in Deletion \ {d} :
              deletion'[e].step = IF expired /\ deletion[e].step = "waiting" THEN "idleSeen"
                                  ELSE deletion[e].step
        /\ deletion'[d].step \in Past => Swept = None
        /\ record' = Swept
    BY <1>0, <1>10, AfterSweepType DEF BeginDeletion, Past
  <2>2. Swept \in {record, None} /\ (expired => Swept = None)
    BY DEF Swept
  <2>3. CASE Swept = None
    BY <1>1, <2>1, <2>3
  <2>4. CASE Swept # None
    BY <1>2, <2>1, <2>2, <2>4
  <2> QED
    BY <2>3, <2>4
<1> QED
  BY <1>3, <1>4, <1>5, <1>6, <1>7, <1>8, <1>9, <1>10, StepCases

\* A delete request that has passed its idle check meets no recorded run until
\* it ends, and no tracked run at all unless one has outlived its record.
THEOREM ChatDeletionExcludesRuns == Spec => []DeletionExcludesRuns
<1>1. /\ TypeOK /\ TypeOK' /\ OneRunPerRecord /\ OneRunPerRecord' /\ LockHasHolder
      /\ DeletionExcludesRuns /\ [Next]_vars
      => DeletionExcludesRuns'
  BY ExcludesStep
     DEF TypeOK, ChatOK, RunState, DeletionState
<1> QED
  BY <1>1, ExcludesInit, ChatTypeCorrect, ChatOneRunPerRecord, ChatLockHasHolder, PTL DEF Spec

-----------------------------------------------------------------------------
(* The cached list                                                         *)

\* The list may show a conversation that is gone while a deletion has yet to
\* invalidate it, or after one that failed half-way.
Stale == \E d \in Deletion : deletion[d].step \in {"removed", "deleted", "half"}

\* The same holds of a load that will be kept.
ListInv ==
    /\ cache = "shown" /\ ~Exists => Stale
    /\ load.step # "none" /\ load.current /\ load.found /\ ~Exists => Stale

LEMMA ListInit == Init => ListInv
BY DEF Init, ListInv, NoLoad

\* A deletion that is stale stays so until its end invalidates the list.
LEMMA StaleMoves ==
    ASSUME ChatOK, DataOK, [Next]_vars
    PROVE  \/ Stale => Stale'
           \/ cache' = "none" /\ ~load'.current
<1> USE DEF chatVars, deleteVars
<1>0. deletion \in [Deletion -> DeletionState]
  BY DEF ChatOK
<1>1. CASE UNCHANGED deletion
  BY <1>1 DEF Stale
<1>2. ASSUME NEW new \in [Deletion -> DeletionState],
             new = NotifyIdle(deletion) \/ new = AfterSweep
      PROVE  \A d \in Deletion : deletion[d].step # "waiting" => new[d].step = deletion[d].step
  BY <1>0, <1>2, Notified, AfterSweepType
<1>3. CASE SweepByOther \/ \E r \in Run : SendTracked(r) \/ EndRun(r)
  <2>1. \/ UNCHANGED deletion
        \/ deletion' = NotifyIdle(deletion)
        \/ deletion' = AfterSweep
    BY <1>3 DEF SweepByOther, SendTracked, EndRun
  <2> QED
    BY <1>0, <1>1, <1>2, <2>1, Notified, AfterSweepType DEF Stale
<1>4. ASSUME NEW d \in Deletion, Deleting(d)
      PROVE  \/ Stale => Stale'
             \/ cache' = "none" /\ ~load'.current
  <2>1. CASE FinishDeletion(d)
    <3>1. load' = [load EXCEPT !.current = FALSE] /\ cache' = "none"
      BY <2>1 DEF FinishDeletion, Invalidate
    <3> QED
      BY <3>1 DEF DataOK, LoadState
  <2>2. CASE ~FinishDeletion(d)
    <3>1. /\ \A e \in Deletion \ {d} : deletion'[e] = deletion[e]
          /\ deletion[d].step \in {"removed", "deleted", "half"}
             => deletion'[d].step \in {"removed", "deleted", "half"}
      BY <1>0, <1>4, <2>2, DeletionMoves
         DEF Deleting, WaitTimeout, CheckTasks, RemoveTranscript, RemovalThrows, DeleteTasks,
             FailDeletion, Unlock, Holds, Past, Ended
    <3> QED
      BY <3>1 DEF Stale
  <2> QED
    BY <2>1, <2>2
<1>5. ASSUME NEW d \in Deletion, NEW expert \in BOOLEAN, BeginDeletion(d, expert)
      PROVE  Stale => Stale'
  <2>1. \A e \in Deletion \ {d} : deletion'[e] = AfterSweep[e]
    BY <1>0, <1>5, AfterSweepType DEF BeginDeletion
  <2>2. deletion[d].step = "idle"
    BY <1>5 DEF BeginDeletion
  <2> QED
    BY <1>0, <2>1, <2>2, AfterSweepType DEF Stale
<1>6. CASE Elsewhere \/ Expire \/ \E r \in Run : SendLocked(r) \/ SendUntracked(r)
  BY <1>1, <1>6, ElsewhereKeeps DEF Expire, SendLocked, SendUntracked
<1> QED
  BY <1>3, <1>4, <1>5, <1>6, StepCases

\* Only the two removals of a deletion make a conversation disappear.
LEMMA ExistsMoves ==
    ASSUME ChatOK, DataOK, [Next]_vars
    PROVE  Exists => Exists' \/ Stale'
<1> USE DEF chatVars, deleteVars, dataVars, listVars
<1>0. deletion \in [Deletion -> DeletionState]
  BY DEF ChatOK
<1>1. CASE UNCHANGED dataVars
  BY <1>1 DEF Exists
<1>2. CASE Elsewhere
  BY <1>1, <1>2
     DEF Elsewhere, WriteTranscript, SubmitTask, TasksEnd, Listing, BeginLoad, LoadTasks,
         LoadFiles, EndLoad, FailLoad, Evict, vars, Exists
<1>3. CASE Expire \/ SweepByOther
           \/ \E r \in Run : SendLocked(r) \/ SendUntracked(r) \/ SendTracked(r) \/ EndRun(r)
  BY <1>1, <1>3 DEF Expire, SweepByOther, SendLocked, SendUntracked, SendTracked, EndRun
<1>4. ASSUME NEW d \in Deletion, NEW expert \in BOOLEAN, BeginDeletion(d, expert)
      PROVE  UNCHANGED dataVars
  BY <1>4 DEF BeginDeletion
<1>5. ASSUME NEW d \in Deletion, Deleting(d)
      PROVE  Exists => Exists' \/ Stale'
  <2>1. CASE RemoveTranscript(d)
    <3>1. CASE transcript
      BY <1>0, <2>1, <3>1, DeletionMoves DEF RemoveTranscript, Stale, Holds, Past
    <3>2. CASE ~transcript
      BY <2>1, <3>2 DEF RemoveTranscript, Exists
    <3> QED
      BY <3>1, <3>2
  <2>2. CASE DeleteTasks(d)
    <3>1. CASE deletion[d].expert /\ tasks = "none"
      BY <2>2, <3>1 DEF DeleteTasks, Exists
    <3>2. CASE ~(deletion[d].expert /\ tasks = "none")
      BY <1>0, <2>2, <3>2, DeletionMoves DEF DeleteTasks, Stale, Holds, Past
    <3> QED
      BY <3>1, <3>2
  <2>3. CASE WaitTimeout(d) \/ CheckTasks(d) \/ FinishDeletion(d) \/ FailDeletion(d)
    BY <1>1, <2>3 DEF WaitTimeout, CheckTasks, FinishDeletion, FailDeletion
  <2>4. CASE RemovalThrows(d)
    BY <1>0, <2>4, DeletionMoves DEF RemovalThrows, Stale, Ended
  <2> QED
    BY <1>5, <2>1, <2>2, <2>3, <2>4 DEF Deleting
<1> QED
  BY <1>1, <1>2, <1>3, <1>4, <1>5, StepCases

LEMMA ListStep ==
    ASSUME ChatOK, DataOK, ListInv, [Next]_vars
    PROVE  ListInv'
<1> USE DEF chatVars, deleteVars, dataVars, listVars
\* Apart from the loads, a step leaves the list alone or invalidates it.
<1>1. ASSUME UNCHANGED listVars \/ Invalidate
      PROVE  ListInv'
  <2>1. \/ UNCHANGED listVars
        \/ cache' = "none" /\ ~load'.current
    BY <1>1 DEF Invalidate, DataOK, LoadState
  <2> QED
    BY <2>1, StaleMoves, ExistsMoves DEF ListInv
<1>2. CASE Elsewhere /\ ~Listing
  BY <1>1, <1>2 DEF Elsewhere, WriteTranscript, SubmitTask, TasksEnd, vars
<1>3. CASE Expire \/ SweepByOther
           \/ \E r \in Run : SendLocked(r) \/ SendUntracked(r) \/ SendTracked(r) \/ EndRun(r)
  BY <1>1, <1>3 DEF Expire, SweepByOther, SendLocked, SendUntracked, SendTracked, EndRun
<1>4. ASSUME NEW d \in Deletion, NEW expert \in BOOLEAN, BeginDeletion(d, expert)
      PROVE  ListInv'
  BY <1>1, <1>4 DEF BeginDeletion
<1>5. ASSUME NEW d \in Deletion, Deleting(d)
      PROVE  ListInv'
  BY <1>1, <1>5 DEF Deleting, WaitTimeout, CheckTasks, RemoveTranscript, RemovalThrows, DeleteTasks,
                    FinishDeletion, FailDeletion
\* What a load finds was there when it looked.
<1>6. CASE Listing
  <2>1. UNCHANGED <<Stale, Exists>>
    BY <1>6 DEF Listing, BeginLoad, LoadTasks, LoadFiles, EndLoad, FailLoad, Evict, Stale, Exists
  <2>2. CASE BeginLoad
    BY <2>1, <2>2 DEF BeginLoad, NoLoad, ListInv
  <2>3. CASE LoadTasks
    <3>1. PICK found \in {tasks # "none", FALSE} :
            load' = [load EXCEPT !.step = "files", !.found = found]
      BY <2>3 DEF LoadTasks
    <3>2. load'.found => Exists
      BY <3>1 DEF DataOK, LoadState, Exists
    <3> QED
      BY <2>1, <2>3, <3>2 DEF LoadTasks, ListInv
  <2>4. CASE LoadFiles
    <3>1. /\ load'.current = load.current /\ load.step # "none"
          /\ load'.found => load.found \/ Exists
      BY <2>4 DEF LoadFiles, DataOK, LoadState, Exists
    <3> QED
      BY <2>1, <2>4, <3>1 DEF LoadFiles, ListInv
  <2>5. CASE EndLoad
    <3>1. cache' = "shown" => \/ cache = "shown"
                              \/ load.step # "none" /\ load.current /\ load.found
      BY <2>5 DEF EndLoad, StoreLoaded
    <3>2. load'.step = "none"
      BY <2>5 DEF EndLoad, NoLoad
    <3> QED
      BY <2>1, <3>1, <3>2 DEF ListInv
  <2>6. CASE FailLoad
    BY <2>1, <2>6 DEF FailLoad, NoLoad, ListInv
  <2>7. CASE Evict
    BY <2>1, <2>7 DEF Evict, ListInv
  <2> QED
    BY <1>6, <2>2, <2>3, <2>4, <2>5, <2>6, <2>7 DEF Listing
<1> QED
  BY <1>2, <1>3, <1>4, <1>5, <1>6, StepCases

\* A conversation that is gone is shown by the cached list only until the
\* deletion under way invalidates it, or after one that failed half-way: no
\* load that began before the removal is kept after it.
THEOREM ChatDeletedNotListed == Spec => []DeletedNotListed
<1>1. TypeOK /\ ListInv /\ [Next]_vars => ListInv'
  BY ListStep, TypeParts
<1>2. ListInv => DeletedNotListed
  BY DEF ListInv, DeletedNotListed, Stale
<1> QED
  BY <1>1, <1>2, ListInit, ChatTypeCorrect, PTL DEF Spec
=============================================================================
