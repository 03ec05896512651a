-------------------------- MODULE AgentMemoryProofs --------------------------
(* Theorems about AgentMemory for any jobs, calls, contents and bounds.    *)
EXTENDS AgentMemory, FiniteSetTheorems, SequenceTheorems, TLAPS

-----------------------------------------------------------------------------
(* Types                                                                   *)

Text == Content \cup {Wiped, None}
ItemRow == [status : Status, content : Text, version : 1..MaxVersion]
VersionRow == [content : Text, open : BOOLEAN]
ConflictRow == [content : Content, status : {"pending", "accepted", "rejected"}]
EvidenceRow == [from : Job \cup Call, content : Content, conflict : 0..MaxConflict]
JobRow == [status : {"absent", "pending", "running", "done", "skipped", "failed"},
           attempts : Nat, payload : BOOLEAN]
ProcState ==
    [op : {"observe", "remember", "forget", "edit", "restore", "accept", "none"},
     step : {"idle", "claimed", "model", "find", "insert", "created", "version", "update",
             "conflict", "evidence", "count", "promote", "choose", "write", "finish", "failing",
             "ended"},
     found : Status, content : Text, read : Text, version : 1..MaxVersion,
     conflict : 0..MaxConflict, left : 0..MaxCandidates]

Observing == {"find", "insert", "created", "version", "update", "conflict", "evidence", "count",
              "promote"}

\* What a process at its step has read of a memory that is in the given status
\* and has n conflicts.
Sound(p, x, status, n) ==
    /\ x.op = "observe" => p = Worker
    /\ x.step \in Observing => x.op \in {"observe", "remember"}
    /\ x.step \in Observing \ {"count", "promote"} => x.content \in Content
    /\ x.step \in {"choose", "write"} => p \in Call /\ x.found \in Live
    /\ x.step = "write" =>
          /\ x.op \in {"edit", "restore"} => x.content \in Content
          /\ x.op = "accept" => x.conflict \in 1..n
    /\ x.conflict <= n
    /\ x.step = "update" => x.op = "remember" \/ x.found \in Live
    /\ x.step = "promote" => x.op = "observe" /\ x.found = "candidate"
    /\ x.step \in (Observing \ {"find", "insert"}) \cup {"choose", "write"} => status # "absent"

ProcInv == \A p \in Proc : Sound(p, proc[p], item.status, Len(conflicts))

\* The worker has a job for as long as it does anything.
WorkInv == working = None <=> proc[Worker].step = "idle"

MemoryOK ==
    /\ item \in ItemRow
    /\ versions \in [1..MaxVersion -> VersionRow]
    /\ conflicts \in Seq(ConflictRow) /\ Len(conflicts) <= MaxConflict
    /\ evidence \subseteq EvidenceRow

QueueOK ==
    /\ job \in [Job -> JobRow]
    /\ working \in Job \cup {None}
    /\ consent \in BOOLEAN
    /\ lost \in 0..MaxFaults
    /\ crashes \in 0..MaxFaults

TypeInv == MemoryOK /\ QueueOK /\ proc \in [Proc -> ProcState] /\ ProcInv /\ WorkInv

LEMMA TypeParts == TypeInv => TypeOK
BY DEF TypeInv, MemoryOK, QueueOK, TypeOK, ItemRow, VersionRow, ConflictRow, EvidenceRow, JobRow,
       ProcState, Text

\* The memory is never absent again, and its conflicts are never fewer.
Remains ==
    /\ item.status # "absent" => item'.status # "absent"
    /\ Len(conflicts) \in Nat /\ Len(conflicts') \in Nat /\ Len(conflicts) <= Len(conflicts')

LEMMA StaysSound ==
    ASSUME Remains, NEW p, NEW x \in ProcState, Sound(p, x, item.status, Len(conflicts))
    PROVE  Sound(p, x, item'.status, Len(conflicts'))
BY DEF Remains, Sound, ProcState

\* One process moves on.
LEMMA ProcMoves ==
    ASSUME TypeInv, Remains, NEW p \in Proc,
           proc' \in [Proc -> ProcState],
           \A q \in Proc \ {p} : proc'[q] = proc[q],
           Sound(p, proc'[p], item'.status, Len(conflicts'))
    PROVE  ProcInv'
<1>1. ASSUME NEW q \in Proc \ {p}
      PROVE  Sound(q, proc'[q], item'.status, Len(conflicts'))
  <2>1. PICK x \in ProcState : x = proc[q]
    BY DEF TypeInv
  <2>2. Sound(q, x, item.status, Len(conflicts))
    BY <2>1 DEF TypeInv, ProcInv
  <2>3. Sound(q, x, item'.status, Len(conflicts'))
    BY <2>2, StaysSound
  <2> QED
    BY <2>1, <2>3
<1> QED
  BY <1>1 DEF ProcInv

LEMMA Unmoved ==
    ASSUME MemoryOK, UNCHANGED <<item, conflicts>>
    PROVE  Remains
BY DEF Remains, MemoryOK

-----------------------------------------------------------------------------
(* What the statements write                                               *)

LEMMA QuietType == Quiet \in ProcState /\ Spent \in ProcState
<1>1. 1 \in 1..MaxVersion /\ 0 \in 0..MaxConflict /\ 0 \in 0..MaxCandidates
  BY BoundAssumption
<1>2. Quiet \in ProcState
  BY <1>1 DEF Quiet, ProcState, Status, Text
<1> QED
  BY <1>2 DEF Spent, ProcState

LEMMA QuietSound ==
    ASSUME NEW p, NEW status, NEW n \in Nat
    PROVE  Sound(p, Quiet, status, n) /\ Sound(p, Spent, status, n)
BY DEF Sound, Quiet, Spent, Observing

\* What an observation goes on with.
LEMMA OnwardType ==
    ASSUME TypeInv, NEW p \in Proc, NEW step \in {"count", "finish"}
    PROVE  /\ Onward(p, step) \in ProcState
           /\ Onward(p, step).step = step /\ Onward(p, step).op = proc[p].op
           /\ Onward(p, step).conflict = 0 /\ Onward(p, step).left = proc[p].left
<1>1. PICK x \in ProcState : x = proc[p]
  BY DEF TypeInv
<1>2. PICK q \in ProcState : q = Quiet /\ q.conflict = 0
  BY QuietType DEF Quiet
<1>3. Onward(p, step) = [q EXCEPT !.op = x.op, !.step = step, !.left = x.left]
  BY <1>1, <1>2 DEF Onward
<1>4. [q EXCEPT !.op = x.op, !.step = step, !.left = x.left] \in ProcState
  BY DEF ProcState
<1> QED
  BY <1>1, <1>2, <1>3, <1>4 DEF ProcState

\* A process that is done with its memory.
LEMMA DoneMoves ==
    ASSUME TypeInv, Remains, NEW p \in Proc, Done(p), proc[p].step # "idle"
    PROVE  /\ proc' \in [Proc -> ProcState] /\ ProcInv'
           /\ working' = working => WorkInv'
<1>1. proc[p] \in ProcState /\ Sound(p, proc[p], item.status, Len(conflicts))
  BY DEF TypeInv, ProcInv
<1> DEFINE new == IF p = Worker THEN Onward(p, "finish") ELSE Spent
<1>2. proc' = [proc EXCEPT ![p] = new]
  BY DEF Done
<1>3. new \in ProcState
  BY QuietType, OnwardType
<1>4. Sound(p, proc[p], item'.status, Len(conflicts'))
  BY <1>1, StaysSound
<1>5. Sound(p, new, item'.status, Len(conflicts'))
  <2>1. CASE p = Worker
    <3>1. /\ new.op = proc[p].op /\ new.step = "finish" /\ new.conflict = 0
      BY <2>1, OnwardType
    <3> HIDE DEF new
    <3> QED
      BY <1>4, <2>1, <3>1 DEF Sound, Observing, Remains
  <2>2. CASE p # Worker
    BY <2>2, QuietSound DEF Remains
  <2> QED
    BY <2>1, <2>2
<1>6. p = Worker => new.step # "idle"
  BY OnwardType
<1> HIDE DEF new
<1>7. proc' \in [Proc -> ProcState] /\ proc'[p] = new /\ \A q \in Proc \ {p} : proc'[q] = proc[q]
  BY <1>2, <1>3 DEF TypeInv
<1>8. ProcInv'
  BY <1>5, <1>7, ProcMoves
<1>9. working' = working => WorkInv'
  <2>1. Worker \in Proc
    BY DEF Proc
  <2> QED
    BY <1>6, <1>7, <2>1 DEF TypeInv, WorkInv
<1> QED
  BY <1>7, <1>8, <1>9

LEMMA WithRowType ==
    ASSUME NEW vs \in [1..MaxVersion -> VersionRow], NEW v \in 1..MaxVersion, NEW c \in Text
    PROVE  WithRow(vs, v, c) \in [1..MaxVersion -> VersionRow]
BY DEF WithRow, VersionRow

LEMMA NewVersionType ==
    ASSUME MemoryOK, item.version < MaxVersion, NEW c \in Text
    PROVE  /\ item.version + 1 \in 1..MaxVersion
           /\ NewVersion(c) \in [1..MaxVersion -> VersionRow]
<1>1. item.version \in 1..MaxVersion /\ item.content \in Text
  BY DEF MemoryOK, ItemRow
<1>2. item.version + 1 \in 1..MaxVersion
  BY <1>1, BoundAssumption
<1>3. PICK vs \in [1..MaxVersion -> VersionRow] : vs = WithRow(versions, item.version, item.content)
  BY <1>1, WithRowType DEF MemoryOK
<1>4. [vs EXCEPT ![item.version].open = FALSE, ![item.version + 1] = [content |-> c, open |-> TRUE]]
        \in [1..MaxVersion -> VersionRow]
  BY <1>1, <1>2, <1>3 DEF VersionRow
<1> QED
  BY <1>2, <1>3, <1>4 DEF NewVersion

LEMMA WriteType ==
    ASSUME MemoryOK, NEW c \in Content, NEW status \in Status \ {"absent"}, Write(c, status)
    PROVE  item' \in ItemRow /\ versions' \in [1..MaxVersion -> VersionRow] /\ item'.status = status
<1>1. item.version \in 1..MaxVersion /\ item.content \in Text /\ c \in Text /\ item \in ItemRow
  BY DEF MemoryOK, ItemRow, Text
<1>2. CASE item.content = c
  <2>1. item' = [item EXCEPT !.status = status]
        /\ versions' = WithRow(versions, item.version, item.content)
    BY <1>2 DEF Write
  <2>2. item' \in ItemRow /\ item'.status = status
    BY <1>1, <2>1 DEF ItemRow
  <2> QED
    BY <1>1, <2>1, <2>2, WithRowType DEF MemoryOK
<1>3. CASE item.content # c
  <2>1. /\ item.version < MaxVersion /\ versions' = NewVersion(c)
        /\ item' = [status |-> status, content |-> c, version |-> item.version + 1]
    BY <1>3 DEF Write
  <2>2. item.version + 1 \in 1..MaxVersion /\ versions' \in [1..MaxVersion -> VersionRow]
    BY <1>1, <2>1, NewVersionType
  <2> QED
    BY <1>1, <2>1, <2>2 DEF ItemRow
<1> QED
  BY <1>2, <1>3

LEMMA SettleType ==
    ASSUME MemoryOK, NEW k, Settle(k)
    PROVE  conflicts' \in Seq(ConflictRow) /\ Len(conflicts') = Len(conflicts)
<1>1. Len(conflicts) \in Nat /\ conflicts \in [1..Len(conflicts) -> ConflictRow]
      /\ DOMAIN conflicts = 1..Len(conflicts)
  BY DEF MemoryOK
<1>2. ASSUME NEW n \in 1..Len(conflicts)
      PROVE  (IF conflicts[n].status = "pending"
              THEN [conflicts[n] EXCEPT !.status = IF n = k THEN "accepted" ELSE "rejected"]
              ELSE conflicts[n]) \in ConflictRow
  <2>1. conflicts[n] \in ConflictRow
    BY <1>1
  <2> QED
    BY <2>1 DEF ConflictRow
<1>3. conflicts' \in [1..Len(conflicts) -> ConflictRow]
  BY <1>1, <1>2 DEF Settle
<1>4. conflicts' \in Seq(ConflictRow)
  BY <1>1, <1>3, SeqDef
<1>5. DOMAIN conflicts' = 1..Len(conflicts)
  BY <1>3
<1> QED
  BY <1>1, <1>4, <1>5, LenProperties

-----------------------------------------------------------------------------
(* The steps of an observation                                             *)

LEMMA ReadProc ==
    ASSUME TypeInv, NEW p \in Proc
    PROVE  /\ proc[p] \in ProcState /\ Sound(p, proc[p], item.status, Len(conflicts))
           /\ proc[p].step # "idle" /\ p = Worker => working \in Job
           /\ p \in Call \/ p = Worker
BY DEF TypeInv, ProcInv, WorkInv, QueueOK, Proc

\* A process that goes on keeps the worker at its job.
LEMMA StillWorking ==
    ASSUME TypeInv, NEW p \in Proc, proc[p].step # "idle", proc'[p].step # "idle",
           \A q \in Proc \ {p} : proc'[q] = proc[q], working' = working
    PROVE  WorkInv'
BY DEF TypeInv, WorkInv, Proc

LEMMA FindType ==
    ASSUME TypeInv, NEW p \in Proc, Find(p)
    PROVE  proc' \in [Proc -> ProcState] /\ ProcInv' /\ WorkInv'
<1>1. UNCHANGED <<item, conflicts, working>> /\ Remains /\ proc[p].step = "find"
  BY Unmoved DEF Find, memory, queue, TypeInv
<1>2. CASE item.status # "absent" /\ Decision(p) = "ignore"
  BY <1>1, <1>2, DoneMoves DEF Find
<1>3. CASE ~(item.status # "absent" /\ Decision(p) = "ignore")
  <2>1. PICK step \in {"insert", "evidence", "update", "conflict"} :
          /\ proc' = [proc EXCEPT ![p].found = item.status, ![p].step = step]
          /\ step = "insert" <=> item.status = "absent"
          /\ step = "update" => proc[p].op = "remember" \/ item.status \in Live
    BY <1>1, <1>3 DEF Find, Decision, Explicit, TypeInv, MemoryOK, ItemRow, Status
  <2>2. item.status \in Status
    BY DEF TypeInv, MemoryOK, ItemRow
  <2> DEFINE typed == [proc EXCEPT ![p].found = item.status]
  <2>a. typed \in [Proc -> ProcState] /\ \A q \in Proc \ {p} : typed[q] = proc[q]
    BY <2>2 DEF TypeInv, ProcState
  <2>b. proc' = [typed EXCEPT ![p].step = step]
    BY <2>1
  <2> HIDE DEF typed
  <2>3. proc' \in [Proc -> ProcState] /\ \A q \in Proc \ {p} : proc'[q] = proc[q]
    BY <2>a, <2>b DEF ProcState
  <2>4. /\ proc'[p].step = step /\ proc'[p].found = item.status
        /\ proc'[p].op = proc[p].op /\ proc'[p].content = proc[p].content
        /\ proc'[p].conflict = proc[p].conflict
    BY <2>1 DEF TypeInv, ProcState
  <2>5. Sound(p, proc'[p], item.status, Len(conflicts))
    BY <1>1, <2>1, <2>4, ReadProc DEF Sound, Observing
  <2>6. Sound(p, proc'[p], item'.status, Len(conflicts'))
    BY <1>1, <2>5
  <2>7. ProcInv'
    BY <1>1, <2>3, <2>6, ProcMoves
  <2> QED
    BY <1>1, <2>1, <2>3, <2>4, <2>7, StillWorking
<1> QED
  BY <1>2, <1>3

\* A step that only says where the process goes next.
LEMMA StepMoves ==
    ASSUME TypeInv, Remains, NEW p \in Proc, proc[p].step \in Observing,
           NEW step \in {"created", "evidence"}, Step(p, step),
           proc[p].step \notin {"count", "promote"}, item'.status # "absent", working' = working
    PROVE  proc' \in [Proc -> ProcState] /\ ProcInv' /\ WorkInv'
<1>1. proc' \in [Proc -> ProcState] /\ \A q \in Proc \ {p} : proc'[q] = proc[q]
  BY DEF TypeInv, ProcState, Step
<1>2. /\ proc'[p].step = step /\ proc'[p].op = proc[p].op /\ proc'[p].content = proc[p].content
      /\ proc'[p].conflict = proc[p].conflict
  BY DEF TypeInv, ProcState, Step
<1>3. Sound(p, proc'[p], item'.status, Len(conflicts'))
  BY <1>2, ReadProc DEF Sound, Observing, Remains, ProcState
<1>4. ProcInv'
  BY <1>1, <1>3, ProcMoves
<1> QED
  BY <1>1, <1>2, <1>4, StillWorking DEF Observing

LEMMA ObserveType ==
    ASSUME TypeInv, NEW p \in Proc, Observe(p)
    PROVE  TypeInv'
<1>0. /\ proc[p] \in ProcState /\ Sound(p, proc[p], item.status, Len(conflicts))
      /\ item \in ItemRow /\ item.version \in 1..MaxVersion /\ item.status \in Status
      /\ item.content \in Text
  BY ReadProc DEF TypeInv, MemoryOK, ItemRow
<1>1. CASE Find(p)
  BY <1>1, FindType DEF Find, memory, queue, TypeInv, MemoryOK, QueueOK
<1>2. CASE Insert(p)
  <2>1. proc[p].content \in Content
    BY <1>0, <1>2 DEF Insert, Sound, Observing
  <2>2. item' \in ItemRow /\ item'.status # "absent"
    BY <1>2, <2>1, BoundAssumption DEF Insert, ItemRow, Status, Live, Text
  <2>3. UNCHANGED <<versions, conflicts, evidence, queue>>
    BY <1>2 DEF Insert
  <2>4. Remains
    BY <2>2, <2>3 DEF Remains, TypeInv, MemoryOK
  <2>5. proc' \in [Proc -> ProcState] /\ ProcInv' /\ WorkInv'
    BY <1>2, <2>2, <2>3, <2>4, StepMoves DEF Insert, Observing, queue
  <2> QED
    BY <2>2, <2>3, <2>5 DEF TypeInv, MemoryOK, QueueOK, queue
<1>3. CASE ReadCreated(p)
  <2>1. UNCHANGED <<memory, queue>> /\ proc[p].step = "created" /\ Remains
    BY <1>3, Unmoved DEF ReadCreated, TypeInv, memory
  <2>2. proc' \in [Proc -> ProcState] /\ \A q \in Proc \ {p} : proc'[q] = proc[q]
    BY <1>0, <1>3 DEF ReadCreated, TypeInv, ProcState
  <2>3. /\ proc'[p].step = "version" /\ proc'[p].op = proc[p].op
        /\ proc'[p].content = proc[p].content /\ proc'[p].conflict = proc[p].conflict
    BY <1>3 DEF ReadCreated, TypeInv, ProcState
  <2>4. Sound(p, proc'[p], item'.status, Len(conflicts'))
    BY <1>0, <2>1, <2>3 DEF Sound, Observing, memory
  <2>5. ProcInv' /\ WorkInv'
    BY <2>1, <2>2, <2>3, <2>4, ProcMoves, StillWorking DEF queue
  <2> QED
    BY <2>1, <2>2, <2>5 DEF TypeInv, MemoryOK, QueueOK, memory, queue
<1>4. CASE AddVersion(p)
  <2>1. UNCHANGED <<item, conflicts, evidence, queue>> /\ proc[p].step = "version" /\ Remains
    BY <1>4, Unmoved DEF AddVersion, TypeInv
  <2>2. proc' \in [Proc -> ProcState] /\ \A q \in Proc \ {p} : proc'[q] = proc[q]
    <3> DEFINE first == [proc EXCEPT ![p].step = "evidence"]
               second == [first EXCEPT ![p].version = 1]
    <3>1. first \in [Proc -> ProcState] /\ \A q \in Proc \ {p} : first[q] = proc[q]
      BY DEF TypeInv, ProcState
    <3>2. proc' = [second EXCEPT ![p].read = None]
      BY <1>4 DEF AddVersion
    <3>3. 1 \in 1..MaxVersion /\ None \in Text
      BY BoundAssumption DEF Text
    <3> HIDE DEF first
    <3>4. second \in [Proc -> ProcState] /\ \A q \in Proc \ {p} : second[q] = proc[q]
      BY <3>1, <3>3 DEF ProcState
    <3> HIDE DEF second
    <3> QED
      BY <3>2, <3>3, <3>4 DEF ProcState
  <2>3. /\ proc'[p].step = "evidence" /\ proc'[p].op = proc[p].op
        /\ proc'[p].content = proc[p].content /\ proc'[p].conflict = proc[p].conflict
    BY <1>4 DEF AddVersion, TypeInv, ProcState
  <2>4. Sound(p, proc'[p], item'.status, Len(conflicts'))
    BY <1>0, <2>1, <2>3 DEF Sound, Observing
  <2>5. ProcInv' /\ WorkInv'
    BY <2>1, <2>2, <2>3, <2>4, ProcMoves, StillWorking DEF queue
  <2>6. versions' \in [1..MaxVersion -> VersionRow]
    BY <1>0, <1>4, WithRowType DEF AddVersion, ProcState, TypeInv, MemoryOK
  <2> QED
    BY <2>1, <2>2, <2>5, <2>6 DEF TypeInv, MemoryOK, QueueOK, queue
<1>5. CASE Update(p)
  <2>1. proc[p].content \in Content /\ item.status # "absent"
    BY <1>0, <1>5 DEF Update, Sound, Observing
  <2>2. PICK status \in Status \ {"absent"} : Write(proc[p].content, status)
    BY <1>0, <1>5, <2>1 DEF Update, Status, Live
  <2>3. item' \in ItemRow /\ versions' \in [1..MaxVersion -> VersionRow] /\ item'.status # "absent"
    BY <2>1, <2>2, WriteType DEF TypeInv
  <2>4. UNCHANGED <<conflicts, evidence, queue>> /\ Remains
    BY <1>5, <2>3 DEF Update, Remains, TypeInv, MemoryOK
  <2>5. proc' \in [Proc -> ProcState] /\ ProcInv' /\ WorkInv'
    BY <1>5, <2>3, <2>4, StepMoves DEF Update, Observing, queue
  <2> QED
    BY <2>3, <2>4, <2>5 DEF TypeInv, MemoryOK, QueueOK, queue
<1>6. CASE ObserveConflict(p)
  <2>1. proc[p].content \in Content /\ item.status # "absent" /\ proc[p].step = "conflict"
    BY <1>0, <1>6 DEF ObserveConflict, Sound, Observing
  <2>2. conflicts \in Seq(ConflictRow) /\ Len(conflicts) \in Nat /\ Len(conflicts) <= MaxConflict
    BY DEF TypeInv, MemoryOK
  <2>3. PICK k \in 0..MaxConflict :
          /\ proc' = [proc EXCEPT ![p].step = "evidence", ![p].conflict = k]
          /\ \/ UNCHANGED conflicts /\ k <= Len(conflicts)
             \/ /\ Len(conflicts) < MaxConflict /\ k = Len(conflicts) + 1
                /\ conflicts' = Append(conflicts, [content |-> proc[p].content,
                                                   status |-> "pending"])
    <3>1. CASE Pending(proc[p].content) # {}
      <4>1. PICK k \in Pending(proc[p].content) :
              proc' = [proc EXCEPT ![p].step = "evidence", ![p].conflict = k]
        BY <1>6, <3>1 DEF ObserveConflict
      <4>2. k \in 1..Len(conflicts)
        BY <2>2 DEF Pending
      <4>3. k \in 0..MaxConflict /\ k <= Len(conflicts) /\ UNCHANGED conflicts
        BY <1>6, <2>2, <3>1, <4>2, BoundAssumption DEF ObserveConflict
      <4> QED
        BY <4>1, <4>3
    <3>2. CASE Pending(proc[p].content) = {}
      <4>1. Len(conflicts) + 1 \in 0..MaxConflict
        BY <1>6, <2>2, <3>2, BoundAssumption DEF ObserveConflict
      <4> QED
        BY <1>6, <3>2, <4>1 DEF ObserveConflict
    <3> QED
      BY <3>1, <3>2
  <2>4. /\ conflicts' \in Seq(ConflictRow) /\ Len(conflicts') <= MaxConflict
        /\ k <= Len(conflicts') /\ Len(conflicts) <= Len(conflicts') /\ Len(conflicts') \in Nat
    <3>1. [content |-> proc[p].content, status |-> "pending"] \in ConflictRow
      BY <2>1 DEF ConflictRow
    <3>2. CASE UNCHANGED conflicts /\ k <= Len(conflicts)
      BY <2>2, <3>2
    <3>3. CASE ~(UNCHANGED conflicts /\ k <= Len(conflicts))
      <4>1. PICK r \in ConflictRow : r = [content |-> proc[p].content, status |-> "pending"]
        BY <3>1
      <4>2. conflicts' = Append(conflicts, r) /\ k = Len(conflicts) + 1
            /\ Len(conflicts) < MaxConflict
        BY <2>3, <3>3, <4>1
      <4>3. conflicts' \in Seq(ConflictRow) /\ Len(conflicts') = Len(conflicts) + 1
        BY <2>2, <4>2, AppendProperties
      <4> QED
        BY <2>2, <4>2, <4>3, BoundAssumption
    <3> QED
      BY <3>2, <3>3
  <2>5. UNCHANGED <<item, versions, evidence, queue>> /\ Remains
    <3>1. UNCHANGED <<item, versions, evidence, queue>>
      BY <1>6 DEF ObserveConflict
    <3> QED
      BY <2>2, <2>4, <3>1 DEF Remains
  <2>6. proc' \in [Proc -> ProcState] /\ \A q \in Proc \ {p} : proc'[q] = proc[q]
    <3> DEFINE first == [proc EXCEPT ![p].step = "evidence"]
    <3>1. first \in [Proc -> ProcState] /\ \A q \in Proc \ {p} : first[q] = proc[q]
      BY DEF TypeInv, ProcState
    <3>2. proc' = [first EXCEPT ![p].conflict = k]
      BY <2>3
    <3> HIDE DEF first
    <3> QED
      BY <3>1, <3>2 DEF ProcState
  <2>7. /\ proc'[p].step = "evidence" /\ proc'[p].op = proc[p].op
        /\ proc'[p].content = proc[p].content /\ proc'[p].conflict = k
    BY <2>3 DEF TypeInv, ProcState
  <2>8. Sound(p, proc'[p], item'.status, Len(conflicts'))
    BY <1>0, <2>1, <2>4, <2>5, <2>7 DEF Sound, Observing
  <2>9. ProcInv' /\ WorkInv'
    BY <2>1, <2>5, <2>6, <2>7, <2>8, ProcMoves, StillWorking DEF queue
  <2> QED
    BY <2>4, <2>5, <2>6, <2>9 DEF TypeInv, MemoryOK, QueueOK, queue
<1>7. CASE AddEvidence(p)
  <2>1. proc[p].content \in Content /\ item.status # "absent" /\ proc[p].step = "evidence"
    BY <1>0, <1>7 DEF AddEvidence, Sound, Observing
  <2>2. From(p) \in Job \cup Call
    BY <2>1, ReadProc DEF From
  <2>3. [from |-> From(p), content |-> proc[p].content, conflict |-> proc[p].conflict] \in EvidenceRow
    BY <1>0, <2>1, <2>2 DEF EvidenceRow, ProcState
  <2>4. evidence' \subseteq EvidenceRow
    BY <1>7, <2>3 DEF AddEvidence, TypeInv, MemoryOK
  <2>5. UNCHANGED <<item, versions, conflicts, queue>> /\ Remains
    BY <1>7, Unmoved DEF AddEvidence, TypeInv
  <2>6. proc' \in [Proc -> ProcState] /\ ProcInv' /\ WorkInv'
    <3>1. CASE proc' = [proc EXCEPT ![p] = Onward(p, "count")]
      <4>1. /\ proc' \in [Proc -> ProcState] /\ proc'[p] = Onward(p, "count")
            /\ \A q \in Proc \ {p} : proc'[q] = proc[q]
        BY <3>1, OnwardType DEF TypeInv
      <4>2. /\ proc'[p].step = "count" /\ proc'[p].op = proc[p].op /\ proc'[p].conflict = 0
        BY <4>1, OnwardType
      <4>3. Sound(p, proc'[p], item'.status, Len(conflicts'))
        BY <1>0, <2>1, <2>5, <4>2 DEF Sound, Observing, Remains
      <4> QED
        BY <2>1, <2>5, <4>1, <4>2, <4>3, ProcMoves, StillWorking DEF queue
    <3>2. CASE Done(p)
      BY <2>1, <2>5, <3>2, DoneMoves DEF queue
    <3> QED
      BY <1>7, <3>1, <3>2 DEF AddEvidence
  <2> QED
    BY <2>4, <2>5, <2>6 DEF TypeInv, MemoryOK, QueueOK, queue
<1>8. CASE Count(p)
  <2>1. UNCHANGED <<memory, queue>> /\ proc[p].step = "count" /\ Remains
    BY <1>8, Unmoved DEF Count, TypeInv, memory
  <2>2. proc' \in [Proc -> ProcState] /\ ProcInv' /\ WorkInv'
    <3>1. CASE Done(p)
      BY <2>1, <3>1, DoneMoves DEF queue
    <3>2. CASE ~Done(p)
      <4>1. /\ proc[p].op # "remember" /\ item.status = "candidate"
            /\ proc' = [proc EXCEPT ![p].step = "promote", ![p].found = "candidate"]
        BY <1>8, <3>2 DEF Count, Explicit
      <4>2. proc' \in [Proc -> ProcState] /\ \A q \in Proc \ {p} : proc'[q] = proc[q]
          <5> DEFINE typed == [proc EXCEPT ![p].step = "promote"]
          <5>1. typed \in [Proc -> ProcState] /\ \A q \in Proc \ {p} : typed[q] = proc[q]
            BY DEF TypeInv, ProcState
          <5>2. proc' = [typed EXCEPT ![p].found = "candidate"]
            BY <4>1
          <5>3. "candidate" \in Status
            BY DEF Status, Live
          <5> HIDE DEF typed
          <5> QED
            BY <5>1, <5>2, <5>3 DEF ProcState
      <4>3. /\ proc'[p].step = "promote" /\ proc'[p].found = "candidate"
            /\ proc'[p].op = proc[p].op /\ proc'[p].content = proc[p].content
            /\ proc'[p].conflict = proc[p].conflict
        BY <4>1 DEF TypeInv, ProcState
      <4>4. Sound(p, proc'[p], item'.status, Len(conflicts'))
        BY <1>0, <2>1, <4>1, <4>3 DEF Sound, Observing, memory
      <4> QED
        BY <2>1, <4>2, <4>3, <4>4, ProcMoves, StillWorking DEF queue
    <3> QED
      BY <3>1, <3>2
  <2> QED
    BY <2>1, <2>2 DEF TypeInv, MemoryOK, QueueOK, memory, queue
<1>9. CASE Promote(p)
  <2>1. item' \in ItemRow /\ item'.status = "active"
    BY <1>0, <1>9 DEF Promote, ItemRow, Status, Live
  <2>2. UNCHANGED <<versions, conflicts, evidence, queue>> /\ Remains
    BY <1>9, <2>1 DEF Promote, Remains, TypeInv, MemoryOK
  <2>3. proc' \in [Proc -> ProcState] /\ ProcInv' /\ WorkInv'
    BY <1>9, <2>2, DoneMoves DEF Promote, queue
  <2> QED
    BY <2>1, <2>2, <2>3 DEF TypeInv, MemoryOK, QueueOK, queue
<1> QED
  BY <1>1, <1>2, <1>3, <1>4, <1>5, <1>6, <1>7, <1>8, <1>9 DEF Observe

-----------------------------------------------------------------------------
(* The user's calls                                                        *)

\* A process goes on in a given state.
LEMMA MovesTo ==
    ASSUME TypeInv, Remains, NEW p \in Proc, NEW x \in ProcState, proc' = [proc EXCEPT ![p] = x],
           Sound(p, x, item'.status, Len(conflicts')),
           IF p = Worker THEN working' = None <=> x.step = "idle" ELSE working' = working
    PROVE  proc' \in [Proc -> ProcState] /\ ProcInv' /\ WorkInv'
<1>1. proc' \in [Proc -> ProcState] /\ proc'[p] = x /\ \A q \in Proc \ {p} : proc'[q] = proc[q]
  BY DEF TypeInv
<1>2. ProcInv'
  BY <1>1, ProcMoves
<1>3. WorkInv'
  BY <1>1 DEF TypeInv, WorkInv, Proc
<1> QED
  BY <1>1, <1>2, <1>3

LEMMA BeginType ==
    ASSUME TypeInv, NEW p \in Call, NEW op \in {"forget", "edit", "accept"},
           NEW c \in Text, NEW k \in 0..MaxConflict, Begin(p, op, c, k),
           op = "edit" => c \in Content,
           op = "accept" => k \in 1..Len(conflicts), k <= Len(conflicts)
    PROVE  TypeInv'
<1>1. UNCHANGED <<memory, queue>> /\ Remains
  BY Unmoved DEF Begin, memory, TypeInv
<1>2. p \in Proc /\ p # Worker
  BY NamesAssumption DEF Proc
<1>3. item.status \in Live /\ item.status \in Status
  BY DEF Begin, Status
<1> DEFINE x == [Quiet EXCEPT !.op = op, !.step = "write", !.found = item.status,
                              !.content = c, !.conflict = k]
<1>4. x \in ProcState
  BY <1>3, QuietType DEF ProcState
<1>5. /\ x.op = op /\ x.step = "write" /\ x.found = item.status /\ x.content = c
      /\ x.conflict = k
  BY QuietType DEF ProcState
<1>6. proc' = [proc EXCEPT ![p] = x]
  BY DEF Begin
<1> HIDE DEF x
<1>7. Sound(p, x, item'.status, Len(conflicts'))
  BY <1>1, <1>3, <1>5 DEF Sound, Observing, Live, memory
<1>8. proc' \in [Proc -> ProcState] /\ ProcInv' /\ WorkInv'
  BY <1>1, <1>2, <1>4, <1>6, <1>7, MovesTo DEF queue
<1> QED
  BY <1>1, <1>8 DEF TypeInv, MemoryOK, QueueOK, memory, queue

LEMMA BeginRestoreType ==
    ASSUME TypeInv, NEW p \in Call, NEW v \in 1..MaxVersion, BeginRestore(p, v)
    PROVE  TypeInv'
<1>1. UNCHANGED <<memory, queue>> /\ Remains
  BY Unmoved DEF BeginRestore, memory, TypeInv
<1>2. p \in Proc /\ p # Worker
  BY NamesAssumption DEF Proc
<1>3. item.status \in Live /\ item.status \in Status
  BY DEF BeginRestore, Status
<1> DEFINE x == [Quiet EXCEPT !.op = "restore", !.step = "choose", !.found = item.status,
                              !.version = v]
<1>4. x \in ProcState
  BY <1>3, QuietType DEF ProcState
<1>5. x.op = "restore" /\ x.step = "choose" /\ x.found = item.status /\ x.conflict = 0
  BY QuietType DEF ProcState, Quiet
<1>6. proc' = [proc EXCEPT ![p] = x]
  BY DEF BeginRestore
<1> HIDE DEF x
<1>7. Sound(p, x, item'.status, Len(conflicts'))
  BY <1>1, <1>3, <1>5 DEF Sound, Observing, Live, memory, Remains
<1>8. proc' \in [Proc -> ProcState] /\ ProcInv' /\ WorkInv'
  BY <1>1, <1>2, <1>4, <1>6, <1>7, MovesTo DEF queue
<1> QED
  BY <1>1, <1>8 DEF TypeInv, MemoryOK, QueueOK, memory, queue

LEMMA ReadVersionType ==
    ASSUME TypeInv, NEW p \in Call, ReadVersion(p)
    PROVE  TypeInv'
<1>1. UNCHANGED <<memory, queue>> /\ Remains
  BY Unmoved DEF ReadVersion, memory, TypeInv
<1>2. p \in Proc /\ p # Worker
  BY NamesAssumption DEF Proc
<1>3. PICK y \in ProcState : y = proc[p] /\ y.step = "choose"
  BY <1>2 DEF ReadVersion, TypeInv
<1>4. y.found \in Live /\ y.found \in Status /\ item.status # "absent"
  BY <1>2, <1>3, ReadProc DEF Sound, Observing, Live, ProcState
<1>5. PICK c \in Content : c = versions[y.version].content
  <2>1. y.version \in 1..MaxVersion
    BY DEF ProcState
  <2>2. versions[y.version].content \in Text
    BY <2>1 DEF TypeInv, MemoryOK, VersionRow
  <2> QED
    BY <1>3, <2>2 DEF ReadVersion, Text
<1> DEFINE x == [Quiet EXCEPT !.op = "restore", !.step = "write", !.found = y.found,
                              !.content = c]
<1>6. x \in ProcState
  BY <1>4, QuietType DEF ProcState, Text
<1>7. /\ x.op = "restore" /\ x.step = "write" /\ x.found = y.found /\ x.content = c
      /\ x.conflict = 0
  BY QuietType DEF ProcState, Quiet
<1>8. proc' = [proc EXCEPT ![p] = x]
  BY <1>3, <1>5 DEF ReadVersion
<1> HIDE DEF x
<1>9. Sound(p, x, item'.status, Len(conflicts'))
  BY <1>1, <1>4, <1>7 DEF Sound, Observing, memory, Remains
<1>10. proc' \in [Proc -> ProcState] /\ ProcInv' /\ WorkInv'
  BY <1>1, <1>2, <1>6, <1>8, <1>9, MovesTo DEF queue
<1> QED
  BY <1>1, <1>10 DEF TypeInv, MemoryOK, QueueOK, memory, queue

LEMMA RememberType ==
    ASSUME TypeInv, NEW p \in Call, NEW c \in Content, Remember(p, c)
    PROVE  TypeInv'
<1>1. UNCHANGED <<memory, queue>> /\ Remains
  BY Unmoved DEF Remember, memory, TypeInv
<1>2. p \in Proc /\ p # Worker
  BY NamesAssumption DEF Proc
<1> DEFINE x == [Quiet EXCEPT !.op = "remember", !.step = "find", !.content = c]
<1>3. x \in ProcState
  BY QuietType DEF ProcState, Text
<1>4. x.op = "remember" /\ x.step = "find" /\ x.content = c /\ x.conflict = 0
  BY QuietType DEF ProcState, Quiet
<1>5. proc' = [proc EXCEPT ![p] = x]
  BY DEF Remember
<1> HIDE DEF x
<1>6. Sound(p, x, item'.status, Len(conflicts'))
  BY <1>1, <1>4 DEF Sound, Observing, Remains
<1>7. proc' \in [Proc -> ProcState] /\ ProcInv' /\ WorkInv'
  BY <1>1, <1>2, <1>3, <1>5, <1>6, MovesTo DEF queue
<1> QED
  BY <1>1, <1>7 DEF TypeInv, MemoryOK, QueueOK, memory, queue

LEMMA ForgetType ==
    ASSUME TypeInv, NEW p \in Call, Forget(p)
    PROVE  TypeInv'
<1>1. p \in Proc /\ proc[p].step = "write" /\ UNCHANGED <<evidence, queue>> /\ Done(p)
  BY DEF Forget, Proc
<1>2. item' \in ItemRow /\ item'.status # "absent"
  BY DEF Forget, TypeInv, MemoryOK, ItemRow, Status, Gone, Text
<1>3. versions' \in [1..MaxVersion -> VersionRow]
  BY DEF Forget, NoVersion, VersionRow, Text
<1>4. conflicts' \in Seq(ConflictRow) /\ Len(conflicts') = Len(conflicts) /\ Len(conflicts) \in Nat
      /\ Len(conflicts) <= MaxConflict
  BY SettleType DEF Forget, RejectAll, TypeInv, MemoryOK
<1>5. Remains
  BY <1>2, <1>4 DEF Remains
<1>6. proc' \in [Proc -> ProcState] /\ ProcInv' /\ WorkInv'
  BY <1>1, <1>5, DoneMoves DEF queue
<1> QED
  BY <1>1, <1>2, <1>3, <1>4, <1>6 DEF TypeInv, MemoryOK, QueueOK, queue

LEMMA EditType ==
    ASSUME TypeInv, NEW p \in Call, Edit(p)
    PROVE  TypeInv'
<1>1. /\ p \in Proc /\ proc[p].step = "write" /\ proc[p].op \in {"edit", "restore"}
      /\ UNCHANGED <<evidence, queue>> /\ Done(p)
  BY DEF Edit, Proc
<1>2. PICK c \in Content : c = proc[p].content
  BY <1>1, ReadProc DEF Sound
<1>3. item' \in ItemRow /\ versions' \in [1..MaxVersion -> VersionRow] /\ item'.status = "active"
  <2>1. "active" \in Status \ {"absent"}
    BY DEF Status, Live
  <2>2. Write(c, "active")
    BY <1>2 DEF Edit
  <2> QED
    BY <2>1, <2>2, WriteType DEF TypeInv
<1>4. conflicts' \in Seq(ConflictRow) /\ Len(conflicts') = Len(conflicts) /\ Len(conflicts) \in Nat
      /\ Len(conflicts) <= MaxConflict
  <2>1. CASE UNCHANGED conflicts
    BY <2>1 DEF TypeInv, MemoryOK
  <2>2. CASE RejectAll
    BY <2>2, SettleType DEF RejectAll, TypeInv, MemoryOK
  <2> QED
    BY <2>1, <2>2 DEF Edit
<1>5. Remains
  BY <1>3, <1>4 DEF Remains
<1>6. proc' \in [Proc -> ProcState] /\ ProcInv' /\ WorkInv'
  BY <1>1, <1>5, DoneMoves DEF queue
<1> QED
  BY <1>1, <1>3, <1>4, <1>6 DEF TypeInv, MemoryOK, QueueOK, queue

LEMMA AcceptType ==
    ASSUME TypeInv, NEW p \in Call, Accept(p)
    PROVE  TypeInv'
<1>1. p \in Proc /\ proc[p].step = "write" /\ proc[p].op = "accept" /\ UNCHANGED queue /\ Done(p)
  BY DEF Accept, Proc
<1>2. PICK k \in 1..Len(conflicts) : k = proc[p].conflict
  BY <1>1, ReadProc DEF Sound
<1>3. PICK c \in Content : c = conflicts[k].content
  <2>1. conflicts[k] \in ConflictRow
    BY DEF TypeInv, MemoryOK
  <2> QED
    BY <2>1 DEF ConflictRow
<1>4. item.status # "absent"
  BY <1>1, ReadProc DEF Sound
<1>5. item' \in ItemRow /\ versions' \in [1..MaxVersion -> VersionRow] /\ item'.status # "absent"
  <2>1. CASE UNCHANGED <<item, versions>>
    BY <1>4, <2>1 DEF TypeInv, MemoryOK
  <2>2. CASE Write(c, "active")
    <3>1. "active" \in Status \ {"absent"}
      BY DEF Status, Live
    <3> QED
      BY <2>2, <3>1, WriteType DEF TypeInv
  <2> QED
    BY <1>2, <1>3, <2>1, <2>2 DEF Accept
<1>6. conflicts' \in Seq(ConflictRow) /\ Len(conflicts') = Len(conflicts) /\ Len(conflicts) \in Nat
      /\ Len(conflicts) <= MaxConflict
  BY <1>2, SettleType DEF Accept, TypeInv, MemoryOK
<1>7. evidence' \subseteq EvidenceRow
  <2>1. ASSUME NEW e \in evidence
        PROVE  [e EXCEPT !.conflict = IF @ = k THEN 0 ELSE @] \in EvidenceRow
    <3>1. e \in EvidenceRow /\ 0 \in 0..MaxConflict
      BY BoundAssumption DEF TypeInv, MemoryOK
    <3> QED
      BY <3>1 DEF EvidenceRow
  <2> QED
    BY <1>2, <2>1 DEF Accept
<1>8. Remains
  BY <1>5, <1>6 DEF Remains
<1>9. proc' \in [Proc -> ProcState] /\ ProcInv' /\ WorkInv'
  BY <1>1, <1>8, DoneMoves DEF queue
<1> QED
  BY <1>1, <1>5, <1>6, <1>7, <1>9 DEF TypeInv, MemoryOK, QueueOK, queue

LEMMA ThrowType ==
    ASSUME TypeInv, NEW p \in Call, Throw(p)
    PROVE  TypeInv'
<1>1. UNCHANGED <<memory, queue>> /\ Remains /\ proc' = [proc EXCEPT ![p] = Spent]
  BY Unmoved DEF Throw, memory, TypeInv
<1>2. p \in Proc /\ p # Worker
  BY NamesAssumption DEF Proc
<1>3. Sound(p, Spent, item'.status, Len(conflicts'))
  BY <1>1, QuietSound DEF Remains
<1>4. proc' \in [Proc -> ProcState] /\ ProcInv' /\ WorkInv'
  BY <1>1, <1>2, <1>3, QuietType, MovesTo DEF queue
<1> QED
  BY <1>1, <1>4 DEF TypeInv, MemoryOK, QueueOK, memory, queue

LEMMA CallType ==
    ASSUME TypeInv, NEW p \in Call, UserCall(p)
    PROVE  TypeInv'
<1>0. None \in Text /\ 0 \in 0..MaxConflict /\ Content \subseteq Text /\ p \in Proc
      /\ Len(conflicts) \in Nat /\ Len(conflicts) <= MaxConflict
  BY BoundAssumption DEF Text, Proc, TypeInv, MemoryOK
<1>1. ASSUME NEW c \in Content, Remember(p, c) PROVE TypeInv'
  BY <1>1, RememberType
<1>2. ASSUME NEW c \in Content, BeginEdit(p, c) PROVE TypeInv'
  BY <1>0, <1>2, BeginType DEF BeginEdit
<1>3. CASE BeginForget(p)
  BY <1>0, <1>3, BeginType DEF BeginForget
<1>4. ASSUME NEW v \in 1..MaxVersion, BeginRestore(p, v) PROVE TypeInv'
  BY <1>4, BeginRestoreType
<1>5. ASSUME NEW k \in DOMAIN conflicts, BeginAccept(p, k) PROVE TypeInv'
  <2>1. k \in 1..Len(conflicts) /\ k \in 0..MaxConflict /\ k <= Len(conflicts)
    BY <1>0, BoundAssumption DEF TypeInv, MemoryOK
  <2> QED
    BY <1>0, <1>5, <2>1, BeginType DEF BeginAccept
<1> QED
  BY <1>0, <1>1, <1>2, <1>3, <1>4, <1>5, ReadVersionType, ForgetType, EditType, AcceptType,
     ObserveType, ThrowType DEF UserCall

-----------------------------------------------------------------------------
(* The jobs, and the rest of the system                                    *)

\* Only the queue and the worker change.
LEMMA WorkerMoves ==
    ASSUME TypeInv, QueueOK', UNCHANGED memory, NEW x \in ProcState,
           proc' = [proc EXCEPT ![Worker] = x],
           Sound(Worker, x, item.status, Len(conflicts)),
           working' = None <=> x.step = "idle"
    PROVE  TypeInv'
<1>1. Remains /\ Worker \in Proc
  BY Unmoved DEF TypeInv, memory, Proc
<1>2. Sound(Worker, x, item'.status, Len(conflicts'))
  BY DEF memory
<1>3. proc' \in [Proc -> ProcState] /\ ProcInv' /\ WorkInv'
  BY <1>1, <1>2, MovesTo
<1> QED
  BY <1>3 DEF TypeInv, MemoryOK, memory

\* The processes stay where they are.
LEMMA OthersMove ==
    ASSUME TypeInv, Remains, UNCHANGED <<proc, working>>
    PROVE  proc' \in [Proc -> ProcState] /\ ProcInv' /\ WorkInv'
<1>1. Worker \in Proc
  BY DEF Proc
<1>2. Sound(Worker, proc'[Worker], item'.status, Len(conflicts'))
  BY <1>1, ReadProc, StaysSound
<1> QED
  BY <1>1, <1>2, ProcMoves DEF TypeInv, WorkInv

\* The worker settles or begins a job, or goes on to its next candidate.
LEMMA CandidateType ==
    ASSUME NEW c \in Content, NEW n \in 0..MaxCandidates, NEW status, NEW k \in Nat
    PROVE  /\ Candidate(c, n) \in ProcState /\ Candidate(c, n).step = "find"
           /\ Candidate(c, n).left = n /\ Sound(Worker, Candidate(c, n), status, k)
<1> DEFINE x == [Quiet EXCEPT !.op = "observe", !.step = "find", !.content = c, !.left = n]
<1>1. x \in ProcState
  BY QuietType DEF ProcState, Text
<1>2. x.op = "observe" /\ x.step = "find" /\ x.content = c /\ x.left = n /\ x.conflict = 0
  BY DEF Quiet
<1>3. Candidate(c, n) = x
  BY DEF Candidate
<1> HIDE DEF x
<1>4. Sound(Worker, x, status, k)
  BY <1>2 DEF Sound, Observing
<1> QED
  BY <1>1, <1>2, <1>3, <1>4

\* Where the worker goes: x is its state after the step.
WorkerGoes(x) ==
    /\ proc' = [proc EXCEPT ![Worker] = x] /\ x \in ProcState
    /\ x.step \in {"idle", "claimed", "model", "find", "finish", "failing"}
    /\ Sound(Worker, x, item.status, Len(conflicts))
    /\ working' = None <=> x.step = "idle"

\* A step of the worker that only says where it goes next.
LEMMA WorkerStep ==
    ASSUME TypeInv, NEW step \in {"claimed", "model", "finish"}, Step(Worker, step),
           working' # None
    PROVE  \E x : WorkerGoes(x) /\ x.step = step /\ x.left = proc[Worker].left
<1>0. /\ Worker \in Proc /\ proc[Worker] \in ProcState
      /\ Sound(Worker, proc[Worker], item.status, Len(conflicts))
  BY ReadProc DEF Proc
<1> DEFINE x == [proc[Worker] EXCEPT !.step = step]
<1>1. x \in ProcState /\ x.step = step /\ Sound(Worker, x, item.status, Len(conflicts))
      /\ x.left = proc[Worker].left
  BY <1>0 DEF ProcState, Sound, Observing
<1>2. proc' = [proc EXCEPT ![Worker] = x]
  BY DEF Step
<1> HIDE DEF x
<1> QED
  BY <1>1, <1>2 DEF WorkerGoes

\* A step of the worker that forgets what it did.
LEMMA WorkerForgets ==
    ASSUME TypeInv, NEW step \in {"idle", "finish", "failing"},
           proc' = [proc EXCEPT ![Worker] = [Quiet EXCEPT !.step = step]],
           working' = None <=> step = "idle"
    PROVE  \E x : WorkerGoes(x) /\ x.step = step /\ x.left = 0
<1> DEFINE x == [Quiet EXCEPT !.step = step]
<1>1. x \in ProcState
  BY QuietType DEF ProcState
<1>2. x.op = "none" /\ x.step = step /\ x.conflict = 0 /\ x.left = 0
  BY DEF Quiet
<1>3. proc' = [proc EXCEPT ![Worker] = x]
  OBVIOUS
<1> HIDE DEF x
<1>4. Sound(Worker, x, item.status, Len(conflicts))
  BY <1>2 DEF Sound, Observing, TypeInv, MemoryOK
<1> QED
  BY <1>1, <1>2, <1>3, <1>4 DEF WorkerGoes

LEMMA ReleaseGoes ==
    ASSUME TypeInv, Release
    PROVE  \E x : WorkerGoes(x) /\ x.step = "idle" /\ x.left = 0
<1>1. Quiet = [Quiet EXCEPT !.step = "idle"]
  BY DEF Quiet
<1> QED
  BY <1>1, WorkerForgets DEF Release

LEMMA FailingGoes ==
    ASSUME TypeInv, Failing, working' # None
    PROVE  \E x : WorkerGoes(x) /\ x.step = "failing" /\ x.left = 0
BY WorkerForgets DEF Failing

\* The worker has a job at every step but the idle one.
LEMMA WorkerBusy ==
    ASSUME TypeInv
    PROVE  /\ Worker \in Proc /\ None \notin Job
           /\ proc[Worker] \in ProcState
           /\ proc[Worker].step # "idle" <=> working \in Job
BY ReadProc, NamesAssumption DEF TypeInv, WorkInv, QueueOK, Proc

LEMMA LearningMoves ==
    ASSUME TypeInv, Learning, ~Observe(Worker)
    PROVE  /\ UNCHANGED memory /\ UNCHANGED <<consent, crashes>>
           /\ UNCHANGED <<proc, working>> \/ \E x : WorkerGoes(x)
<1>1. UNCHANGED memory /\ UNCHANGED <<consent, crashes>>
  BY DEF Learning, Enqueue, Claim, LoseClaim, AskModel, ModelAnswers, NextCandidate, FinishJob,
         LoseFinish, FailWork, FailJob, LoseFailure, queue
<1> SUFFICES UNCHANGED <<proc, working>> \/ \E x : WorkerGoes(x)
  BY <1>1
<1>2. CASE \E j \in Job : Enqueue(j) \/ LoseClaim(j)
  BY <1>2 DEF Enqueue, LoseClaim
<1>3. CASE \E j \in Job : Claim(j)
  BY <1>3, WorkerBusy, WorkerStep DEF Claim
<1>4. CASE AskModel
  <2>1. working' # None
    BY <1>4, WorkerBusy DEF AskModel, queue
  <2>2. PICK step \in {"model", "finish"} : Step(Worker, step)
    BY <1>4 DEF AskModel
  <2> QED
    BY <2>1, <2>2, WorkerStep
<1>5. CASE ModelAnswers
  <2>1. working' # None /\ working' = working
    BY <1>5, WorkerBusy DEF ModelAnswers, queue
  <2>2. ASSUME NEW c \in Content,
               proc' = [proc EXCEPT ![Worker] = Candidate(c, MaxCandidates - 1)]
        PROVE  \E x : WorkerGoes(x)
    <3>1. MaxCandidates - 1 \in 0..MaxCandidates /\ Len(conflicts) \in Nat
      BY BoundAssumption DEF TypeInv, MemoryOK
    <3> DEFINE x == Candidate(c, MaxCandidates - 1)
    <3>2. x \in ProcState /\ x.step = "find" /\ Sound(Worker, x, item.status, Len(conflicts))
      BY <3>1, CandidateType
    <3>3. proc' = [proc EXCEPT ![Worker] = x]
      BY <2>2
    <3> HIDE DEF x
    <3>4. WorkerGoes(x)
      BY <2>1, <3>2, <3>3 DEF WorkerGoes
    <3> QED
      BY <3>4
  <2>3. CASE proc' = [proc EXCEPT ![Worker] = [Quiet EXCEPT !.step = "finish"]]
    <3>1. PICK step \in {"finish"} :
            proc' = [proc EXCEPT ![Worker] = [Quiet EXCEPT !.step = step]]
      BY <2>3
    <3>2. \E x : WorkerGoes(x) /\ x.step = step /\ x.left = 0
      BY <2>1, <3>1, WorkerForgets
    <3> QED
      BY <3>2
  <2> QED
    <3>1. \/ \E c \in Content :
               proc' = [proc EXCEPT ![Worker] = Candidate(c, MaxCandidates - 1)]
          \/ proc' = [proc EXCEPT ![Worker] = [Quiet EXCEPT !.step = "finish"]]
      BY <1>5 DEF ModelAnswers
    <3> QED
      BY <2>2, <2>3, <3>1
<1>6. CASE NextCandidate
  <2>1. working' # None
    BY <1>6, WorkerBusy DEF NextCandidate, queue
  <2>2. PICK c \in Content :
          proc' = [proc EXCEPT ![Worker] = Candidate(c, proc[Worker].left - 1)]
    BY <1>6 DEF NextCandidate
  <2>3. proc[Worker].left - 1 \in 0..MaxCandidates /\ Len(conflicts) \in Nat
    BY <1>6, WorkerBusy, BoundAssumption DEF NextCandidate, ProcState, TypeInv, MemoryOK
  <2> DEFINE x == Candidate(c, proc[Worker].left - 1)
  <2>4. x \in ProcState /\ x.step = "find" /\ Sound(Worker, x, item.status, Len(conflicts))
    BY <2>3, CandidateType
  <2>5. proc' = [proc EXCEPT ![Worker] = x]
    BY <2>2
  <2> HIDE DEF x
  <2>6. WorkerGoes(x)
    BY <2>1, <2>4, <2>5 DEF WorkerGoes
  <2> QED
    BY <2>6
<1>7. CASE FinishJob \/ FailJob \/ LoseFailure
  BY <1>7, ReleaseGoes DEF FinishJob, FailJob, LoseFailure
<1>8. CASE LoseFinish \/ FailWork
  <2>1. working' # None
    BY <1>8, WorkerBusy DEF LoseFinish, FailWork, queue
  <2>2. Failing
    BY <1>8 DEF LoseFinish, FailWork
  <2> QED
    BY <2>1, <2>2, FailingGoes
<1> QED
  BY <1>1, <1>2, <1>3, <1>4, <1>5, <1>6, <1>7, <1>8 DEF Learning

\* The row of a job that runs, that has ended, or that is put back.
LEMMA RunningRow ==
    ASSUME TypeInv, NEW j \in Job, Running(j)
    PROVE  \E r \in JobRow : /\ job' = [job EXCEPT ![j] = r] /\ r.status = "running"
                             /\ r.attempts = job[j].attempts + 1 /\ r.payload = job[j].payload
<1>1. PICK s \in JobRow : s = job[j]
  BY DEF TypeInv, QueueOK
<1> DEFINE r == [s EXCEPT !.status = "running", !.attempts = @ + 1]
<1>2. r \in JobRow /\ r.status = "running" /\ r.attempts = s.attempts + 1 /\ r.payload = s.payload
  <2>1. PICK t \in JobRow : t = [s EXCEPT !.status = "running"]
    BY DEF JobRow
  <2>2. t.status = "running" /\ t.attempts = s.attempts /\ t.payload = s.payload
    BY <2>1 DEF JobRow
  <2>3. r = [t EXCEPT !.attempts = @ + 1]
    BY <2>1
  <2> HIDE DEF r
  <2> QED
    BY <2>2, <2>3 DEF JobRow
<1>3. job' = [job EXCEPT ![j] = r]
  <2>1. job' = [job EXCEPT ![j] = [job[j] EXCEPT !.status = "running", !.attempts = @ + 1]]
    BY <1>1 DEF Running, TypeInv, QueueOK, JobRow
  <2> QED
    BY <1>1, <2>1
<1> HIDE DEF r
<1> QED
  BY <1>1, <1>2, <1>3

LEMMA FinishedRow ==
    ASSUME TypeInv, Finished, working \in Job
    PROVE  \E r \in JobRow : /\ job' = [job EXCEPT ![working] = r]
                             /\ r.status \in {"done", "skipped"}
                             /\ r.attempts = job[working].attempts /\ ~r.payload
<1>1. PICK s \in JobRow : s = job[working]
  BY DEF TypeInv, QueueOK
<1>2. PICK status \in {"done", "skipped"} :
        job' = [job EXCEPT ![working] = [@ EXCEPT !.status = status, !.payload = FALSE]]
  BY DEF Finished
<1> DEFINE r == [s EXCEPT !.status = status, !.payload = FALSE]
<1>3. job' = [job EXCEPT ![working] = r]
  BY <1>1, <1>2 DEF TypeInv, QueueOK
<1>4. r \in JobRow /\ r.status = status /\ r.payload = FALSE /\ r.attempts = s.attempts
  BY DEF JobRow
<1> HIDE DEF r
<1> QED
  BY <1>1, <1>3, <1>4

LEMMA FailedRow ==
    ASSUME TypeInv, working \in Job, job' = [job EXCEPT ![working] = AfterFailure(@)]
    PROVE  \E r \in JobRow : /\ job' = [job EXCEPT ![working] = r]
                             /\ r.attempts = job[working].attempts
                             /\ \/ r.status = "failed" /\ ~r.payload
                                \/ /\ r.status = "pending" /\ r.payload = job[working].payload
                                   /\ r.attempts < 3
<1>1. PICK s \in JobRow : s = job[working]
  BY DEF TypeInv, QueueOK
<1> DEFINE r == AfterFailure(s)
<1>2. job' = [job EXCEPT ![working] = r]
  BY <1>1 DEF TypeInv, QueueOK
<1>3. CASE s.attempts >= 3
  <2>1. r = [s EXCEPT !.status = "failed", !.payload = FALSE]
    BY <1>3 DEF AfterFailure
  <2>2. r \in JobRow /\ r.status = "failed" /\ r.payload = FALSE /\ r.attempts = s.attempts
    BY <2>1 DEF JobRow
  <2> HIDE DEF r
  <2> QED
    BY <1>1, <1>2, <2>2
<1>4. CASE ~(s.attempts >= 3)
  <2>1. r = [s EXCEPT !.status = "pending"]
    BY <1>4 DEF AfterFailure
  <2>2. r \in JobRow /\ r.status = "pending" /\ r.payload = s.payload /\ r.attempts = s.attempts
    BY <2>1 DEF JobRow
  <2>3. s.attempts < 3
    BY <1>4 DEF JobRow
  <2> HIDE DEF r
  <2> QED
    BY <1>1, <1>2, <2>2, <2>3
<1> QED
  BY <1>3, <1>4

LEMMA JobType ==
    ASSUME TypeInv, Learning
    PROVE  TypeInv'
<1>1. CASE Observe(Worker)
  BY <1>1, WorkerBusy, ObserveType
<1>2. CASE ~Observe(Worker)
  <2>1. UNCHANGED memory /\ UNCHANGED <<consent, crashes>>
        /\ (UNCHANGED <<proc, working>> \/ \E x : WorkerGoes(x))
    BY <1>2, LearningMoves
  <2>2. job' \in [Job -> JobRow]
    <3>1. ASSUME NEW j \in Job, Enqueue(j) PROVE job' \in [Job -> JobRow]
      BY <3>1 DEF Enqueue, TypeInv, QueueOK, JobRow
    <3>2. ASSUME NEW j \in Job, Running(j) PROVE job' \in [Job -> JobRow]
      BY <3>2, RunningRow DEF TypeInv, QueueOK
    <3>3. CASE FinishJob \/ LoseFinish
      <4>1. Finished /\ working \in Job
        BY <3>3, WorkerBusy DEF FinishJob, LoseFinish
      <4> QED
        BY <4>1, FinishedRow DEF TypeInv, QueueOK
    <3>4. CASE FailJob
      <4>1. working \in Job /\ job' = [job EXCEPT ![working] = AfterFailure(@)]
        BY <3>4, WorkerBusy DEF FailJob
      <4> QED
        BY <4>1, FailedRow DEF TypeInv, QueueOK
    <3>5. CASE UNCHANGED job
      BY <3>5 DEF TypeInv, QueueOK
    <3> QED
      BY <1>2, <3>1, <3>2, <3>3, <3>4, <3>5
         DEF Learning, Claim, LoseClaim, AskModel, ModelAnswers, NextCandidate, FailWork,
             LoseFailure, queue
  <2>3. working' \in Job \cup {None}
    BY <1>2 DEF Learning, Enqueue, Claim, LoseClaim, AskModel, ModelAnswers, NextCandidate, FinishJob,
                LoseFinish, FailWork, FailJob, LoseFailure, Release, queue, TypeInv, QueueOK
  <2>4. lost' \in 0..MaxFaults
    <3>1. lost' = lost \/ (lost + crashes < MaxFaults /\ lost' = lost + 1)
      BY <1>2 DEF Learning, Enqueue, Claim, LoseClaim, AskModel, ModelAnswers, NextCandidate,
                  FinishJob, LoseFinish, FailWork, FailJob, LoseFailure, queue
    <3> QED
      BY <3>1, BoundAssumption DEF TypeInv, QueueOK
  <2>5. QueueOK'
    BY <2>1, <2>2, <2>3, <2>4 DEF TypeInv, QueueOK
  <2>6. CASE UNCHANGED <<proc, working>>
    <3>1. Remains
      BY <2>1, Unmoved DEF memory, TypeInv
    <3> QED
      BY <2>1, <2>5, <2>6, <3>1, OthersMove DEF TypeInv, MemoryOK, memory
  <2>7. CASE \E x : WorkerGoes(x)
    BY <2>1, <2>5, <2>7, WorkerMoves DEF WorkerGoes
  <2> QED
    BY <2>1, <2>6, <2>7
<1> QED
  BY <1>1, <1>2

LEMMA SettledType ==
    ASSUME TypeInv, NEW status \in {"active", "rejected"}, Settled(status)
    PROVE  TypeInv'
<1>1. item' \in ItemRow /\ item'.status # "absent"
  BY DEF Settled, TypeInv, MemoryOK, ItemRow, Status, Live, Gone
<1>2. UNCHANGED <<versions, conflicts, evidence, queue, proc>> /\ Remains
  BY <1>1 DEF Settled, Remains, TypeInv, MemoryOK
<1>3. proc' \in [Proc -> ProcState] /\ ProcInv' /\ WorkInv'
  BY <1>2, OthersMove DEF queue
<1> QED
  BY <1>1, <1>2, <1>3 DEF TypeInv, MemoryOK, QueueOK, queue

LEMMA RejectConflictType ==
    ASSUME TypeInv, NEW k \in DOMAIN conflicts, RejectConflict(k)
    PROVE  TypeInv'
<1>1. conflicts \in [1..Len(conflicts) -> ConflictRow] /\ Len(conflicts) \in Nat
      /\ k \in 1..Len(conflicts) /\ Len(conflicts) <= MaxConflict
  BY DEF TypeInv, MemoryOK
<1>2. conflicts' \in [1..Len(conflicts) -> ConflictRow]
  BY <1>1 DEF RejectConflict, ConflictRow
<1>3. conflicts' \in Seq(ConflictRow) /\ Len(conflicts') = Len(conflicts)
  BY <1>1, <1>2, SeqDef, LenProperties
<1>4. UNCHANGED <<item, versions, evidence, queue, proc>> /\ Remains
  BY <1>1, <1>3 DEF RejectConflict, Remains
<1>5. proc' \in [Proc -> ProcState] /\ ProcInv' /\ WorkInv'
  BY <1>4, OthersMove DEF queue
<1> QED
  BY <1>1, <1>3, <1>4, <1>5 DEF TypeInv, MemoryOK, QueueOK, queue

LEMMA RestartType ==
    ASSUME TypeInv, NEW late \in BOOLEAN, Restart(late)
    PROVE  TypeInv'
<1>1. UNCHANGED <<memory, consent>> /\ Remains /\ working' = None
  BY Unmoved DEF Restart, memory, TypeInv
<1>2. QueueOK'
  <2>1. job' \in [Job -> JobRow]
    BY DEF Restart, TypeInv, QueueOK, JobRow
  <2>2. crashes' \in 0..MaxFaults /\ UNCHANGED lost
    BY BoundAssumption DEF Restart, TypeInv, QueueOK
  <2> QED
    BY <1>1, <2>1, <2>2 DEF TypeInv, QueueOK
<1>3. proc' \in [Proc -> ProcState] /\ \A q \in Proc : proc'[q] = Quiet \/ proc'[q] = Spent
  BY QuietType DEF Restart
<1>4. ProcInv'
  BY <1>1, <1>3, QuietSound DEF ProcInv, Remains
<1>5. WorkInv'
  BY <1>1 DEF Restart, WorkInv, Proc, Quiet
<1> QED
  BY <1>1, <1>2, <1>3, <1>4, <1>5 DEF TypeInv, MemoryOK, memory

LEMMA TypeStep ==
    ASSUME TypeInv, [Next]_vars
    PROVE  TypeInv'
<1>1. CASE UNCHANGED vars
  BY <1>1 DEF vars, TypeInv, MemoryOK, QueueOK, ProcInv, WorkInv
<1>2. CASE Confirm \/ Reject \/ PositiveFeedback \/ NegativeFeedback
  BY <1>2, SettledType DEF Confirm, Reject, PositiveFeedback, NegativeFeedback
<1>3. CASE ChangeMode
  <2>1. UNCHANGED <<memory, job, working, proc, lost, crashes>> /\ Remains
    BY <1>3, Unmoved DEF ChangeMode, memory, TypeInv
  <2>2. proc' \in [Proc -> ProcState] /\ ProcInv' /\ WorkInv'
    BY <2>1, OthersMove
  <2> QED
    BY <1>3, <2>1, <2>2 DEF ChangeMode, TypeInv, MemoryOK, QueueOK, memory
<1> QED
  BY <1>1, <1>2, <1>3, JobType, CallType, RejectConflictType, RestartType DEF Next

LEMMA TypeInit ==
    ASSUME Init
    PROVE  TypeInv
<1>1. 1 \in 1..MaxVersion /\ 0 \in Nat /\ 0 \in 0..MaxFaults /\ 0 <= MaxConflict
  BY BoundAssumption
<1>2. MemoryOK
  BY <1>1 DEF Init, MemoryOK, ItemRow, VersionRow, NoVersion, Status, Text
<1>3. QueueOK
  BY <1>1 DEF Init, QueueOK, JobRow
<1>4. proc \in [Proc -> ProcState] /\ \A p \in Proc : proc[p] = Quiet
  BY QuietType DEF Init
<1>5. ProcInv
  BY <1>2, <1>4, QuietSound DEF ProcInv, MemoryOK
<1>6. WorkInv
  BY <1>4 DEF Init, WorkInv, Proc, Quiet
<1> QED
  BY <1>2, <1>3, <1>4, <1>5, <1>6 DEF TypeInv

LEMMA TypeAlways == Spec => []TypeInv
BY TypeInit, TypeStep, PTL DEF Spec

\* Every row and every process keeps its form, whatever calls, jobs, failures
\* and crashes meet.
THEOREM MemoryTypeCorrect == Spec => []TypeOK
BY TypeAlways, TypeParts, PTL

-----------------------------------------------------------------------------
(* Jobs                                                                    *)

\* The other processes wait for the one that moves.
LEMMA OthersWait ==
    ASSUME TypeInv, NEW p \in Proc, Observe(p) \/ (p \in Call /\ UserCall(p))
    PROVE  \A q \in Proc \ {p} : proc'[q] = proc[q]
<1>1. CASE Observe(p)
  BY <1>1 DEF Observe, Find, Insert, ReadCreated, AddVersion, Update, ObserveConflict, AddEvidence,
              Count, Promote, Step, Done, TypeInv
<1>2. CASE p \in Call /\ UserCall(p)
  BY <1>1, <1>2 DEF UserCall, Remember, BeginEdit, BeginForget, BeginRestore, BeginAccept, Begin,
                    ReadVersion, Forget, Edit, Accept, Throw, Done, TypeInv
<1> QED
  BY <1>1, <1>2

\* The worker has the turn of its job while it may learn from it.
MayLearn == proc[Worker].step \in LearningSteps \/ proc[Worker].left > 0

JobInv ==
    /\ JobsEnd
    /\ proc[Worker].step \in {"idle", "claimed"} => proc[Worker].left = 0
    /\ \A j \in Job : /\ job[j].status = "pending" => job[j].attempts <= 2 + crashes
                      /\ working = j /\ MayLearn => job[j].payload
                      /\ working = j /\ lost = 0 => job[j].status = "running"

\* The conditions on one row, n being the crashes so far and m the lost answers.
RowOK(r, n, m) ==
    /\ r.attempts <= 3 + n
    /\ r.status \in {"absent", "done", "skipped", "failed"} => ~r.payload
    /\ m = 0 /\ r.status \in {"pending", "running"} => r.payload
    /\ r.status = "pending" => r.attempts <= 2 + n

\* Only the job j changes, and the worker has it before or after the step.
LEMMA JobChanges ==
    ASSUME TypeInv, TypeInv', JobInv, NEW j \in Job, NEW r \in JobRow,
           job' = [job EXCEPT ![j] = r],
           UNCHANGED crashes, lost' = lost \/ lost' # 0,
           RowOK(r, crashes, lost'),
           working \in {None, j}, working' \in {None, j}, ~MayLearn',
           proc'[Worker].step \in {"idle", "claimed"} => proc'[Worker].left = 0,
           working' = j /\ lost' = 0 => r.status = "running",
           lost' = 0 /\ crashes = 0 /\ r.status = "running" => working' = j
    PROVE  JobInv'
<1>1. job'[j] = r /\ \A i \in Job \ {j} : job'[i] = job[i]
  BY DEF TypeInv, QueueOK
<1>2. None \notin Job
  BY NamesAssumption
<1>3. ASSUME NEW i \in Job
      PROVE  /\ RowOK(job'[i], crashes', lost')
             /\ working' = i /\ lost' = 0 => job'[i].status = "running"
             /\ lost' = 0 /\ crashes' = 0 /\ job'[i].status = "running" => working' = i
  <2>1. CASE i = j
    BY <1>1, <2>1
  <2>2. CASE i # j
    <3>1. job'[i] = job[i] /\ working # i /\ working' # i
      BY <1>1, <1>2, <2>2
    <3>2. RowOK(job[i], crashes, lost)
      BY DEF JobInv, JobsEnd, RowOK
    <3>3. RowOK(job[i], crashes, lost')
      BY <3>2 DEF RowOK
    <3>4. ~(lost' = 0 /\ crashes = 0 /\ job[i].status = "running")
      BY <3>1 DEF JobInv, JobsEnd
    <3> QED
      BY <3>1, <3>3, <3>4
  <2> QED
    BY <2>1, <2>2
<1>4. proc'[Worker].step \notin LearningSteps
  BY DEF MayLearn
<1> QED
  BY <1>3, <1>4 DEF JobInv, JobsEnd, RowOK

\* Rows and job stay, and the worker learns only if it might before.
LEMMA JobStays ==
    ASSUME TypeInv, TypeInv', JobInv, UNCHANGED <<job, working, crashes>>,
           lost' = lost, working \in Job /\ MayLearn' => MayLearn,
           proc'[Worker].step \in {"idle", "claimed"} => proc'[Worker].left = 0
    PROVE  JobInv'
<1>1. \A j \in Job : working = j /\ MayLearn' => job[j].payload
  BY DEF JobInv
<1>2. proc'[Worker].step \in LearningSteps => MayLearn'
  BY DEF MayLearn
<1> QED
  BY <1>1, <1>2 DEF JobInv, JobsEnd

\* An observation keeps the job, and ends where no other is begun.
LEMMA ObserveLearns ==
    ASSUME TypeInv, Observe(Worker)
    PROVE  MayLearn /\ proc'[Worker].step \notin {"idle", "claimed"}
<1>0. Worker \in Proc /\ proc[Worker] \in ProcState
  BY ReadProc DEF Proc
<1>1. proc[Worker].step \in LearningSteps
  BY DEF Observe, Find, Insert, ReadCreated, AddVersion, Update, ObserveConflict, AddEvidence, Count,
         Promote, LearningSteps
<1> SUFFICES proc'[Worker].step \notin {"idle", "claimed"}
  BY <1>1 DEF MayLearn
<1>2. Done(Worker) => proc'[Worker].step = "finish"
  BY <1>0, OnwardType DEF Done, TypeInv
<1>3. CASE Insert(Worker) \/ ReadCreated(Worker) \/ AddVersion(Worker) \/ Update(Worker)
           \/ ObserveConflict(Worker)
  BY <1>0, <1>3 DEF Insert, ReadCreated, AddVersion, Update, ObserveConflict, Step, TypeInv, ProcState
<1>4. CASE AddEvidence(Worker)
  BY <1>0, <1>2, <1>4, OnwardType DEF AddEvidence, TypeInv
<1>5. CASE Count(Worker)
  BY <1>0, <1>2, <1>5 DEF Count, TypeInv, ProcState
<1>6. CASE Find(Worker) /\ ~Done(Worker)
  <2>1. PICK step \in {"insert", "evidence", "update", "conflict", "ignore"} :
          proc' = [proc EXCEPT ![Worker].found = item.status, ![Worker].step = step]
    BY <1>6 DEF Find, Decision
  <2> QED
    BY <1>0, <1>1, <2>1 DEF TypeInv, ProcState, MayLearn
<1> QED
  BY <1>1, <1>2, <1>3, <1>4, <1>5, <1>6 DEF Observe, Promote

\* A worker that begins or settles a job has nothing to learn.
LEMMA Idles ==
    ASSUME TypeInv, NEW x, WorkerGoes(x), x.step \in {"idle", "claimed", "failing"}, x.left = 0
    PROVE  /\ ~MayLearn'
           /\ proc'[Worker].left = 0 /\ proc'[Worker].step = x.step
<1>1. proc'[Worker] = x
  BY DEF WorkerGoes, TypeInv, Proc
<1> QED
  BY <1>1 DEF MayLearn, LearningSteps

LEMMA LearningJobs ==
    ASSUME TypeInv, TypeInv', JobInv, Learning
    PROVE  JobInv'
<1>0. /\ Worker \in Proc /\ crashes \in Nat /\ lost \in Nat /\ None \notin Job
      /\ proc[Worker].step # "idle" <=> working \in Job
      /\ working \in Job \cup {None} /\ \A j \in Job : job[j] \in JobRow
  BY WorkerBusy, BoundAssumption DEF TypeInv, QueueOK
<1>1. CASE Observe(Worker)
  <2>1. UNCHANGED <<job, working, crashes, lost>>
    BY <1>1 DEF Observe, Find, Insert, ReadCreated, AddVersion, Update, ObserveConflict,
                AddEvidence, Count, Promote, queue
  <2> QED
    BY <1>1, <2>1, ObserveLearns, JobStays
<1>2. ASSUME NEW j \in Job, Enqueue(j) PROVE JobInv'
  <2>1. /\ UNCHANGED <<working, crashes, lost, proc>> /\ job[j].status = "absent"
        /\ job' = [job EXCEPT ![j] = [status |-> "pending", attempts |-> 0, payload |-> TRUE]]
    BY <1>2 DEF Enqueue
  <2>2. job'[j] = [status |-> "pending", attempts |-> 0, payload |-> TRUE]
        /\ \A i \in Job \ {j} : job'[i] = job[i]
    BY <2>1 DEF TypeInv, QueueOK
  <2>3. working = j => lost # 0 /\ ~MayLearn
    BY <2>1 DEF JobInv, JobsEnd
  <2>4. /\ RowOK(job'[j], crashes, lost) /\ job'[j].status # "running"
        /\ working = j /\ MayLearn => job'[j].payload
    BY <1>0, <2>2, <2>3 DEF RowOK
  <2>5. \A i \in Job \ {j} :
          /\ RowOK(job'[i], crashes, lost)
          /\ working = i /\ MayLearn => job'[i].payload
          /\ working = i /\ lost = 0 => job'[i].status = "running"
          /\ lost = 0 /\ crashes = 0 /\ job'[i].status = "running" => working = i
    BY <2>2 DEF JobInv, JobsEnd, RowOK
  <2>6. \A i \in Job :
          /\ RowOK(job'[i], crashes', lost')
          /\ working' = i /\ MayLearn' => job'[i].payload
          /\ working' = i /\ lost' = 0 => job'[i].status = "running"
          /\ lost' = 0 /\ crashes' = 0 /\ job'[i].status = "running" => working' = i
    BY <2>1, <2>3, <2>4, <2>5 DEF MayLearn
  <2>7. proc'[Worker].step \in {"idle", "claimed"} => proc'[Worker].left = 0
    BY <2>1 DEF JobInv
  <2>8. proc'[Worker].step \in LearningSteps => MayLearn'
    BY DEF MayLearn
  <2> QED
    BY <2>6, <2>7, <2>8 DEF JobInv, JobsEnd, RowOK
<1>3. ASSUME NEW j \in Job, Claim(j) \/ LoseClaim(j) PROVE JobInv'
  <2>1. /\ working = None /\ job[j].status = "pending" /\ Running(j) /\ UNCHANGED crashes
        /\ proc[Worker].step = "idle" /\ proc[Worker].left = 0
    BY <1>0, <1>3 DEF Claim, LoseClaim, JobInv
  <2>2. PICK r \in JobRow :
          /\ job' = [job EXCEPT ![j] = r] /\ r.status = "running"
          /\ r.attempts = job[j].attempts + 1 /\ r.payload = job[j].payload
    BY <2>1, RunningRow
  <2>3. job[j].attempts <= 2 + crashes /\ job[j].attempts \in Nat /\ (lost = 0 => job[j].payload)
    BY <1>0, <2>1 DEF JobInv, JobsEnd, JobRow
  <2>4. r.attempts <= 3 + crashes
    BY <1>0, <2>2, <2>3
  <2>5. CASE Claim(j)
    <3>1. working' = j /\ lost' = lost /\ Step(Worker, "claimed")
      BY <2>5 DEF Claim
    <3>2. working' # None
      BY <1>0, <3>1
    <3>3. PICK x : WorkerGoes(x) /\ x.step = "claimed" /\ x.left = 0
      BY <2>1, <3>1, <3>2, WorkerStep
    <3>4. ~MayLearn' /\ proc'[Worker].left = 0
      BY <3>3, Idles
    <3>5. RowOK(r, crashes, lost')
      BY <2>2, <2>3, <2>4, <3>1 DEF RowOK
    <3> QED
      BY <2>1, <2>2, <3>1, <3>4, <3>5, JobChanges
  <2>6. CASE LoseClaim(j)
    <3>1. lost' = lost + 1 /\ UNCHANGED <<working, proc>>
      BY <2>6 DEF LoseClaim
    <3>2. lost' # 0
      BY <1>0, <3>1
    <3>3. ~MayLearn' /\ proc'[Worker].left = 0
      BY <2>1, <3>1 DEF MayLearn, LearningSteps
    <3>4. RowOK(r, crashes, lost')
      BY <2>2, <2>4, <3>2 DEF RowOK
    <3> QED
      BY <2>1, <2>2, <3>1, <3>2, <3>3, <3>4, JobChanges
  <2> QED
    BY <1>3, <2>5, <2>6
<1>4. CASE AskModel
  <2>1. /\ UNCHANGED <<job, working, crashes, lost>> /\ working \in Job
        /\ proc[Worker].step = "claimed" /\ proc[Worker].left = 0
    BY <1>0, <1>4 DEF AskModel, queue, JobInv
  <2>2. PICK step \in {"model", "finish"} :
          Step(Worker, step) /\ (step = "model" => job[working].payload)
    BY <1>4 DEF AskModel
  <2>3. working' # None
    BY <1>0, <2>1
  <2>4. PICK x : WorkerGoes(x) /\ x.step = step /\ x.left = 0
    BY <2>1, <2>2, <2>3, WorkerStep
  <2>5. proc'[Worker] = x
    BY <1>0, <2>4 DEF WorkerGoes, TypeInv
  <2>6. MayLearn' => job[working].payload
    BY <2>2, <2>4, <2>5 DEF MayLearn, LearningSteps
  <2>7. \A j \in Job : working = j /\ MayLearn' => job[j].payload
    BY <2>6
  <2>8. proc'[Worker].step \in LearningSteps => MayLearn'
    BY DEF MayLearn
  <2>9. proc'[Worker].left = 0
    BY <2>4, <2>5
  <2> QED
    BY <2>1, <2>7, <2>8, <2>9 DEF JobInv, JobsEnd
<1>5. CASE ModelAnswers \/ NextCandidate
  <2>1. UNCHANGED <<job, working, crashes, lost>> /\ MayLearn
    BY <1>5 DEF ModelAnswers, NextCandidate, queue, MayLearn, LearningSteps
  <2>2. PICK x : proc' = [proc EXCEPT ![Worker] = x] /\ x.step \in {"find", "finish"}
    <3>1. \A c, n : Candidate(c, n).step = "find"
      BY DEF Candidate, Quiet
    <3>2. [Quiet EXCEPT !.step = "finish"].step = "finish"
      BY DEF Quiet
    <3>3. CASE ModelAnswers
      <4>1. CASE \E c \in Content :
                  proc' = [proc EXCEPT ![Worker] = Candidate(c, MaxCandidates - 1)]
        BY <3>1, <4>1
      <4>2. CASE proc' = [proc EXCEPT ![Worker] = [Quiet EXCEPT !.step = "finish"]]
        <5> DEFINE x == [Quiet EXCEPT !.step = "finish"]
        <5>1. proc' = [proc EXCEPT ![Worker] = x] /\ x.step = "finish"
          BY <3>2, <4>2
        <5> HIDE DEF x
        <5> QED
          BY <5>1
      <4> QED
        BY <3>3, <4>1, <4>2 DEF ModelAnswers
    <3>4. CASE NextCandidate
      BY <3>1, <3>4 DEF NextCandidate
    <3> QED
      BY <1>5, <3>3, <3>4
  <2>3. proc'[Worker].step \notin {"idle", "claimed"}
    BY <1>0, <2>2 DEF TypeInv
  <2> QED
    BY <2>1, <2>3, JobStays
<1>6. CASE FailWork
  <2>1. UNCHANGED <<job, working, crashes, lost>> /\ Failing /\ working \in Job
    BY <1>0, <1>6 DEF FailWork, queue
  <2>2. working' # None
    BY <1>0, <2>1
  <2>3. PICK x : WorkerGoes(x) /\ x.step = "failing" /\ x.left = 0
    BY <2>1, <2>2, FailingGoes
  <2>4. ~MayLearn' /\ proc'[Worker].step = "failing"
    BY <2>3, Idles
  <2> QED
    BY <2>1, <2>4, JobStays
<1>7. CASE FinishJob \/ LoseFinish
  <2>1. Finished /\ working \in Job /\ UNCHANGED crashes
    BY <1>0, <1>7 DEF FinishJob, LoseFinish
  <2>2. PICK j \in Job : j = working
    BY <2>1
  <2>3. PICK r \in JobRow : /\ job' = [job EXCEPT ![j] = r] /\ r.status \in {"done", "skipped"}
                            /\ r.attempts = job[j].attempts /\ ~r.payload
    BY <2>1, <2>2, FinishedRow
  <2>4. r.attempts <= 3 + crashes
    BY <2>3 DEF JobInv, JobsEnd
  <2>5. RowOK(r, crashes, lost')
    BY <2>3, <2>4 DEF RowOK
  <2>6. CASE FinishJob
    <3>1. Release /\ lost' = lost /\ working' = None
      BY <2>6 DEF FinishJob, Release
    <3>2. PICK x : WorkerGoes(x) /\ x.step = "idle" /\ x.left = 0
      BY <3>1, ReleaseGoes
    <3>3. ~MayLearn' /\ proc'[Worker].left = 0
      BY <3>2, Idles
    <3> QED
      BY <1>0, <2>1, <2>2, <2>3, <2>5, <3>1, <3>3, JobChanges
  <2>7. CASE LoseFinish
    <3>1. Failing /\ lost' = lost + 1 /\ UNCHANGED working /\ working' # None
      BY <1>0, <2>1, <2>7 DEF LoseFinish
    <3>2. lost' # 0
      BY <1>0, <3>1
    <3>3. PICK x : WorkerGoes(x) /\ x.step = "failing" /\ x.left = 0
      BY <3>1, FailingGoes
    <3>4. ~MayLearn' /\ proc'[Worker].left = 0
      BY <3>3, Idles
    <3> QED
      BY <2>1, <2>2, <2>3, <2>5, <3>1, <3>2, <3>4, JobChanges
  <2> QED
    BY <1>7, <2>6, <2>7
<1>8. CASE FailJob
  <2>1. /\ working \in Job /\ UNCHANGED <<crashes, lost>> /\ Release /\ working' = None
        /\ job' = [job EXCEPT ![working] = AfterFailure(@)]
    BY <1>0, <1>8 DEF FailJob, Release
  <2>2. PICK j \in Job : j = working
    BY <2>1
  <2>3. PICK r \in JobRow :
          /\ job' = [job EXCEPT ![j] = r] /\ r.attempts = job[j].attempts
          /\ \/ r.status = "failed" /\ ~r.payload
             \/ r.status = "pending" /\ r.payload = job[j].payload /\ r.attempts < 3
    BY <2>1, <2>2, FailedRow
  <2>4. /\ job[j].attempts <= 3 + crashes /\ job[j].attempts \in Nat
        /\ lost = 0 => job[j].payload
    BY <1>0, <2>2 DEF JobInv, JobsEnd, JobRow
  <2>5. r.status = "pending" => r.attempts <= 2 + crashes
    BY <1>0, <2>3, <2>4
  <2>6. RowOK(r, crashes, lost')
    BY <2>1, <2>3, <2>4, <2>5 DEF RowOK
  <2>7. PICK x : WorkerGoes(x) /\ x.step = "idle" /\ x.left = 0
    BY <2>1, ReleaseGoes
  <2>8. ~MayLearn' /\ proc'[Worker].left = 0
    BY <2>7, Idles
  <2>9. r.status # "running"
    BY <2>3
  <2> QED
    BY <1>0, <2>1, <2>2, <2>3, <2>6, <2>8, <2>9, JobChanges
<1>9. CASE LoseFailure
  <2>1. /\ UNCHANGED <<job, crashes>> /\ Release /\ working' = None /\ lost' = lost + 1
    BY <1>9 DEF LoseFailure, Release
  <2>2. lost' # 0
    BY <1>0, <2>1
  <2>3. PICK x : WorkerGoes(x) /\ x.step = "idle" /\ x.left = 0
    BY <2>1, ReleaseGoes
  <2>4. ~MayLearn' /\ proc'[Worker].left = 0
    BY <2>3, Idles
  <2>5. \A j \in Job : working' # j
    BY <1>0, <2>1
  <2> QED
    BY <2>1, <2>2, <2>4, <2>5 DEF JobInv, JobsEnd
<1> QED
  BY <1>1, <1>2, <1>3, <1>4, <1>5, <1>6, <1>7, <1>8, <1>9 DEF Learning

LEMMA RestartJobs ==
    ASSUME TypeInv, TypeInv', JobInv, NEW late \in BOOLEAN, Restart(late)
    PROVE  JobInv'
<1>1. /\ crashes' = crashes + 1 /\ working' = None /\ lost' = lost
      /\ crashes \in Nat /\ None \notin Job
  BY NamesAssumption, BoundAssumption DEF Restart, TypeInv, QueueOK
<1>2. ASSUME NEW j \in Job
      PROVE  /\ job'[j].attempts = job[j].attempts /\ job'[j].payload = job[j].payload
             /\ \/ job'[j].status = job[j].status
                \/ job[j].status = "running" /\ job'[j].status = "pending"
  <2>1. job'[j] = IF late /\ job[j].status = "running"
                  THEN [job[j] EXCEPT !.status = "pending"] ELSE job[j]
    BY DEF Restart
  <2>2. job[j] \in JobRow
    BY DEF TypeInv, QueueOK
  <2> QED
    BY <2>1, <2>2 DEF JobRow
<1>3. ASSUME NEW j \in Job
      PROVE  RowOK(job'[j], crashes', lost') /\ working' # j /\ crashes' # 0
  <2>1. RowOK(job[j], crashes, lost) /\ job[j].attempts \in Nat
    BY DEF JobInv, JobsEnd, RowOK, TypeInv, QueueOK, JobRow
  <2>2. job'[j].attempts <= 3 + crashes' /\ (job'[j].status = "pending" => job'[j].attempts <= 2 + crashes')
    BY <1>1, <1>2, <2>1 DEF RowOK
  <2>3. /\ job'[j].status \in {"absent", "done", "skipped", "failed"} => ~job'[j].payload
        /\ lost' = 0 /\ job'[j].status \in {"pending", "running"} => job'[j].payload
    BY <1>1, <1>2, <2>1 DEF RowOK
  <2> QED
    BY <1>1, <2>2, <2>3 DEF RowOK
<1>4. proc'[Worker] = Quiet
  BY DEF Restart, Proc
<1>5. proc'[Worker].left = 0
  BY <1>4 DEF Quiet
<1> QED
  BY <1>3, <1>5 DEF JobInv, JobsEnd, RowOK

LEMMA JobStep ==
    ASSUME TypeInv, TypeInv', JobInv, [Next]_vars
    PROVE  JobInv'
<1>1. CASE UNCHANGED <<job, working, crashes, lost>> /\ proc'[Worker] = proc[Worker]
  BY <1>1, JobStays DEF MayLearn, JobInv
<1>2. ASSUME NEW p \in Call, UserCall(p) PROVE JobInv'
  <2>1. UNCHANGED <<job, working, crashes, lost>>
    BY <1>2 DEF UserCall, Remember, BeginEdit, BeginForget, BeginRestore, BeginAccept, Begin,
                ReadVersion, Forget, Edit, Accept, Throw, Observe, Find, Insert, ReadCreated,
                AddVersion, Update, ObserveConflict, AddEvidence, Count, Promote, queue
  <2>2. proc'[Worker] = proc[Worker]
    <3>1. p \in Proc /\ Worker \in Proc \ {p}
      BY NamesAssumption DEF Proc
    <3> QED
      BY <1>2, <3>1, OthersWait
  <2> QED
    BY <1>1, <2>1, <2>2
<1>3. CASE \/ UNCHANGED vars \/ Confirm \/ Reject \/ PositiveFeedback \/ NegativeFeedback
           \/ ChangeMode \/ \E k \in DOMAIN conflicts : RejectConflict(k)
  BY <1>1, <1>3 DEF Confirm, Reject, PositiveFeedback, NegativeFeedback, Settled, ChangeMode,
                    RejectConflict, queue, vars
<1> QED
  BY <1>2, <1>3, LearningJobs, RestartJobs DEF Next

\* The bound on the attempts of a job and the fate of its turn hold for any
\* jobs, through lost answers of the database and crashes.
THEOREM MemoryJobsEnd == Spec => []JobsEnd
<1>1. Init => JobInv
  BY NamesAssumption, BoundAssumption
     DEF Init, JobInv, JobsEnd, MayLearn, LearningSteps, Proc, Quiet
<1>2. JobInv => JobsEnd
  BY DEF JobInv
<1> QED
  BY <1>1, <1>2, TypeAlways, JobStep, PTL DEF Spec

-----------------------------------------------------------------------------
(* Memories that are gone                                                  *)

\* A process that is done with its memory has moved.
LEMMA DoneChanges ==
    ASSUME TypeInv, NEW p \in Proc, Done(p), proc[p].step \notin {"finish", "ended"}
    PROVE  proc'[p] # proc[p]
<1>1. PICK x \in ProcState : x = proc[p]
  BY DEF TypeInv
<1> DEFINE new == IF p = Worker THEN Onward(p, "finish") ELSE Spent
<1>2. proc'[p] = new
  BY <1>1 DEF Done, TypeInv
<1>3. new.step \in {"finish", "ended"}
  BY OnwardType DEF Spent, Quiet
<1> QED
  BY <1>1, <1>2, <1>3

\* Who may change a memory that is gone.
MovedOn(p) == proc'[p] # proc[p] /\ (proc[p].op = "remember" \/ proc[p].found \in Live)

LEMMA ObserveGone ==
    ASSUME TypeInv, NEW p \in Proc, Observe(p), item.status \in Gone, item' # item
    PROVE  MovedOn(p)
<1>1. Sound(p, proc[p], item.status, Len(conflicts)) /\ proc[p] \in ProcState
  BY ReadProc
<1>2. Update(p) \/ Promote(p)
  BY DEF Observe, Find, Insert, ReadCreated, AddVersion, ObserveConflict, AddEvidence, Count,
         memory, Gone
<1>3. CASE Update(p)
  <2>1. proc'[p].step = "evidence" /\ proc[p].step = "update"
    BY <1>3 DEF Update, Step, TypeInv, ProcState
  <2> QED
    BY <1>1, <2>1 DEF Sound, MovedOn
<1>4. CASE Promote(p)
  BY <1>1, <1>4, DoneChanges DEF Promote, Sound, MovedOn, Live
<1> QED
  BY <1>2, <1>3, <1>4

LEMMA GoneStep ==
    ASSUME TypeInv, [Next]_vars, item.status \in Gone, item' # item
    PROVE  \E p \in Proc : MovedOn(p)
<1>1. ASSUME NEW p \in Call, UserCall(p) PROVE MovedOn(p)
  <2>1. p \in Proc /\ Sound(p, proc[p], item.status, Len(conflicts))
    BY ReadProc DEF Proc
  <2>2. Observe(p) \/ Forget(p) \/ Edit(p) \/ Accept(p)
    BY <1>1 DEF UserCall, Remember, BeginEdit, BeginForget, BeginRestore, BeginAccept, Begin,
                ReadVersion, Throw, memory
  <2>3. CASE Forget(p) \/ Edit(p) \/ Accept(p)
    <3>1. proc[p].step = "write" /\ Done(p)
      BY <2>3 DEF Forget, Edit, Accept
    <3> QED
      BY <2>1, <3>1, DoneChanges DEF Sound, MovedOn
  <2> QED
    BY <2>1, <2>2, <2>3, ObserveGone
<1>2. CASE Learning
  <2>1. Observe(Worker) /\ Worker \in Proc
    BY <1>2, LearningMoves DEF memory, Proc
  <2> QED
    BY <2>1, ObserveGone
<1> QED
  BY <1>1, <1>2 DEF Next, vars, Confirm, Reject, PositiveFeedback, NegativeFeedback, Settled,
                    ChangeMode, RejectConflict, Restart, memory, Gone, Proc

\* Nothing but an explicit remember, or a step that had read the memory before
\* it was gone, touches a forgotten or rejected memory.
THEOREM MemoryGoneStaysGone == Spec => GoneStaysGone
<1>1. TypeInv /\ [Next]_vars =>
        [(item.status \in Gone /\ item' # item)
           => \E p \in Proc : /\ proc'[p] # proc[p]
                              /\ proc[p].op = "remember" \/ proc[p].found \in Live]_vars
  BY GoneStep DEF MovedOn
<1> QED
  BY <1>1, TypeAlways, PTL DEF Spec, GoneStaysGone

-----------------------------------------------------------------------------
(* Promotion                                                               *)

\* The sources that count.
Counted == {SourceOf(e) : e \in {d \in evidence : d.conflict = 0}}

PromoteInv == proc[Worker].step = "promote" => Cardinality(Counted) >= 2

\* Evidence of the memory stays so.
LEMMA CountedGrows ==
    ASSUME TypeInv, [Next]_vars
    PROVE  Counted \subseteq Counted'
<1>1. CASE evidence \subseteq evidence'
  BY <1>1 DEF Counted
<1>2. ASSUME NEW p \in Proc, Observe(p) PROVE evidence \subseteq evidence'
  BY <1>2 DEF Observe, Find, Insert, ReadCreated, AddVersion, Update, ObserveConflict, AddEvidence,
              Count, Promote, memory
<1>3. ASSUME NEW p \in Call, UserCall(p) PROVE evidence \subseteq evidence' \/ Accept(p)
  BY <1>2, <1>3 DEF UserCall, Remember, BeginEdit, BeginForget, BeginRestore, BeginAccept, Begin,
                    ReadVersion, Forget, Edit, Throw, memory, Proc
<1>4. ASSUME NEW p \in Call, Accept(p) PROVE Counted \subseteq Counted'
  <2>1. PICK k : evidence' = {[e EXCEPT !.conflict = IF @ = k THEN 0 ELSE @] : e \in evidence}
    BY <1>4 DEF Accept
  <2>2. ASSUME NEW e \in evidence, e.conflict = 0
        PROVE  \E d \in evidence' : d.conflict = 0 /\ SourceOf(d) = SourceOf(e)
    <3> DEFINE d == [e EXCEPT !.conflict = IF @ = k THEN 0 ELSE @]
    <3>1. d \in evidence'
      BY <2>1
    <3>2. e \in EvidenceRow
      BY DEF TypeInv, MemoryOK
    <3>3. d.conflict = 0 /\ d.from = e.from /\ d.content = e.content
      BY <2>2, <3>2 DEF EvidenceRow
    <3>4. SourceOf(d) = SourceOf(e)
      BY <3>3 DEF SourceOf
    <3> QED
      BY <3>1, <3>3, <3>4
  <2> QED
    BY <2>2 DEF Counted
<1>5. CASE Learning
  <2>1. evidence \subseteq evidence'
    BY <1>2, <1>5, LearningMoves DEF memory, Proc
  <2> QED
    BY <1>1, <2>1
<1> QED
  BY <1>1, <1>3, <1>4, <1>5 DEF Next, vars, Confirm, Reject, PositiveFeedback, NegativeFeedback,
       Settled, ChangeMode, RejectConflict, Restart, memory

Sources == Session \cup ((Job \cup Call) \X Content)

LEMMA SourcesFinite == IsFiniteSet(Sources)
BY FiniteAssumption, FS_Union, FS_Product DEF Sources

LEMMA SourceType ==
    ASSUME NEW e \in EvidenceRow
    PROVE  SourceOf(e) \in Sources
BY SessionAssumption DEF SourceOf, Sources, EvidenceRow

LEMMA CountedFinite ==
    ASSUME TypeInv
    PROVE  Counted \subseteq Sources /\ IsFiniteSet(Counted) /\ Cardinality(Counted) \in Nat
<1>1. Counted \subseteq Sources
  BY SourceType DEF Counted, TypeInv, MemoryOK
<1> QED
  BY <1>1, SourcesFinite, FS_Subset, FS_CardinalityType

\* Only the evidence of two sources leads the worker to promote a candidate.
LEMMA ReachesPromote ==
    ASSUME TypeInv, Next, proc'[Worker].step = "promote", proc[Worker].step # "promote"
    PROVE  Count(Worker) /\ item.status = "candidate" /\ EvidenceCount >= 2
<1>0. Worker \in Proc /\ proc[Worker] \in ProcState /\ Worker \notin Call
  BY NamesAssumption DEF Proc, TypeInv
<1>1. ASSUME NEW p \in Call, UserCall(p) PROVE FALSE
  BY <1>0, <1>1, OthersWait DEF Proc
<1>2. CASE Learning
  <2>1. CASE ~Observe(Worker)
    <3>1. UNCHANGED <<proc, working>> \/ \E x : WorkerGoes(x)
      BY <1>2, <2>1, LearningMoves
    <3> QED
      BY <1>0, <3>1 DEF WorkerGoes, TypeInv
  <2>5. CASE Done(Worker)
    <3>1. proc'[Worker] = Onward(Worker, "finish")
      BY <1>0, <2>5 DEF Done, TypeInv
    <3> QED
      BY <1>0, <3>1, OnwardType
  <2>6. CASE Observe(Worker) /\ ~Count(Worker)
    <3>1. CASE Insert(Worker) \/ ReadCreated(Worker) \/ AddVersion(Worker) \/ Update(Worker)
               \/ AddEvidence(Worker) \/ ObserveConflict(Worker)
      BY <1>0, <2>5, <3>1, OnwardType DEF Insert, ReadCreated, AddVersion, Update, AddEvidence, Step,
                              ObserveConflict, TypeInv, ProcState
    <3>2. CASE Find(Worker) /\ ~Done(Worker)
      <4>1. PICK step \in {"insert", "evidence", "update", "conflict", "ignore"} :
              proc' = [proc EXCEPT ![Worker].found = item.status, ![Worker].step = step]
        BY <3>2 DEF Find, Decision
      <4>2. proc'[Worker].step = step
        BY <1>0, <4>1 DEF TypeInv, ProcState
      <4> QED
        BY <4>2
    <3> QED
      BY <2>5, <2>6, <3>1, <3>2 DEF Observe, Promote
  <2> QED
    BY <2>1, <2>5, <2>6 DEF Count
<1>3. ASSUME NEW late \in BOOLEAN, Restart(late) PROVE FALSE
  BY <1>0, <1>3 DEF Restart, Quiet
<1> QED
  BY <1>1, <1>2, <1>3 DEF Next, Confirm, Reject, PositiveFeedback, NegativeFeedback, Settled,
                          ChangeMode, RejectConflict

LEMMA PromoteStep ==
    ASSUME TypeInv, TypeInv', PromoteInv, [Next]_vars
    PROVE  PromoteInv'
<1> SUFFICES ASSUME proc'[Worker].step = "promote"
             PROVE  Cardinality(Counted') >= 2
  BY DEF PromoteInv
<1>1. Cardinality(Counted) >= 2
  <2>1. CASE proc[Worker].step = "promote"
    BY <2>1 DEF PromoteInv
  <2>2. CASE proc[Worker].step # "promote"
    BY <2>2, ReachesPromote DEF EvidenceCount, Counted, vars
  <2> QED
    BY <2>1, <2>2
<1>2. Counted' \subseteq Sources
  <2>1. ASSUME NEW e \in evidence', e.conflict = 0 PROVE SourceOf(e) \in Sources
    BY <2>1, SourceType DEF TypeInv, MemoryOK
  <2> QED
    BY <2>1 DEF Counted, SourceOf
<1>3. IsFiniteSet(Counted') /\ Cardinality(Counted') \in Nat
  BY <1>2, SourcesFinite, FS_Subset, FS_CardinalityType
<1>4. Cardinality(Counted) <= Cardinality(Counted')
  BY <1>3, CountedGrows, FS_Subset
<1> QED
  BY <1>1, <1>3, <1>4, CountedFinite

\* The worker alone never makes a memory of a single source permanent.
THEOREM MemoryAutomaticNeedsTwoSources == Spec => AutomaticNeedsTwoSources
<1>1. Init => PromoteInv
  BY DEF Init, PromoteInv, Proc, Quiet
<1>2. PromoteInv =>
        [(/\ item.status = "candidate" /\ item'.status = "active"
          /\ proc[Worker].step = "promote" /\ proc'[Worker] # proc[Worker])
           => Cardinality({SourceOf(e) : e \in {d \in evidence : d.conflict = 0}}) >= 2]_vars
  BY DEF PromoteInv, Counted
<1> QED
  BY <1>1, <1>2, TypeAlways, PromoteStep, PTL DEF Spec, AutomaticNeedsTwoSources

-----------------------------------------------------------------------------
(* Versions                                                                *)

\* The row of the present version says what the memory holds.
Matches == versions[item.version].content \in {None, item.content}

\* Promoting is what could bring back a memory that has been wiped.
Promoting == proc[Worker].step = "promote"

HistInv ==
    /\ item.status = "absent" =>
          item.version = 1 /\ \A v \in 1..MaxVersion : versions[v] = NoVersion
    /\ item.status # "absent" => item.content # None
    /\ \A v \in 1..MaxVersion : versions[v].open => v = item.version
    /\ \A v \in 1..MaxVersion : v > item.version => versions[v] = NoVersion
    /\ \A v \in 1..MaxVersion : v < item.version => versions[v].content # None
    /\ item.status # "forgotten" \/ item.content # Wiped \/ Promoting => Matches

\* What a process that created the memory still has to record.
Carries(p, x) ==
    /\ x.step = "version" =>
          /\ x.version <= item.version
          /\ (/\ x.version = item.version /\ versions[item.version].content = None
              /\ item.status # "forgotten" \/ item.content # Wiped) => x.read = item.content
    /\ p \in Call /\ x.step \in {"created", "version"} =>
          item.status \in {"active", "forgotten"} /\ ~Promoting

VersionInv == HistInv /\ \A p \in Proc : Carries(p, proc[p])

Creating == {"created", "version"}

\* The memory is as it was.
LEMMA MemoryStays ==
    ASSUME TypeInv, TypeInv', VersionInv, UNCHANGED <<item, versions>>,
           Promoting' => Promoting \/ item.status = "candidate",
           \A q \in Proc : \/ proc'[q].step \notin Creating
                           \/ proc'[q] = proc[q]
                           \/ /\ proc[q].step = "created" /\ proc'[q].step = "version"
                              /\ proc'[q].version = item.version /\ proc'[q].read = item.content
    PROVE  VersionInv'
<1>1. HistInv'
  BY DEF VersionInv, HistInv, Matches
<1>2. ASSUME NEW q \in Proc
      PROVE  Carries(q, proc[q])'
  <2>1. Carries(q, proc[q])
    BY DEF VersionInv
  <2>2. item.version <= item.version
    BY DEF TypeInv, MemoryOK, ItemRow
  <2> QED
    BY <2>1, <2>2 DEF Carries, Creating
<1> QED
  BY <1>1, <1>2 DEF VersionInv

\* What recording a version leaves.
LEMMA WithRowRows ==
    ASSUME NEW vs \in [1..MaxVersion -> VersionRow], NEW v \in 1..MaxVersion, NEW c \in Text
    PROVE  /\ \A w \in (1..MaxVersion) \ {v} : WithRow(vs, v, c)[w] = vs[w]
           /\ vs[v].content # None => WithRow(vs, v, c) = vs
           /\ vs[v].content = None => WithRow(vs, v, c)[v] = [content |-> c, open |-> TRUE]
BY DEF WithRow

LEMMA WriteHist ==
    ASSUME TypeInv, TypeInv', VersionInv, NEW p \in Proc, proc[p].step \notin Creating,
           item.status # "absent",
           NEW c \in Content, NEW status \in {"active", item.status}, Write(c, status),
           proc'[p].step \notin Creating \cup {"promote"},
           \A q \in Proc \ {p} : proc'[q] = proc[q]
    PROVE  VersionInv'
<1>0. /\ item.version \in 1..MaxVersion /\ item.content \in Text /\ item \in ItemRow
      /\ versions \in [1..MaxVersion -> VersionRow] /\ c # None /\ c # Wiped
      /\ item.content # None /\ status # "absent"
  BY NamesAssumption DEF TypeInv, MemoryOK, ItemRow, VersionInv, HistInv
<1>1. Promoting' => Promoting
  BY DEF Promoting, Proc
<1> DEFINE vs == WithRow(versions, item.version, item.content)
<1>2. vs \in [1..MaxVersion -> VersionRow]
  BY <1>0, WithRowType
<1>3. /\ \A w \in (1..MaxVersion) \ {item.version} : vs[w] = versions[w]
      /\ versions[item.version].content # None => vs = versions
      /\ versions[item.version].content = None =>
            vs[item.version] = [content |-> item.content, open |-> TRUE]
  BY <1>0, WithRowRows
<1> HIDE DEF vs
<1>4. vs[item.version].content # None
  <2>1. CASE versions[item.version].content # None
    <3>1. vs = versions
      BY <1>3, <2>1
    <3> QED
      BY <2>1, <3>1
  <2>2. CASE versions[item.version].content = None
    <3>1. vs[item.version] = [content |-> item.content, open |-> TRUE]
      BY <1>3, <2>2
    <3> QED
      BY <1>0, <3>1
  <2> QED
    BY <2>1, <2>2
<1>5. CASE item.content = c
  <2>1. /\ item'.status = status /\ item'.content = c /\ item'.version = item.version
        /\ versions' = vs
    BY <1>0, <1>5 DEF Write, ItemRow, vs
  <2>2. Matches
    BY <1>0, <1>5 DEF VersionInv, HistInv
  <2>3. Matches'
    <3>1. CASE versions[item.version].content # None
      <4>1. versions' = versions /\ item'.content = item.content /\ item'.version = item.version
        BY <1>3, <1>5, <2>1, <3>1
      <4> QED
        BY <2>2, <4>1 DEF Matches
    <3>2. CASE versions[item.version].content = None
      <4>1. vs[item.version].content = item.content
        BY <1>3, <3>2
      <4> QED
        BY <1>5, <2>1, <4>1 DEF Matches
    <3> QED
      BY <3>1, <3>2
  <2>4. /\ \A v \in 1..MaxVersion : v > item.version => vs[v] = NoVersion
        /\ \A v \in 1..MaxVersion : v < item.version => vs[v].content # None
        /\ \A v \in 1..MaxVersion : vs[v].open => v = item.version
    BY <1>0, <1>3 DEF VersionInv, HistInv
  <2>5. HistInv'
    BY <1>0, <2>1, <2>3, <2>4 DEF HistInv
  <2>6. ASSUME NEW q \in Proc PROVE Carries(q, proc[q])'
    <3>1. CASE proc'[q].step \notin Creating
      BY <3>1 DEF Carries, Creating
    <3>2. CASE proc'[q] = proc[q]
      <4>1. Carries(q, proc[q])
        BY DEF VersionInv
      <4> QED
        BY <1>0, <1>1, <1>4, <2>1, <3>2, <4>1 DEF Carries
    <3> QED
      BY <3>1, <3>2
  <2> QED
    BY <2>5, <2>6 DEF VersionInv
<1>6. CASE item.content # c
  <2>1. /\ item'.status = status /\ item'.content = c /\ item'.version = item.version + 1
        /\ versions' = NewVersion(c) /\ item.version < MaxVersion
    BY <1>6 DEF Write
  <2>2. PICK m \in 1..MaxVersion : m = item.version
    BY <1>0
  <2>3. PICK n \in 1..MaxVersion : n = m + 1
    BY <2>1, <2>2, BoundAssumption
  <2>4. versions' = [vs EXCEPT ![m].open = FALSE, ![n] = [content |-> c, open |-> TRUE]]
    BY <2>1, <2>2, <2>3 DEF NewVersion, vs
  <2>5. m # n
    BY <2>3
  <2>6. /\ versions'[n] = [content |-> c, open |-> TRUE]
        /\ versions'[m].open = FALSE /\ versions'[m].content = vs[m].content
        /\ \A v \in (1..MaxVersion) \ {m, n} : versions'[v] = vs[v]
    BY <1>2, <2>4, <2>5 DEF VersionRow
  <2>7. \A v \in (1..MaxVersion) \ {m} : vs[v] = versions[v]
    BY <1>3, <2>2
  <2>8. \A v \in (1..MaxVersion) \ {m, n} : /\ versions'[v] = versions[v]
                                           /\ ~versions'[v].open
    BY <2>2, <2>6, <2>7 DEF VersionInv, HistInv
  <2>9. \A v \in 1..MaxVersion : versions'[v].open => v = n
    BY <2>6, <2>8
  <2>10. \A v \in 1..MaxVersion : v > n => versions'[v] = NoVersion
    BY <2>2, <2>3, <2>8 DEF VersionInv, HistInv
  <2>11. \A v \in 1..MaxVersion : v < n => versions'[v].content # None
    <3>1. versions'[m].content # None
      BY <1>4, <2>2, <2>6
    <3>2. ASSUME NEW v \in 1..MaxVersion, v < n, v # m PROVE versions'[v].content # None
      <4>1. v < m /\ v \notin {m, n}
        BY <2>3, <3>2
      <4> QED
        BY <2>2, <2>8, <4>1 DEF VersionInv, HistInv
    <3> QED
      BY <3>1, <3>2
  <2>12. item'.version = n
    BY <2>1, <2>2, <2>3
  <2>13. Matches'
    BY <2>1, <2>6, <2>12 DEF Matches
  <2>14. HistInv'
    BY <1>0, <2>1, <2>9, <2>10, <2>11, <2>12, <2>13 DEF HistInv
  <2>15. ASSUME NEW q \in Proc PROVE Carries(q, proc[q])'
    <3>1. CASE proc'[q].step \notin Creating
      BY <3>1 DEF Carries, Creating
    <3>2. CASE proc'[q] = proc[q]
      <4>1. Carries(q, proc[q]) /\ proc[q].version \in 1..MaxVersion
        BY DEF VersionInv, TypeInv, ProcState
      <4>2. proc[q].step = "version" => proc[q].version <= m
        BY <2>2, <4>1 DEF Carries
      <4>3. proc'[q].step = "version" => proc'[q].version <= n /\ proc'[q].version # n
        BY <2>3, <3>2, <4>1, <4>2
      <4>4. q \in Call /\ proc'[q].step \in {"created", "version"} =>
              item'.status \in {"active", "forgotten"} /\ ~Promoting'
        BY <1>1, <2>1, <3>2, <4>1 DEF Carries
      <4> QED
        BY <2>12, <4>3, <4>4 DEF Carries
    <3> QED
      BY <3>1, <3>2
  <2> QED
    BY <2>14, <2>15 DEF VersionInv
<1> QED
  BY <1>5, <1>6

LEMMA InsertHist ==
    ASSUME TypeInv, TypeInv', VersionInv, NEW p \in Proc, Insert(p)
    PROVE  VersionInv'
<1>1. /\ item.status = "absent" /\ UNCHANGED versions /\ proc[p].step = "insert"
      /\ item' = [status |-> IF Explicit(p) THEN "active" ELSE "candidate",
                  content |-> proc[p].content, version |-> 1]
      /\ proc'[p].step = "created" /\ \A q \in Proc \ {p} : proc'[q] = proc[q]
  BY DEF Insert, Step, TypeInv, ProcState
<1>2. /\ proc[p].content \in Content /\ proc[p].op \in {"observe", "remember"}
      /\ proc[p].op = "observe" => p = Worker
  BY <1>1, ReadProc DEF Sound, Observing
<1>3. \A q \in Proc : proc[q].step \notin Creating \cup {"promote"}
  BY <1>1, ReadProc DEF Sound, Observing, Creating
<1>4. \A v \in 1..MaxVersion : versions[v] = NoVersion
  BY <1>1 DEF VersionInv, HistInv
<1>5. HistInv'
  <2>1. item'.version = 1 /\ 1 \in 1..MaxVersion /\ item'.status \in {"active", "candidate"}
        /\ item'.content \in Content
    BY <1>1, <1>2, BoundAssumption
  <2>2. \A v \in 1..MaxVersion : versions'[v] = NoVersion
    BY <1>1, <1>4
  <2>3. NoVersion.content = None /\ NoVersion.open = FALSE
    BY DEF NoVersion
  <2>4. Matches'
    BY <2>1, <2>2, <2>3 DEF Matches
  <2>5. \A v \in 1..MaxVersion : ~(v < 1)
    OBVIOUS
  <2> QED
    BY <2>1, <2>2, <2>3, <2>4, <2>5, NamesAssumption DEF HistInv
<1>6. ~Promoting'
  BY <1>1, <1>3 DEF Promoting, Proc
<1>7. Carries(p, proc[p])'
  BY <1>1, <1>2, <1>6, NamesAssumption DEF Carries, Explicit
<1>8. \A q \in Proc \ {p} : Carries(q, proc[q])'
  BY <1>1, <1>3 DEF Carries, Creating
<1> QED
  BY <1>5, <1>7, <1>8 DEF VersionInv

LEMMA AddVersionHist ==
    ASSUME TypeInv, TypeInv', VersionInv, NEW p \in Proc, AddVersion(p)
    PROVE  VersionInv'
<1>0. /\ item.version \in 1..MaxVersion /\ item \in ItemRow /\ proc[p] \in ProcState
      /\ versions \in [1..MaxVersion -> VersionRow]
  BY DEF TypeInv, MemoryOK, ItemRow
<1>1. /\ UNCHANGED item /\ proc[p].step = "version" /\ proc'[p].step = "evidence"
      /\ \A q \in Proc \ {p} : proc'[q] = proc[q]
      /\ versions' = WithRow(versions, proc[p].version, proc[p].read)
  BY DEF AddVersion, TypeInv, ProcState
<1>2. PICK v \in 1..MaxVersion, c \in Text : v = proc[p].version /\ c = proc[p].read
  BY <1>0 DEF ProcState
<1>3. Carries(p, proc[p]) /\ v <= item.version
  BY <1>1, <1>2 DEF VersionInv, Carries
<1>4. CASE versions[v].content # None
  <2>1. UNCHANGED versions
    BY <1>0, <1>1, <1>2, <1>4, WithRowRows
  <2>2. Promoting' => Promoting
    BY <1>1 DEF Promoting, Proc
  <2>3. proc'[p].step \notin Creating
    BY <1>1 DEF Creating
  <2> QED
    BY <1>1, <2>1, <2>2, <2>3, MemoryStays
<1>5. CASE versions[v].content = None
  <2>1. v = item.version
    BY <1>0, <1>3, <1>5 DEF VersionInv, HistInv
  <2>2. /\ versions'[v] = [content |-> c, open |-> TRUE]
        /\ \A w \in (1..MaxVersion) \ {v} : versions'[w] = versions[w]
    BY <1>0, <1>1, <1>2, <1>5, WithRowRows
  <2>3. item.status # "forgotten" \/ item.content # Wiped => c = item.content
    BY <1>1, <1>2, <1>3, <1>5, <2>1 DEF Carries
  <2>4. ~Promoting'
    <3>1. CASE p = Worker
      BY <1>1, <3>1 DEF Promoting
    <3>2. CASE p # Worker
      BY <1>1, <1>3, <3>2 DEF Promoting, Proc, Carries
    <3> QED
      BY <3>1, <3>2
  <2>5. item.status # "absent"
    BY <1>1, ReadProc DEF Sound, Observing
  <2>6. HistInv'
    BY <1>0, <1>1, <2>1, <2>2, <2>3, <2>4, <2>5 DEF VersionInv, HistInv, Matches
  <2>7. ASSUME NEW q \in Proc PROVE Carries(q, proc[q])'
    <3>1. CASE q = p
      BY <1>1, <3>1 DEF Carries
    <3>2. CASE q # p
      <4>1. proc'[q] = proc[q] /\ Carries(q, proc[q])
        BY <1>1, <3>2 DEF VersionInv
      <4> QED
        BY <1>1, <1>5, <2>1, <2>4, <4>1 DEF Carries
    <3> QED
      BY <3>1, <3>2
  <2> QED
    BY <2>6, <2>7 DEF VersionInv
<1> QED
  BY <1>4, <1>5

LEMMA ForgetHist ==
    ASSUME TypeInv, TypeInv', VersionInv, NEW p \in Call, Forget(p)
    PROVE  VersionInv'
<1>0. p \in Proc /\ item.version \in 1..MaxVersion /\ item \in ItemRow
  BY DEF Proc, TypeInv, MemoryOK, ItemRow
<1>1. /\ item'.status = "forgotten" /\ item'.content = Wiped /\ item'.version = item.version
      /\ versions' = [v \in 1..MaxVersion |->
                        IF versions[v].content = None THEN NoVersion
                        ELSE [content |-> Wiped, open |-> FALSE]]
      /\ proc[p].step = "write" /\ Done(p)
  BY <1>0 DEF Forget, ItemRow
<1>2. proc'[p] = Spent /\ \A q \in Proc \ {p} : proc'[q] = proc[q]
  BY <1>0, <1>1, NamesAssumption DEF Done, TypeInv
<1>3. Promoting' => Promoting
  BY <1>2, NamesAssumption DEF Promoting, Proc
<1>4. \A v \in 1..MaxVersion :
        /\ ~versions'[v].open
        /\ versions'[v].content \in {None, Wiped}
        /\ versions[v] = NoVersion => versions'[v] = NoVersion
        /\ versions[v].content # None => versions'[v].content # None
  BY <1>1, NamesAssumption DEF NoVersion
<1>5. HistInv'
  <2>1. item.status # "absent"
    BY <1>0, <1>1, ReadProc DEF Sound
  <2>2. Matches'
    BY <1>0, <1>1, <1>4 DEF Matches
  <2>3. Wiped # None
    BY NamesAssumption
  <2> QED
    BY <1>1, <1>4, <2>2, <2>3 DEF VersionInv, HistInv
<1>6. ASSUME NEW q \in Proc PROVE Carries(q, proc[q])'
  <2>1. CASE q = p
    BY <1>2, <2>1 DEF Carries, Spent, Quiet
  <2>2. CASE q # p
    <3>1. Carries(q, proc[q]) /\ proc'[q] = proc[q]
      BY <1>2, <2>2 DEF VersionInv
    <3> QED
      BY <1>1, <1>3, <3>1 DEF Carries
  <2> QED
    BY <2>1, <2>2
<1> QED
  BY <1>5, <1>6 DEF VersionInv

LEMMA PromoteHist ==
    ASSUME TypeInv, TypeInv', VersionInv, NEW p \in Proc, Promote(p)
    PROVE  VersionInv'
<1>0. item.version \in 1..MaxVersion /\ item \in ItemRow /\ proc[p] \in ProcState
  BY DEF TypeInv, MemoryOK, ItemRow
<1>1. /\ item'.status = "active" /\ item'.content = item.content /\ item'.version = item.version
      /\ UNCHANGED versions /\ proc[p].step = "promote" /\ Done(p)
  BY <1>0 DEF Promote, ItemRow
<1>2. p = Worker /\ item.status # "absent"
  BY <1>1, ReadProc DEF Sound, Observing
<1>3. Promoting /\ Matches
  BY <1>1, <1>2 DEF Promoting, VersionInv, HistInv
<1>4. proc'[p].step = "finish" /\ \A q \in Proc \ {p} : proc'[q] = proc[q]
  <2>1. proc' = [proc EXCEPT ![p] = Onward(p, "finish")]
    BY <1>1, <1>2 DEF Done
  <2> QED
    BY <2>1, OnwardType DEF TypeInv
<1>5. HistInv'
  BY <1>1, <1>2, <1>3 DEF VersionInv, HistInv, Matches
<1>6. ASSUME NEW q \in Proc PROVE Carries(q, proc[q])'
  <2>1. CASE q = p
    BY <1>4, <2>1 DEF Carries
  <2>2. CASE q # p
    <3>1. q \in Call /\ Carries(q, proc[q]) /\ proc'[q] = proc[q]
      BY <1>2, <1>4, <2>2 DEF VersionInv, Proc
    <3> QED
      BY <1>3, <3>1 DEF Carries
  <2> QED
    BY <2>1, <2>2
<1> QED
  BY <1>5, <1>6 DEF VersionInv

LEMMA SettledHist ==
    ASSUME TypeInv, TypeInv', VersionInv, NEW status \in {"active", "rejected"}, Settled(status)
    PROVE  VersionInv'
<1>0. item.version \in 1..MaxVersion /\ item \in ItemRow
  BY DEF TypeInv, MemoryOK, ItemRow
<1>1. /\ item.status = "candidate" /\ UNCHANGED <<versions, proc>>
      /\ item'.status = status /\ item'.content = item.content /\ item'.version = item.version
  BY <1>0 DEF Settled, ItemRow
<1>2. HistInv'
  BY <1>1 DEF VersionInv, HistInv, Matches
<1>3. ASSUME NEW q \in Proc PROVE Carries(q, proc[q])'
  <2>1. Carries(q, proc[q])
    BY DEF VersionInv
  <2> QED
    BY <1>1, <2>1 DEF Carries
<1> QED
  BY <1>2, <1>3 DEF VersionInv

LEMMA ObserveHist ==
    ASSUME TypeInv, TypeInv', VersionInv, NEW p \in Proc, Observe(p)
    PROVE  VersionInv'
<1>0. /\ proc[p] \in ProcState /\ Sound(p, proc[p], item.status, Len(conflicts))
      /\ \A q \in Proc \ {p} : proc'[q] = proc[q]
  BY ReadProc, OthersWait
<1>1. Done(p) => proc'[p].step \in {"finish", "ended"}
  <2>1. CASE p = Worker /\ Done(p)
    <3>1. proc' = [proc EXCEPT ![p] = Onward(p, "finish")]
      BY <2>1 DEF Done
    <3> QED
      BY <3>1, OnwardType DEF TypeInv
  <2>2. CASE p # Worker /\ Done(p)
    BY <2>2 DEF Done, TypeInv, Spent, Quiet
  <2> QED
    BY <2>1, <2>2
<1>2. CASE UNCHANGED <<item, versions>> /\ proc'[p].step \notin Creating \cup {"promote"}
  <2>1. Promoting' => Promoting
    BY <1>0, <1>2 DEF Promoting, Proc
  <2> QED
    BY <1>0, <1>2, <2>1, MemoryStays
<1>3. CASE Find(p)
  <2>1. CASE Done(p)
    BY <1>1, <1>2, <1>3, <2>1 DEF Find, memory, Creating
  <2>2. CASE ~Done(p)
    <3>1. PICK step \in {"insert", "evidence", "update", "conflict", "ignore"} :
            proc' = [proc EXCEPT ![p].found = item.status, ![p].step = step]
      BY <1>3, <2>2 DEF Find, Decision
    <3>2. proc'[p].step = step
      BY <3>1 DEF TypeInv, ProcState
    <3> QED
      BY <1>2, <1>3, <3>2 DEF Find, memory, Creating
  <2> QED
    BY <2>1, <2>2
<1>4. CASE ReadCreated(p)
  <2>1. /\ UNCHANGED <<item, versions>> /\ proc[p].step = "created" /\ proc'[p].step = "version"
        /\ proc'[p].version = item.version /\ proc'[p].read = item.content
    BY <1>4 DEF ReadCreated, memory, TypeInv, ProcState
  <2>2. Promoting' => Promoting
    BY <1>0, <2>1 DEF Promoting, Proc
  <2> QED
    BY <1>0, <2>1, <2>2, MemoryStays
<1>5. CASE Update(p)
  <2>1. proc[p].step = "update" /\ proc[p].content \in Content /\ item.status # "absent"
    BY <1>0, <1>5 DEF Update, Sound, Observing
  <2>2. PICK status \in {"active", item.status} : Write(proc[p].content, status)
    BY <1>5 DEF Update
  <2>3. proc'[p].step = "evidence"
    BY <1>0, <1>5 DEF Update, Step, TypeInv, ProcState
  <2> QED
    BY <1>0, <2>1, <2>2, <2>3, WriteHist DEF Creating
<1>6. CASE ObserveConflict(p)
  <2>1. PICK k : proc' = [proc EXCEPT ![p].step = "evidence", ![p].conflict = k]
    BY <1>6 DEF ObserveConflict
  <2>2. proc'[p].step = "evidence"
    BY <1>0, <2>1 DEF TypeInv, ProcState
  <2> QED
    BY <1>2, <1>6, <2>2 DEF ObserveConflict, Creating
<1>7. CASE AddEvidence(p)
  <2>1. proc'[p].step \in {"count", "finish", "ended"}
    BY <1>0, <1>1, <1>7, OnwardType DEF AddEvidence, TypeInv
  <2> QED
    BY <1>2, <1>7, <2>1 DEF AddEvidence, Creating
<1>8. CASE Count(p)
  <2>1. CASE Done(p)
    BY <1>1, <1>2, <1>8, <2>1 DEF Count, memory, Creating
  <2>2. CASE ~Done(p)
    <3>1. /\ item.status = "candidate" /\ UNCHANGED <<item, versions>>
          /\ proc' = [proc EXCEPT ![p].step = "promote", ![p].found = "candidate"]
      BY <1>8, <2>2 DEF Count, memory
    <3>2. proc'[p].step \notin Creating
      BY <1>0, <3>1 DEF TypeInv, ProcState, Creating
    <3> QED
      BY <1>0, <3>1, <3>2, MemoryStays
  <2> QED
    BY <2>1, <2>2
<1> QED
  BY <1>3, <1>4, <1>5, <1>6, <1>7, <1>8, InsertHist, AddVersionHist, PromoteHist DEF Observe

LEMMA CallHist ==
    ASSUME TypeInv, TypeInv', VersionInv, NEW p \in Call, UserCall(p)
    PROVE  VersionInv'
<1>0. /\ p \in Proc /\ p # Worker /\ \A q \in Proc \ {p} : proc'[q] = proc[q]
      /\ Sound(p, proc[p], item.status, Len(conflicts)) /\ proc[p] \in ProcState
  BY NamesAssumption, OthersWait, ReadProc DEF Proc
<1>1. Promoting' => Promoting
  BY <1>0 DEF Promoting, Proc
<1>2. CASE UNCHANGED <<item, versions>> /\ proc'[p].step \notin Creating
  BY <1>0, <1>1, <1>2, MemoryStays
<1>3. Done(p) => proc'[p].step = "ended"
  BY <1>0 DEF Done, TypeInv, Spent, Quiet
<1>4. ASSUME NEW c \in Content, Remember(p, c) PROVE VersionInv'
  <2>1. proc'[p].step = "find"
    BY <1>0, <1>4 DEF Remember, TypeInv, Quiet
  <2> QED
    BY <1>2, <1>4, <2>1 DEF Remember, memory, Creating
<1>5. ASSUME NEW op, NEW c, NEW k, Begin(p, op, c, k) PROVE VersionInv'
  <2>1. proc'[p].step = "write"
    BY <1>0, <1>5 DEF Begin, TypeInv, Quiet
  <2> QED
    BY <1>2, <1>5, <2>1 DEF Begin, memory, Creating
<1>9. CASE (\E v \in 1..MaxVersion : BeginRestore(p, v)) \/ ReadVersion(p)
  <2>1. PICK step \in {"choose", "write"} : proc'[p].step = step
    BY <1>0, <1>9 DEF BeginRestore, ReadVersion, TypeInv, Quiet
  <2> QED
    BY <1>2, <1>9, <2>1 DEF BeginRestore, ReadVersion, memory, Creating
<1>6. CASE Edit(p)
  <2>1. /\ proc[p].step = "write" /\ proc[p].content \in Content /\ item.status # "absent"
        /\ Write(proc[p].content, "active") /\ proc'[p].step = "ended"
    BY <1>0, <1>3, <1>6 DEF Edit, Sound
  <2> QED
    BY <1>0, <2>1, WriteHist DEF Creating
<1>7. CASE Accept(p)
  <2>1. PICK k \in 1..Len(conflicts) : k = proc[p].conflict
    BY <1>0, <1>7 DEF Accept, Sound
  <2>2. conflicts[k] \in ConflictRow
    BY DEF TypeInv, MemoryOK
  <2>3. PICK c \in Content : c = conflicts[k].content
    BY <2>2 DEF ConflictRow
  <2>4. /\ proc[p].step = "write" /\ item.status # "absent" /\ proc'[p].step = "ended"
        /\ UNCHANGED <<item, versions>> \/ Write(c, "active")
    BY <1>0, <1>3, <1>7, <2>1, <2>3 DEF Accept, Sound
  <2>5. CASE UNCHANGED <<item, versions>>
    BY <1>2, <2>4, <2>5 DEF Creating
  <2>6. CASE Write(c, "active")
    BY <1>0, <2>4, <2>6, WriteHist DEF Creating
  <2> QED
    BY <2>4, <2>5, <2>6
<1>8. CASE Throw(p)
  <2>1. proc'[p].step = "ended"
    BY <1>0, <1>8 DEF Throw, TypeInv, Spent, Quiet
  <2> QED
    BY <1>2, <1>8, <2>1 DEF Throw, memory, Creating
<1> QED
  BY <1>0, <1>4, <1>5, <1>6, <1>7, <1>8, <1>9, ForgetHist, ObserveHist
     DEF UserCall, BeginEdit, BeginForget, BeginAccept

LEMMA VersionStep ==
    ASSUME TypeInv, TypeInv', VersionInv, [Next]_vars
    PROVE  VersionInv'
<1>0. Worker \in Proc /\ proc[Worker] \in ProcState
  BY DEF Proc, TypeInv
<1>1. CASE UNCHANGED <<item, versions, proc>>
  BY <1>1, MemoryStays DEF Promoting
<1>2. CASE Learning /\ ~Observe(Worker) /\ ~UNCHANGED proc
  <2>1. /\ UNCHANGED <<item, versions>> /\ \A q \in Proc \ {Worker} : proc'[q] = proc[q]
        /\ proc'[Worker].step \notin Creating \cup {"promote"}
    <3>1. UNCHANGED memory /\ \E x : WorkerGoes(x)
      BY <1>2, LearningMoves
    <3> QED
      BY <1>0, <3>1 DEF WorkerGoes, memory, TypeInv, Creating
  <2>2. ~Promoting'
    BY <2>1 DEF Promoting
  <2> QED
    BY <2>1, <2>2, MemoryStays
<1>3. ASSUME NEW late \in BOOLEAN, Restart(late) PROVE VersionInv'
  <2>1. \A q \in Proc : proc'[q].step \in {"idle", "ended"}
    BY <1>3 DEF Restart, Quiet, Spent
  <2>2. ~Promoting'
    BY <1>0, <2>1 DEF Promoting
  <2> QED
    BY <1>3, <2>1, <2>2, MemoryStays DEF Restart, memory, Creating
<1>4. CASE Confirm \/ Reject \/ PositiveFeedback \/ NegativeFeedback
  BY <1>4, SettledHist DEF Confirm, Reject, PositiveFeedback, NegativeFeedback
<1>5. CASE Learning
  <2>1. Observe(Worker) \/ UNCHANGED <<item, versions>>
    BY <1>5, LearningMoves DEF memory
  <2> QED
    BY <1>0, <1>1, <1>2, <1>5, <2>1, ObserveHist
<1> QED
  BY <1>1, <1>3, <1>4, <1>5, CallHist DEF Next, vars, ChangeMode, RejectConflict, memory

\* The version rows explain a memory in use, whoever wrote them and in
\* whatever order.
THEOREM MemoryVersionsTrackContent == Spec => []VersionsTrackContent
<1>1. Init => VersionInv
  <2> SUFFICES ASSUME Init PROVE VersionInv
    OBVIOUS
  <2>1. item.status = "absent" /\ item.content = None /\ item.version = 1
    BY DEF Init
  <2>2. \A v \in 1..MaxVersion : versions[v] = NoVersion
    BY DEF Init
  <2>3. \A p \in Proc : proc[p].step = "idle"
    BY DEF Init, Quiet
  <2>4. 1 \in 1..MaxVersion /\ \A v \in 1..MaxVersion : ~(v < 1)
    BY BoundAssumption
  <2>5. NoVersion.content = None /\ NoVersion.open = FALSE
    BY DEF NoVersion
  <2>6. Matches
    BY <2>1, <2>2, <2>4, <2>5 DEF Matches
  <2>7. HistInv
    BY <2>1, <2>2, <2>4, <2>5, <2>6 DEF HistInv
  <2> QED
    BY <2>3, <2>7 DEF VersionInv, Carries
<1>2. VersionInv => VersionsTrackContent
  BY DEF VersionInv, HistInv, Matches, VersionsTrackContent, Live
<1> QED
  BY <1>1, <1>2, TypeAlways, VersionStep, PTL DEF Spec
==============================================================================
