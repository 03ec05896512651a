------------------------ MODULE GovernedActionsProofs ------------------------
(* Theorems about GovernedActions for every choice of its constants.       *)
EXTENDS GovernedActions, TLAPS

-----------------------------------------------------------------------------
(* Type correctness.  A call that is about to consume has an approval to   *)
(* consume in its hand.                                                    *)

SeenWhenConsuming ==
    \A c \in Call : call[c].pc = "consuming" => call[c].seen \in Approval

TypeInv == TypeOK /\ SeenWhenConsuming

\* What the helpers on tables return is a table again.
LEMMA ExpiredType ==
    ASSUME TypeOK
    PROVE  Expired \in [Approval -> ApprovalRow]
<1>1. SUFFICES ASSUME NEW n \in Approval
               PROVE  [approval[n] EXCEPT !.status = "expired", !.live = FALSE]
                         \in ApprovalRow
  BY DEF Expired, TypeOK
<1>2. approval[n] \in ApprovalRow /\ "expired" \in ApprovalStatus
  BY DEF TypeOK, ApprovalStatus
<1> QED
  BY <1>2 DEF ApprovalRow

LEMMA CompletedType ==
    ASSUME TypeOK, NEW c \in Call, NEW s \in IntentStatus,
           NEW n \in Approval \cup {None}
    PROVE  Completed(c, s, n) \in [Intent -> IntentRow]
BY DEF Completed, TypeOK, IntentRow, CallState

LEMMA ConclusionType ==
    ASSUME TypeOK, NEW c \in Call, call[c].pc \in HasResult
    PROVE  Completed(c, Conclusion(c)[1], Conclusion(c)[2])
              \in [Intent -> IntentRow]
<1>1. /\ call[c].given \in Approval \cup {None}
      /\ call[c].seen \in Approval \cup {None}
      /\ call[c].defers \in Approval \cup {None}
  BY DEF TypeOK, CallState
<1>2. Conclusion(c)[1] \in IntentStatus
  BY DEF Conclusion, IntentStatus, HasResult
<1>3. Conclusion(c)[2] \in Approval \cup {None}
  BY <1>1 DEF Conclusion, HasResult
<1> QED
  BY <1>2, <1>3, CompletedType

\* A step of one call that only moves it keeps the type of the calls.
LEMMA MoveType ==
    ASSUME TypeInv, NEW c \in Call, NEW pc \in PC \ {"consuming"},
           call' = At(c, pc)
    PROVE  call' \in [Call -> CallState] /\ SeenWhenConsuming'
<1>1. call \in [Call -> CallState] /\ call[c] \in CallState
  BY DEF TypeInv, TypeOK
<1>2. [call[c] EXCEPT !.pc = pc] \in CallState
  BY <1>1 DEF CallState
<1>3. call' = [call EXCEPT ![c] = [call[c] EXCEPT !.pc = pc]]
  BY DEF At
<1> QED
  BY <1>1, <1>2, <1>3 DEF CallState, TypeInv, SeenWhenConsuming

\* So does one that changes other fields, if it ends with a legal request.
LEMMA ReplacedType ==
    ASSUME TypeInv, NEW c \in Call, NEW r \in CallState,
           r.pc = "consuming" => r.seen \in Approval,
           call' = [call EXCEPT ![c] = r]
    PROVE  call' \in [Call -> CallState] /\ SeenWhenConsuming'
BY DEF TypeInv, TypeOK, SeenWhenConsuming

LEMMA ConsultedType ==
    ASSUME TypeOK, NEW c \in Call
    PROVE  Consulted(c) \subseteq Approval
BY DEF Consulted, Active, TypeOK, CallState

LEMMA TypeInit == Init => TypeInv
<1> SUFFICES ASSUME Init PROVE TypeInv
    OBVIOUS
<1>1. NoApproval \in ApprovalRow
  BY DEF NoApproval, ApprovalRow, ApprovalStatus
<1>2. Idle \in CallState /\ Idle.pc = "idle"
  BY DEF Idle, CallState, PC
<1>3. [status |-> "absent", approval |-> None] \in IntentRow
  BY DEF IntentRow, IntentStatus
<1>4. \A c \in Call : call[c].pc = "idle"
  BY <1>2 DEF Init
<1> QED
  BY <1>1, <1>2, <1>3, <1>4 DEF Init, TypeInv, TypeOK, SeenWhenConsuming, Receipt

\* Each action keeps the types; the calls that do not move keep what they saw.
LEMMA TypeStep == TypeInv /\ [Next]_vars => TypeInv'
<1> SUFFICES ASSUME TypeInv, [Next]_vars PROVE TypeInv'
    OBVIOUS
<1> USE ConstantsAssumption
<1>1. ASSUME NEW i \in Intent, ReserveIntent(i) PROVE TypeInv'
  BY <1>1 DEF ReserveIntent, TypeInv, TypeOK, SeenWhenConsuming, IntentRow,
              IntentStatus
<1>2. ASSUME NEW c \in Call, NEW n \in Approval \cup {None}, NEW i \in Intent,
             ClaimIntent(c, i, n)
      PROVE  TypeInv'
  <2>1. intent' \in [Intent -> IntentRow]
    BY <1>2 DEF ClaimIntent, TypeInv, TypeOK, IntentRow, IntentStatus
  <2>2. [Idle EXCEPT !.pc = "claimed", !.intent = i, !.action = ActionOf[i],
                     !.given = n] \in CallState
    BY DEF Idle, CallState, PC
  <2>3. call' \in [Call -> CallState] /\ SeenWhenConsuming'
    BY <1>2, <2>2 DEF ClaimIntent, TypeInv, TypeOK, SeenWhenConsuming, Idle
  <2> QED
    BY <1>2, <2>1, <2>3 DEF ClaimIntent, TypeInv, TypeOK
<1>3. ASSUME NEW c \in Call, NEW n \in Approval \cup {None}, NEW a \in Action,
             CallTool(c, a, n)
      PROVE  TypeInv'
  <2>1. [Idle EXCEPT !.pc = "entered", !.action = a, !.given = n] \in CallState
    BY DEF Idle, CallState, PC
  <2>2. call' \in [Call -> CallState] /\ SeenWhenConsuming'
    BY <1>3, <2>1 DEF CallTool, TypeInv, TypeOK, SeenWhenConsuming, Idle
  <2> QED
    BY <1>3, <2>2 DEF CallTool, TypeInv, TypeOK
<1>4. ASSUME NEW c \in Call, CallStep(c) PROVE TypeInv'
  <2>1. CASE EnterGateway(c)
    BY <2>1, MoveType DEF EnterGateway, TypeInv, TypeOK, PC
  <2>2. CASE Evaluate(c)
    <3>1. ASSUME NEW p \in Principal,
                 call' = [call EXCEPT ![c].principal = p,
                             ![c].pc = IF call[c].action \in Confirmed
                                       THEN "checking" ELSE "allowed"]
          PROVE  call' \in [Call -> CallState] /\ SeenWhenConsuming'
      <4> DEFINE r == [call[c] EXCEPT !.principal = p,
                           !.pc = IF call[c].action \in Confirmed
                                  THEN "checking" ELSE "allowed"]
      <4>1. call[c] \in CallState
        BY DEF TypeInv, TypeOK
      <4>2. r \in CallState /\ r.pc # "consuming"
        BY <4>1 DEF CallState, PC
      <4>3. call' = [call EXCEPT ![c] = r]
        BY <3>1
      <4> QED
        BY <4>2, <4>3, ReplacedType
    <3>2. ASSUME call' = At(c, "refused")
          PROVE  call' \in [Call -> CallState] /\ SeenWhenConsuming'
      BY <3>2, MoveType DEF PC
    <3>3. call' \in [Call -> CallState] /\ SeenWhenConsuming'
      BY <2>2, <3>1, <3>2 DEF Evaluate
    <3> QED
      BY <2>2, <3>3 DEF Evaluate, TypeInv, TypeOK
  <2>3. CASE ReadApproval(c)
    <3>1. ASSUME NEW n \in Consulted(c), NEW pc \in {"consuming", "asked", "refused"},
                 call' = [call EXCEPT ![c].seen = n, ![c].pc = pc]
          PROVE  call' \in [Call -> CallState] /\ SeenWhenConsuming'
      <4>1. n \in Approval
        BY ConsultedType DEF TypeInv
      <4> DEFINE r == [call[c] EXCEPT !.seen = n, !.pc = pc]
      <4>2. call[c] \in CallState
        BY DEF TypeInv, TypeOK
      <4>3. r \in CallState /\ r.seen \in Approval
        BY <4>1, <4>2 DEF CallState, PC
      <4>4. call' = [call EXCEPT ![c] = r]
        BY <3>1
      <4> QED
        BY <4>3, <4>4, ReplacedType
    <3>2. ASSUME NEW pc \in {"requesting", "refused"}, call' = At(c, pc)
          PROVE  call' \in [Call -> CallState] /\ SeenWhenConsuming'
      BY <3>2, MoveType DEF PC
    <3>3. call' \in [Call -> CallState] /\ SeenWhenConsuming'
      BY <2>3, <3>1, <3>2 DEF ReadApproval
    <3> QED
      BY <2>3, <3>3 DEF ReadApproval, TypeInv, TypeOK
  <2>4. CASE ConsumeApproval(c)
    <3>1. call[c].seen \in Approval
      BY <2>4 DEF ConsumeApproval, TypeInv, SeenWhenConsuming
    <3>2. Consumed(call[c].seen) \in [Approval -> ApprovalRow]
      BY <3>1 DEF Consumed, TypeInv, TypeOK, ApprovalRow, ApprovalStatus
    <3>3. ASSUME call' = [call EXCEPT ![c].pc = "allowed", ![c].spent = call[c].seen]
          PROVE  call' \in [Call -> CallState] /\ SeenWhenConsuming'
      <4> DEFINE r == [call[c] EXCEPT !.pc = "allowed", !.spent = call[c].seen]
      <4>1. call[c] \in CallState
        BY DEF TypeInv, TypeOK
      <4>2. r \in CallState /\ r.pc # "consuming"
        BY <3>1, <4>1 DEF CallState, PC
      <4>3. call' = [call EXCEPT ![c] = r]
        BY <3>3
      <4> QED
        BY <4>2, <4>3, ReplacedType
    <3>4. ASSUME call' = At(c, "refused")
          PROVE  call' \in [Call -> CallState] /\ SeenWhenConsuming'
      BY <3>4, MoveType DEF PC
    <3>5. call' \in [Call -> CallState] /\ SeenWhenConsuming'
      BY <2>4, <3>3, <3>4 DEF ConsumeApproval
    <3> QED
      BY <2>4, <3>2, <3>5 DEF ConsumeApproval, TypeInv, TypeOK
  <2>5. CASE RequestApproval(c)
    <3>1. Expired \in [Approval -> ApprovalRow]
      BY ExpiredType DEF TypeInv
    <3>2. NewApproval(c) \in ApprovalRow
      BY DEF NewApproval, ApprovalRow, ApprovalStatus, Undecided, TypeInv, TypeOK,
             CallState
    <3>3. approval' \in [Approval -> ApprovalRow]
      BY <2>5, <3>1, <3>2 DEF RequestApproval, TypeInv, TypeOK
    <3>4. ASSUME NEW n \in Approval,
                 call' = [call EXCEPT ![c].pc = "asked", ![c].seen = n]
          PROVE  call' \in [Call -> CallState] /\ SeenWhenConsuming'
      <4> DEFINE r == [call[c] EXCEPT !.pc = "asked", !.seen = n]
      <4>1. call[c] \in CallState
        BY DEF TypeInv, TypeOK
      <4>2. r \in CallState /\ r.pc # "consuming"
        BY <4>1 DEF CallState, PC
      <4>3. call' = [call EXCEPT ![c] = r]
        BY <3>4
      <4> QED
        BY <4>2, <4>3, ReplacedType
    <3>5. ASSUME call' = At(c, "refused")
          PROVE  call' \in [Call -> CallState] /\ SeenWhenConsuming'
      BY <3>5, MoveType DEF PC
    <3>6. call' \in [Call -> CallState] /\ SeenWhenConsuming'
      BY <2>5, <3>4, <3>5 DEF RequestApproval, BindingHeld
    <3> QED
      BY <2>5, <3>3, <3>6 DEF RequestApproval, TypeInv, TypeOK
  <2>6. CASE AskFails(c)
    BY <2>6, MoveType DEF AskFails, TypeInv, TypeOK, PC
  <2>7. CASE BookReceipt(c)
    <3>1. \E pc \in {"booked", "refused"} : call' = At(c, pc)
      BY <2>7 DEF BookReceipt
    <3>2. receipt' \in [Call -> Receipt]
      BY <2>7 DEF BookReceipt, TypeInv, TypeOK, Receipt
    <3> QED
      BY <2>7, <3>1, <3>2, MoveType DEF BookReceipt, TypeInv, TypeOK, PC
  <2>8. CASE Perform(c)
    BY <2>8, MoveType DEF Perform, TypeInv, TypeOK, PC
  <2>9. CASE PerformFails(c)
    BY <2>9, MoveType DEF PerformFails, TypeInv, TypeOK, PC
  <2>16. CASE Defer(c)
    <3>1. ASSUME NEW n \in Approval,
                 call' = [call EXCEPT ![c].pc = "answered", ![c].defers = n]
          PROVE  call' \in [Call -> CallState] /\ SeenWhenConsuming'
      <4> DEFINE r == [call[c] EXCEPT !.pc = "answered", !.defers = n]
      <4>1. call[c] \in CallState
        BY DEF TypeInv, TypeOK
      <4>2. r \in CallState
        BY <4>1 DEF CallState, PC
      <4>3. r.pc # "consuming"
        BY <4>1 DEF CallState
      <4>4. call' = [call EXCEPT ![c] = r]
        BY <3>1
      <4> QED
        BY <4>2, <4>3, <4>4, ReplacedType
    <3>5. call' \in [Call -> CallState] /\ SeenWhenConsuming'
      BY <2>16, <3>1 DEF Defer
    <3> QED
      BY <2>16, <3>5 DEF Defer, TypeInv, TypeOK
  <2>10. CASE Report(c)
    <3>1. \E pc \in {"reported", "deferred", "failing"} : call' = At(c, pc)
      BY <2>10 DEF Report, Reported
    <3>2. receipt' \in [Call -> Receipt]
      BY <2>10 DEF Report, TypeInv, TypeOK, Receipt
    <3> QED
      BY <2>10, <3>1, <3>2, MoveType DEF Report, TypeInv, TypeOK, PC
  <2>11. CASE GiveUp(c)
    <3>1. receipt' \in [Call -> Receipt]
      BY <2>11 DEF GiveUp, TypeInv, TypeOK, Receipt
    <3> QED
      BY <2>11, <3>1, MoveType DEF GiveUp, TypeInv, TypeOK, PC
  <2>12. CASE Conclude(c)
    <3>1. intent' \in [Intent -> IntentRow]
      BY <2>12, ConclusionType DEF Conclude, TypeInv
    <3> QED
      BY <2>12, <3>1, MoveType DEF Conclude, TypeInv, TypeOK, PC
  <2>13. CASE ConcludeFails(c)
    <3>1. intent' \in [Intent -> IntentRow]
      BY <2>13, ConclusionType DEF ConcludeFails, TypeInv, TypeOK
    <3> QED
      BY <2>13, <3>1, MoveType DEF ConcludeFails, TypeInv, TypeOK, PC
  <2>14. CASE CatchError(c)
    <3>1. call[c].given \in Approval \cup {None} /\ "failed" \in IntentStatus
      BY DEF TypeInv, TypeOK, CallState, IntentStatus
    <3>2. intent' \in [Intent -> IntentRow]
      BY <2>14, <3>1, CompletedType DEF CatchError, TypeInv, TypeOK
    <3> QED
      BY <2>14, <3>2, MoveType DEF CatchError, TypeInv, TypeOK, PC
  <2>15. CASE Crash(c)
    BY <2>15, MoveType DEF Crash, TypeInv, TypeOK, PC
  <2> QED
    BY <1>4, <2>1, <2>2, <2>3, <2>4, <2>5, <2>6, <2>7, <2>8, <2>9, <2>10,
       <2>11, <2>12, <2>13, <2>14, <2>15, <2>16 DEF CallStep
<1>5. ASSUME NEW n \in Approval, NEW decision \in {"approved", "rejected"},
             Decide(n, decision)
      PROVE  TypeInv'
  <2>1. Expired \in [Approval -> ApprovalRow]
    BY ExpiredType DEF TypeInv
  <2>2. approval' \in [Approval -> ApprovalRow]
    <3> DEFINE r == [Expired[n] EXCEPT !.status = decision,
                                       !.live = (decision = "approved")]
    <3>1. Expired[n] \in ApprovalRow
      BY <2>1
    <3>2. r \in ApprovalRow
      BY <3>1 DEF ApprovalRow, ApprovalStatus, Undecided
    <3>3. approval' = [Expired EXCEPT ![n] = r] \/ approval' = Expired
      BY <1>5 DEF Decide
    <3> QED
      BY <2>1, <3>2, <3>3
  <2> QED
    BY <1>5, <2>2 DEF Decide, TypeInv, TypeOK, SeenWhenConsuming
<1>6. ASSUME NEW n \in Approval, RunOut(n) PROVE TypeInv'
  <2>1. approval' \in [Approval -> ApprovalRow]
    BY <1>6 DEF RunOut, TypeInv, TypeOK, ApprovalRow
  <2> QED
    BY <1>6, <2>1 DEF RunOut, TypeInv, TypeOK, SeenWhenConsuming
<1>7. CASE ListApprovals
  BY <1>7, ExpiredType DEF ListApprovals, TypeInv, TypeOK, SeenWhenConsuming
<1>8. CASE UNCHANGED vars
  BY <1>8 DEF vars, TypeInv, TypeOK, SeenWhenConsuming
<1> QED
  BY <1>1, <1>2, <1>3, <1>4, <1>5, <1>6, <1>7, <1>8 DEF Next

\* The tables and the requests have their types in every behaviour.
THEOREM GovernedTypeCorrect == Spec => []TypeOK
<1>1. Spec => []TypeInv
  BY TypeInit, TypeStep, PTL DEF Spec
<1>2. TypeInv => TypeOK
  BY DEF TypeInv
<1> QED
  BY <1>1, <1>2, PTL

-----------------------------------------------------------------------------
(* What a step does to the table of approvals                              *)

DecidedRow(n, decision) == [Expired[n] EXCEPT !.status = decision,
                                              !.live = (decision = "approved")]

ApprovalMove ==
    \/ approval' = approval
    \/ approval' = Expired
    \/ \E c \in Call, n \in Approval : Consumable(c, n) /\ approval' = Consumed(n)
    \/ \E c \in Call, n \in Approval :
          /\ approval[n].status = "absent"
          /\ BindingHeld(Expired, call[c].action) = {}
          /\ approval' = [Expired EXCEPT ![n] = NewApproval(c)]
    \/ \E n \in Approval, decision \in {"approved", "rejected"} :
          /\ Decidable(n)
          /\ approval' = [Expired EXCEPT ![n] = DecidedRow(n, decision)]
    \/ \E n \in Approval :
          /\ approval[n].status \in Undecided /\ ~approval[n].late
          /\ approval' = [approval EXCEPT ![n] = [approval[n] EXCEPT !.late = TRUE]]

\* Every step moves the table in one of these ways.
LEMMA ApprovalMoves == TypeInv /\ [Next]_vars => ApprovalMove
<1> SUFFICES ASSUME TypeInv, [Next]_vars PROVE ApprovalMove
    OBVIOUS
<1>1. ASSUME NEW c \in Call, ConsumeApproval(c) PROVE ApprovalMove
  <2>1. call[c].seen \in Approval
    BY <1>1 DEF ConsumeApproval, TypeInv, SeenWhenConsuming
  <2> QED
    BY <1>1, <2>1 DEF ConsumeApproval, ApprovalMove
<1>2. ASSUME NEW c \in Call, RequestApproval(c) PROVE ApprovalMove
  BY <1>2 DEF RequestApproval, ApprovalMove, Fresh
<1>3. ASSUME NEW c \in Call, CallStep(c), ~ConsumeApproval(c), ~RequestApproval(c)
      PROVE  approval' = approval
  BY <1>3 DEF CallStep, EnterGateway, Evaluate, ReadApproval, AskFails, BookReceipt,
              Perform, Defer, PerformFails, Report, GiveUp, Conclude, ConcludeFails,
              CatchError, Crash
<1>4. ASSUME NEW n \in Approval, NEW decision \in {"approved", "rejected"},
             Decide(n, decision)
      PROVE  ApprovalMove
  <2>1. Decidable(n) => approval' = [Expired EXCEPT ![n] = DecidedRow(n, decision)]
    BY <1>4 DEF Decide, DecidedRow
  <2>2. ~Decidable(n) => approval' = Expired
    BY <1>4 DEF Decide
  <2> QED
    BY <2>1, <2>2 DEF ApprovalMove
<1>5. ASSUME NEW n \in Approval, RunOut(n) PROVE ApprovalMove
  <2>1. approval' = [approval EXCEPT ![n] = [approval[n] EXCEPT !.late = TRUE]]
    BY <1>5 DEF RunOut
  <2> QED
    BY <1>5, <2>1 DEF RunOut, ApprovalMove
<1>6. ASSUME NEW i \in Intent, ReserveIntent(i) PROVE approval' = approval
  BY <1>6 DEF ReserveIntent
<1>7. ASSUME NEW c \in Call, NEW n \in Approval \cup {None}, NEW i \in Intent,
             ClaimIntent(c, i, n)
      PROVE  approval' = approval
  BY <1>7 DEF ClaimIntent
<1>8. ASSUME NEW c \in Call, NEW n \in Approval \cup {None}, NEW a \in Action,
             CallTool(c, a, n)
      PROVE  approval' = approval
  BY <1>8 DEF CallTool
<1>9. ListApprovals \/ UNCHANGED vars => ApprovalMove
  BY DEF ListApprovals, vars, ApprovalMove
<1>10. approval' = approval => ApprovalMove
  BY DEF ApprovalMove
<1> QED
  BY <1>1, <1>2, <1>3, <1>4, <1>5, <1>6, <1>7, <1>8, <1>9, <1>10 DEF Next

\* A row of Expired is the row itself, or one that has just run out.
LEMMA ExpiredRow ==
    ASSUME TypeOK, NEW n \in Approval
    PROVE  /\ Expired[n].action = approval[n].action
           /\ Expired[n].principal = approval[n].principal
           /\ \/ Expired[n] = approval[n]
              \/ /\ approval[n].status \in Undecided /\ approval[n].late
                 /\ Expired[n].status = "expired" /\ ~Expired[n].live
<1>1. approval[n] \in ApprovalRow
  BY DEF TypeOK
<1> QED
  BY <1>1 DEF Expired, ApprovalRow

\* A consumed row is never written again.
LEMMA ConsumedStays ==
    ASSUME TypeInv, [Next]_vars, NEW m \in Approval, approval[m].status = "consumed"
    PROVE  approval'[m] = approval[m]
<1>1. Expired[m] = approval[m]
  BY DEF Expired, Undecided
<1>2. approval \in [Approval -> ApprovalRow] /\ Expired \in [Approval -> ApprovalRow]
  BY ExpiredType DEF TypeInv, TypeOK
<1>3. ASSUME NEW c \in Call, NEW n \in Approval, Consumable(c, n)
      PROVE  Consumed(n)[m] = approval[m]
  BY <1>2, <1>3 DEF Consumable, Consumed
<1>4. ASSUME NEW n \in Approval, Decidable(n) PROVE n # m
  BY <1>1, <1>4 DEF Decidable
<1>5. ASSUME NEW n \in Approval, approval[n].status \in Undecided PROVE n # m
  BY <1>5 DEF Undecided
<1> QED
  BY <1>1, <1>2, <1>3, <1>4, <1>5, ApprovalMoves DEF ApprovalMove

\* The life of an approval: pending, then approved, rejected or expired, and
\* from approved to consumed in time; consumeGovernanceApproval and
\* decideGovernanceApproval take no other step.
THEOREM GovernedLifecycle == Spec => ApprovalLifecycle
<1> DEFINE Forward(n) ==
      approval'[n].status # approval[n].status =>
         CASE approval[n].status = "absent" -> approval'[n].status = "pending"
           [] approval[n].status = "pending" ->
                 approval'[n].status \in {"approved", "rejected", "expired"}
           [] approval[n].status = "approved" ->
                 \/ approval'[n].status = "expired"
                 \/ approval'[n].status = "consumed" /\ ~approval[n].late
           [] OTHER -> FALSE
<1>1. ASSUME TypeInv, [Next]_vars, NEW m \in Approval PROVE Forward(m)
  <2>1. approval \in [Approval -> ApprovalRow] /\ Expired \in [Approval -> ApprovalRow]
    BY <1>1, ExpiredType DEF TypeInv, TypeOK
  <2>2. \/ Expired[m] = approval[m]
        \/ approval[m].status \in {"pending", "approved"} /\ Expired[m].status = "expired"
    BY <1>1, ExpiredRow DEF TypeInv, Undecided
  <2>3. ASSUME approval'[m] = Expired[m] PROVE Forward(m)
    BY <2>2, <2>3
  <2>4. ASSUME NEW c \in Call, NEW n \in Approval, Consumable(c, n),
               approval' = Consumed(n)
        PROVE  Forward(m)
    <3>1. m = n => approval'[m].status = "consumed"
      BY <2>1, <2>4 DEF Consumed, ApprovalRow
    <3>2. m # n => approval'[m] = approval[m]
      BY <2>1, <2>4 DEF Consumed
    <3> QED
      BY <2>4, <3>1, <3>2 DEF Consumable
  <2>5. ASSUME NEW c \in Call, NEW n \in Approval, approval[n].status = "absent",
               approval' = [Expired EXCEPT ![n] = NewApproval(c)]
        PROVE  Forward(m)
    <3>1. m = n => approval'[m].status = "pending"
      BY <2>1, <2>5 DEF NewApproval
    <3>2. m # n => approval'[m] = Expired[m]
      BY <2>1, <2>5
    <3> QED
      BY <2>3, <2>5, <3>1, <3>2
  <2>6. ASSUME NEW n \in Approval, NEW decision \in {"approved", "rejected"},
               Decidable(n),
               approval' = [Expired EXCEPT ![n] = DecidedRow(n, decision)]
        PROVE  Forward(m)
    <3>1. m = n => approval'[m].status = decision
      BY <2>1, <2>6 DEF DecidedRow, ApprovalRow
    <3>2. m = n => approval[m].status = "pending"
      BY <2>2, <2>6 DEF Decidable
    <3>3. m # n => approval'[m] = Expired[m]
      BY <2>1, <2>6
    <3> QED
      BY <2>3, <3>1, <3>2, <3>3
  <2>7. ASSUME NEW n \in Approval,
               approval' = [approval EXCEPT ![n] = [approval[n] EXCEPT !.late = TRUE]]
        PROVE  approval'[m].status = approval[m].status
    BY <2>1, <2>7 DEF ApprovalRow
  <2> QED
    BY <1>1, <2>3, <2>4, <2>5, <2>6, <2>7, ApprovalMoves DEF ApprovalMove
<1>2. TypeInv /\ [Next]_vars => [\A n \in Approval : Forward(n)]_vars
  BY <1>1
<1> QED
  BY <1>2, TypeInit, TypeStep, PTL DEF Spec, ApprovalLifecycle

-----------------------------------------------------------------------------
(* At most one live approval of an action.  OneLiveApproval is inductive   *)
(* with the types: a row is inserted only when no live row holds the       *)
(* binding, after the late ones have released it.                          *)

LEMMA OneLiveStep == TypeInv /\ OneLiveApproval /\ [Next]_vars => OneLiveApproval'
<1> SUFFICES ASSUME TypeInv, OneLiveApproval, [Next]_vars PROVE OneLiveApproval'
    OBVIOUS
<1>1. approval \in [Approval -> ApprovalRow] /\ Expired \in [Approval -> ApprovalRow]
  BY ExpiredType DEF TypeInv, TypeOK
<1> DEFINE Held(t) ==
      /\ \A n \in Approval : t[n].live <=> t[n].status \in Undecided
      /\ \A m, n \in Approval :
            t[m].live /\ t[n].live /\ t[m].action = t[n].action => m = n
<1>2. Held(approval) /\ (Held(approval') => OneLiveApproval')
  BY DEF OneLiveApproval
<1> HIDE DEF Held
\* Nothing comes alive by expiry.
<1>3. Held(Expired)
  <2>1. \A n \in Approval : Expired[n].live <=> Expired[n].status \in Undecided
    BY <1>1, <1>2, ExpiredRow DEF Held, Undecided, TypeInv
  <2>2. \A n \in Approval : /\ Expired[n].live => approval[n].live
                            /\ Expired[n].action = approval[n].action
    BY <1>2, ExpiredRow DEF Held, TypeInv
  <2> QED
    BY <1>2, <2>1, <2>2 DEF Held
<1>4. ASSUME NEW c \in Call, NEW n \in Approval, approval' = Consumed(n)
      PROVE  Held(approval')
  <2>1. /\ approval'[n].status = "consumed" /\ ~approval'[n].live
        /\ \A m \in Approval \ {n} : approval'[m] = approval[m]
    BY <1>1, <1>4 DEF Consumed, ApprovalRow
  <2> QED
    BY <1>2, <2>1 DEF Held, Undecided
<1>5. ASSUME NEW c \in Call, NEW n \in Approval,
             BindingHeld(Expired, call[c].action) = {},
             approval' = [Expired EXCEPT ![n] = NewApproval(c)]
      PROVE  Held(approval')
  <2>1. /\ approval'[n].status = "pending" /\ approval'[n].live
        /\ approval'[n].action = call[c].action
        /\ \A m \in Approval \ {n} : approval'[m] = Expired[m]
    BY <1>1, <1>5 DEF NewApproval
  <2>2. \A m \in Approval : Expired[m].live => Expired[m].action # call[c].action
    BY <1>5 DEF BindingHeld
  <2> QED
    BY <1>3, <2>1, <2>2 DEF Held, Undecided
<1>6. ASSUME NEW n \in Approval, NEW decision \in {"approved", "rejected"},
             Decidable(n),
             approval' = [Expired EXCEPT ![n] = DecidedRow(n, decision)]
      PROVE  Held(approval')
  <2>1. /\ approval'[n].status = decision
        /\ approval'[n].live <=> decision = "approved"
        /\ approval'[n].action = Expired[n].action
        /\ \A m \in Approval \ {n} : approval'[m] = Expired[m]
    BY <1>1, <1>6 DEF DecidedRow, ApprovalRow
  <2>2. Expired[n].live
    BY <1>3, <1>6 DEF Held, Decidable, Undecided
  <2> QED
    BY <1>3, <2>1, <2>2 DEF Held, Undecided
<1>7. ASSUME NEW n \in Approval,
             approval' = [approval EXCEPT ![n] = [approval[n] EXCEPT !.late = TRUE]]
      PROVE  Held(approval')
  <2>1. \A m \in Approval : /\ approval'[m].status = approval[m].status
                            /\ approval'[m].live = approval[m].live
                            /\ approval'[m].action = approval[m].action
    BY <1>1, <1>7 DEF ApprovalRow
  <2> QED
    BY <1>2, <2>1 DEF Held
<1> QED
  BY <1>2, <1>3, <1>4, <1>5, <1>6, <1>7, ApprovalMoves DEF ApprovalMove

\* At most one approval of an action is live, whatever requests race on it.
THEOREM GovernedOneLive == Spec => []OneLiveApproval
<1>1. Init => OneLiveApproval
  BY DEF Init, OneLiveApproval, NoApproval, Undecided
<1> QED
  BY <1>1, TypeInit, TypeStep, OneLiveStep, PTL DEF Spec

-----------------------------------------------------------------------------
(* What a step does to a request                                           *)

\* The places of a request that holds the consent it needs, of one that has
\* its receipt, and those that come after its tool was called.
Paid == {"allowed", "booked", "answered", "reported", "deferred", "failing"}
Booked == {"booked", "answered", "reported", "deferred", "failing"}
Late == {"answered", "reported", "deferred", "failing", "refused", "catching", "done"}

Keeps(d) == /\ call'[d] = call[d] /\ receipt'[d] = receipt[d]
            /\ d \in performed' <=> d \in performed

Starts(c) == /\ call[c].pc = "idle"
             /\ call'[c].pc \in {"claimed", "entered"} /\ call'[c].spent = None
             /\ call'[c].defers = None
             /\ receipt'[c] = receipt[c] /\ (c \in performed' <=> c \in performed)

\* consumeGovernanceApproval succeeds.
Spends(c) == /\ call[c].pc = "consuming" /\ call'[c].pc = "allowed"
             /\ call'[c].spent \in Approval /\ Consumable(c, call'[c].spent)
             /\ approval' = Consumed(call'[c].spent)

\* reserveEnterpriseMcpCall inserts the receipt.
Books(c) == call[c].pc = "allowed" /\ ~KeyBooked(KeyOf[call[c].action])

\* The places a request may come from.
Order(c) ==
    /\ call'[c].pc # "idle"
    /\ call[c].pc \in Late => call'[c].pc \in Late
    /\ call[c].pc \in Paid => call'[c].pc \in Paid \cup Late
    /\ call'[c].pc \in Paid =>
          \/ call'[c].pc = "allowed" /\ call[c].action \notin Confirmed
          \/ Spends(c)
          \/ call[c].pc \in Paid
    /\ call'[c].pc \in Booked => receipt'[c] # "none" \/ call[c].pc \in Booked
    /\ call'[c].pc = "answered" => c \in performed' \/ call'[c].defers # None
    /\ call'[c].pc \in {"reported", "deferred"} =>
          call[c].pc = "answered" /\ call'[c].pc = Reported(c)
    /\ call[c].pc \notin Working => call'[c].pc \notin Working

Proceeds(c) ==
    /\ call[c].pc # "idle"
    /\ call'[c].action = call[c].action /\ call'[c].intent = call[c].intent
    /\ call'[c].principal = call[c].principal \/ call[c].pc = "entered"
    /\ call'[c].spent = call[c].spent \/ Spends(c)
    /\ \/ call'[c].defers = call[c].defers
       \/ /\ call[c].pc = "booked" /\ call'[c].pc \in Late
          /\ call'[c].defers \in Approval
    /\ receipt'[c] # "none" => \/ receipt[c] # "none" \/ Books(c)
                               \/ call[c].pc \in Booked
    /\ receipt[c] # "none" => receipt'[c] # "none"
    /\ c \in performed => c \in performed'
    /\ c \in performed' => c \in performed \/ call[c].pc = "booked"
    /\ c \in performed' /\ c \notin performed => call'[c].pc \in Late
    /\ Order(c)

StepOf(c) == (\A d \in Call \ {c} : Keeps(d)) /\ (Starts(c) \/ Proceeds(c))

\* A request that only moves on to pc.
LEMMA AtFacts ==
    ASSUME TypeOK, NEW c \in Call, NEW pc \in PC, call' = At(c, pc)
    PROVE  /\ \A d \in Call \ {c} : call'[d] = call[d]
           /\ call'[c].pc = pc
           /\ call'[c].action = call[c].action /\ call'[c].intent = call[c].intent
           /\ call'[c].principal = call[c].principal
           /\ call'[c].spent = call[c].spent
           /\ call'[c].defers = call[c].defers
<1>1. call'[c] = [call[c] EXCEPT !.pc = pc] /\ \A d \in Call \ {c} : call'[d] = call[d]
  BY DEF TypeOK, At
<1>2. call[c] \in CallState
  BY DEF TypeOK
<1> QED
  BY <1>1, <1>2 DEF CallState

LEMMA StepOfCall ==
    ASSUME TypeInv, NEW c \in Call, CallStep(c)
    PROVE  StepOf(c)
<1>1. /\ call \in [Call -> CallState] /\ receipt \in [Call -> Receipt]
      /\ call[c] \in CallState
  BY DEF TypeInv, TypeOK
<1>2. CASE EnterGateway(c)
  BY <1>2, AtFacts DEF EnterGateway, TypeInv, StepOf, Keeps, Proceeds, Order, PC,
     Paid, Booked, Late, Working
<1>3. CASE Evaluate(c)
  <2>1. ASSUME NEW p \in Principal,
               call' = [call EXCEPT ![c].principal = p,
                           ![c].pc = IF call[c].action \in Confirmed
                                     THEN "checking" ELSE "allowed"]
        PROVE  StepOf(c)
    <3>1. /\ \A d \in Call \ {c} : call'[d] = call[d]
          /\ call'[c] = [call[c] EXCEPT !.principal = p,
                           !.pc = IF call[c].action \in Confirmed
                                  THEN "checking" ELSE "allowed"]
      BY <1>1, <2>1
    <3>2. /\ call'[c].pc = IF call[c].action \in Confirmed THEN "checking" ELSE "allowed"
          /\ call'[c].action = call[c].action /\ call'[c].intent = call[c].intent
          /\ call'[c].spent = call[c].spent /\ call'[c].defers = call[c].defers
      BY <1>1, <3>1 DEF CallState
    <3> QED
      BY <1>3, <3>1, <3>2 DEF Evaluate, StepOf, Keeps, Proceeds, Order, PC, Paid, Booked,
         Late, Working
  <2>2. ASSUME call' = At(c, "refused") PROVE StepOf(c)
    BY <1>3, <2>2, AtFacts DEF Evaluate, TypeInv, StepOf, Keeps, Proceeds, Order, PC,
       Paid, Booked, Late, Working
  <2> QED
    BY <1>3, <2>1, <2>2 DEF Evaluate
<1>4. CASE ReadApproval(c)
  <2>1. ASSUME NEW n, NEW pc \in {"consuming", "asked", "refused"},
               call' = [call EXCEPT ![c].seen = n, ![c].pc = pc]
        PROVE  StepOf(c)
    <3>1. /\ \A d \in Call \ {c} : call'[d] = call[d]
          /\ call'[c] = [call[c] EXCEPT !.seen = n, !.pc = pc]
      BY <1>1, <2>1
    <3>2. /\ call'[c].pc = pc
          /\ call'[c].action = call[c].action /\ call'[c].intent = call[c].intent
          /\ call'[c].principal = call[c].principal /\ call'[c].spent = call[c].spent
          /\ call'[c].defers = call[c].defers
      BY <1>1, <3>1 DEF CallState
    <3> QED
      BY <1>4, <3>1, <3>2 DEF ReadApproval, StepOf, Keeps, Proceeds, Order, PC, Paid, Booked,
         Late, Working
  <2>2. ASSUME NEW pc \in {"requesting", "refused"}, call' = At(c, pc) PROVE StepOf(c)
    BY <1>4, <2>2, AtFacts DEF ReadApproval, TypeInv, StepOf, Keeps, Proceeds, Order,
       PC, Paid, Booked, Late, Working
  <2> QED
    BY <1>4, <2>1, <2>2 DEF ReadApproval
<1>5. CASE ConsumeApproval(c)
  <2> DEFINE n == call[c].seen
  <2>1. n \in Approval
    BY <1>5 DEF ConsumeApproval, TypeInv, SeenWhenConsuming
  <2>2. ASSUME Consumable(c, n), approval' = Consumed(n),
               call' = [call EXCEPT ![c].pc = "allowed", ![c].spent = n]
        PROVE  StepOf(c)
    <3>1. /\ \A d \in Call \ {c} : call'[d] = call[d]
          /\ call'[c] = [call[c] EXCEPT !.pc = "allowed", !.spent = n]
      BY <1>1, <2>2
    <3>2. /\ call'[c].pc = "allowed" /\ call'[c].spent = n
          /\ call'[c].action = call[c].action /\ call'[c].intent = call[c].intent
          /\ call'[c].principal = call[c].principal /\ call'[c].defers = call[c].defers
      BY <1>1, <3>1 DEF CallState
    <3>3. Spends(c)
      BY <1>5, <2>1, <2>2, <3>2 DEF ConsumeApproval, Spends
    <3> HIDE DEF n
    <3> QED
      BY <1>5, <3>1, <3>2, <3>3 DEF ConsumeApproval, StepOf, Keeps, Proceeds, Order,
         PC, Paid, Booked, Late, Working
  <2>3. ASSUME call' = At(c, "refused") PROVE StepOf(c)
    BY <1>5, <2>3, AtFacts DEF ConsumeApproval, TypeInv, StepOf, Keeps, Proceeds,
       Order, PC, Paid, Booked, Late, Working
  <2> QED
    BY <1>5, <2>2, <2>3 DEF ConsumeApproval
<1>6. CASE RequestApproval(c)
  <2>1. ASSUME NEW n \in Approval,
               call' = [call EXCEPT ![c].pc = "asked", ![c].seen = n]
        PROVE  StepOf(c)
    <3>1. /\ \A d \in Call \ {c} : call'[d] = call[d]
          /\ call'[c] = [call[c] EXCEPT !.pc = "asked", !.seen = n]
      BY <1>1, <2>1
    <3>2. /\ call'[c].pc = "asked"
          /\ call'[c].action = call[c].action /\ call'[c].intent = call[c].intent
          /\ call'[c].principal = call[c].principal /\ call'[c].spent = call[c].spent
          /\ call'[c].defers = call[c].defers
      BY <1>1, <3>1 DEF CallState
    <3> QED
      BY <1>6, <3>1, <3>2 DEF RequestApproval, StepOf, Keeps, Proceeds, Order, PC,
         Paid, Booked, Late, Working
  <2>2. ASSUME call' = At(c, "refused") PROVE StepOf(c)
    BY <1>6, <2>2, AtFacts DEF RequestApproval, TypeInv, StepOf, Keeps, Proceeds,
       Order, PC, Paid, Booked, Late, Working
  <2> QED
    BY <1>6, <2>1, <2>2 DEF RequestApproval, BindingHeld
<1>7. CASE AskFails(c)
  BY <1>7, AtFacts DEF AskFails, TypeInv, StepOf, Keeps, Proceeds, Order, PC,
     Paid, Booked, Late, Working
<1>8. CASE BookReceipt(c)
  <2>1. ASSUME ~KeyBooked(KeyOf[call[c].action]),
               receipt' = [receipt EXCEPT ![c] = "started"],
               NEW pc \in {"booked", "refused"}, call' = At(c, pc)
        PROVE  StepOf(c)
    <3>1. Books(c)
      BY <1>8, <2>1 DEF BookReceipt, Books
    <3>2. receipt'[c] = "started" /\ \A d \in Call \ {c} : receipt'[d] = receipt[d]
      BY <1>1, <2>1
    <3> QED
      BY <1>8, <2>1, <3>1, <3>2, AtFacts DEF BookReceipt, TypeInv, StepOf, Keeps,
         Proceeds, Order, PC, Paid, Booked, Late, Working
  <2>2. ASSUME call' = At(c, "refused"), UNCHANGED receipt PROVE StepOf(c)
    BY <1>8, <2>2, AtFacts DEF BookReceipt, TypeInv, StepOf, Keeps, Proceeds, Order,
       PC, Paid, Booked, Late, Working
  <2> QED
    BY <1>8, <2>1, <2>2 DEF BookReceipt
<1>9. CASE Perform(c)
  BY <1>9, AtFacts DEF Perform, TypeInv, StepOf, Keeps, Proceeds, Order, PC,
     Paid, Booked, Late, Working
<1>10. CASE PerformFails(c)
  BY <1>10, AtFacts DEF PerformFails, TypeInv, StepOf, Keeps, Proceeds, Order, PC,
     Paid, Booked, Late, Working
<1>17. CASE Defer(c)
  <2>1. PICK n \in Approval :
           call' = [call EXCEPT ![c].pc = "answered", ![c].defers = n]
    BY <1>17 DEF Defer
  <2>2. /\ \A d \in Call \ {c} : call'[d] = call[d]
        /\ call'[c] = [call[c] EXCEPT !.pc = "answered", !.defers = n]
    BY <1>1, <2>1
  <2>3. /\ call'[c].pc = "answered" /\ call'[c].defers = n /\ n # None
        /\ call'[c].action = call[c].action /\ call'[c].intent = call[c].intent
        /\ call'[c].principal = call[c].principal /\ call'[c].spent = call[c].spent
    BY <1>1, <2>2, ConstantsAssumption DEF CallState
  <2> QED
    BY <1>17, <2>2, <2>3 DEF Defer, StepOf, Keeps, Proceeds, Order, PC, Paid, Booked,
       Late, Working
<1>11. CASE Report(c)
  <2>1. /\ receipt'[c] \in {receipt[c], "completed", "failed"}
        /\ \A d \in Call \ {c} : receipt'[d] = receipt[d]
    BY <1>1, <1>11 DEF Report
  <2>2. PICK pc \in {Reported(c), "failing"} : call' = At(c, pc)
    BY <1>11 DEF Report
  <2>3. pc \in PC \cap {"reported", "deferred", "failing"}
    BY DEF Reported, PC
  <2> QED
    BY <1>11, <2>1, <2>2, <2>3, AtFacts DEF Report, TypeInv, StepOf, Keeps, Proceeds, Order,
       PC, Paid, Booked, Late, Working
<1>12. CASE GiveUp(c)
  <2>1. /\ receipt[c] # "none" => receipt'[c] # "none"
        /\ \A d \in Call \ {c} : receipt'[d] = receipt[d]
    BY <1>1, <1>12 DEF GiveUp
  <2> QED
    BY <1>12, <2>1, AtFacts DEF GiveUp, TypeInv, StepOf, Keeps, Proceeds, Order, PC,
       Paid, Booked, Late, Working
<1>13. CASE Conclude(c)
  BY <1>13, AtFacts DEF Conclude, HasResult, TypeInv, StepOf, Keeps, Proceeds, Order, PC,
     Paid, Booked, Late, Working
<1>14. CASE ConcludeFails(c)
  BY <1>14, AtFacts DEF ConcludeFails, HasResult, TypeInv, StepOf, Keeps, Proceeds, Order, PC,
     Paid, Booked, Late, Working
<1>15. CASE CatchError(c)
  BY <1>15, AtFacts DEF CatchError, TypeInv, StepOf, Keeps, Proceeds, Order, PC,
     Paid, Booked, Late, Working
<1>16. CASE Crash(c)
  BY <1>16, AtFacts DEF Crash, TypeInv, StepOf, Keeps, Proceeds, Order, PC,
     Paid, Booked, Late, Working
<1> QED
  BY <1>2, <1>3, <1>4, <1>5, <1>6, <1>7, <1>8, <1>9, <1>10, <1>11, <1>12, <1>13,
     <1>14, <1>15, <1>16, <1>17 DEF CallStep

\* Every step moves at most one request.
LEMMA CallMoves ==
    ASSUME TypeInv, [Next]_vars
    PROVE  \/ UNCHANGED <<call, receipt, performed>>
           \/ \E c \in Call : StepOf(c)
<1>1. ASSUME NEW c \in Call, NEW n \in Approval \cup {None}, NEW i \in Intent,
             ClaimIntent(c, i, n)
      PROVE  StepOf(c)
  BY <1>1 DEF ClaimIntent, TypeInv, TypeOK, StepOf, Keeps, Starts, Idle
<1>2. ASSUME NEW c \in Call, NEW n \in Approval \cup {None}, NEW a \in Action,
             CallTool(c, a, n)
      PROVE  StepOf(c)
  BY <1>2 DEF CallTool, TypeInv, TypeOK, StepOf, Keeps, Starts, Idle
<1>3. ASSUME NEW n \in Approval, NEW decision \in {"approved", "rejected"},
             Decide(n, decision) \/ RunOut(n)
      PROVE  UNCHANGED <<call, receipt, performed>>
  BY <1>3 DEF Decide, RunOut
<1>4. ListApprovals \/ UNCHANGED vars => UNCHANGED <<call, receipt, performed>>
  BY DEF ListApprovals, vars
<1>5. ASSUME NEW i \in Intent, ReserveIntent(i)
      PROVE  UNCHANGED <<call, receipt, performed>>
  BY <1>5 DEF ReserveIntent
<1> QED
  BY <1>1, <1>2, <1>3, <1>4, <1>5, StepOfCall DEF Next

-----------------------------------------------------------------------------
(* Confirmed actions have their effect under an approval of their own.     *)
(* EffectUnderApproval speaks of calls that have performed; inductively, a *)
(* call holds its approval from the moment it consumes it, a consumed row  *)
(* never changes, and it was approved, so held by no one, just before.     *)

HoldsConsent(c) ==
    /\ call[c].spent # None =>
          /\ call[c].pc \in Paid \cup Late
          /\ call[c].spent \in Approval
          /\ approval[call[c].spent].status = "consumed"
          /\ approval[call[c].spent].action = call[c].action
          /\ approval[call[c].spent].principal = call[c].principal
    /\ c \in performed => call[c].pc \in Late
    /\ call[c].pc \in Paid \/ c \in performed =>
          (call[c].action \in Confirmed => call[c].spent # None)

SpentOnce == \A c, d \in Call :
                 call[c].spent = call[d].spent /\ c # d => call[c].spent = None

ConsentInv == (\A c \in Call : HoldsConsent(c)) /\ SpentOnce

LEMMA ConsentStep ==
    TypeInv /\ ConsentInv /\ [Next]_vars => ConsentInv'
<1> SUFFICES ASSUME TypeInv, ConsentInv, [Next]_vars PROVE ConsentInv'
    OBVIOUS
<1> USE ConstantsAssumption
<1>1. ASSUME NEW m \in Approval, approval[m].status = "consumed"
      PROVE  approval'[m] = approval[m]
  BY <1>1, ConsumedStays
\* A request that does not move keeps its consent.
<1>2. ASSUME NEW d \in Call, Keeps(d) PROVE HoldsConsent(d)'
  BY <1>1, <1>2 DEF ConsentInv, HoldsConsent, Keeps
<1>3. CASE UNCHANGED <<call, receipt, performed>>
  <2>1. \A d \in Call : Keeps(d)
    BY <1>3 DEF Keeps
  <2> QED
    BY <1>2, <1>3, <2>1 DEF ConsentInv, SpentOnce
<1>4. ASSUME NEW c \in Call, StepOf(c) PROVE ConsentInv'
  <2>1. ASSUME Starts(c) PROVE HoldsConsent(c)'
    BY <2>1 DEF Starts, HoldsConsent, ConsentInv, Paid, Late
  <2>2. ASSUME Spends(c), Proceeds(c) PROVE HoldsConsent(c)'
    <3> DEFINE n == call'[c].spent
    <3>1. /\ n \in Approval /\ n # None
          /\ approval'[n].status = "consumed"
          /\ approval'[n].action = approval[n].action
          /\ approval'[n].principal = approval[n].principal
      BY <2>2 DEF Spends, Consumed, TypeInv, TypeOK, ApprovalRow
    <3>2. /\ approval[n].action = call'[c].action
          /\ approval[n].principal = call'[c].principal
      BY <2>2 DEF Spends, Consumable, Proceeds
    <3>3. c \notin performed /\ c \notin performed'
      BY <2>2 DEF Spends, Proceeds, ConsentInv, HoldsConsent, Late
    <3> QED
      BY <2>2, <3>1, <3>2, <3>3 DEF HoldsConsent, Spends, Paid
  <2>3. ASSUME Proceeds(c), ~Spends(c) PROVE HoldsConsent(c)'
    <3>1. HoldsConsent(c)
      BY DEF ConsentInv
    <3>2. call[c].spent # None =>
             approval'[call[c].spent] = approval[call[c].spent]
      BY <1>1, <3>1 DEF HoldsConsent
    <3>3. /\ call'[c].spent = call[c].spent /\ call'[c].action = call[c].action
          /\ call[c].pc = "entered" \/ call'[c].principal = call[c].principal
      BY <2>3 DEF Proceeds
    <3>4. /\ call[c].pc \in Paid => call'[c].pc \in Paid \cup Late
          /\ call[c].pc \in Late => call'[c].pc \in Late
      BY <2>3 DEF Proceeds, Order
    <3>5. \/ call'[c].pc \notin Paid \/ call[c].pc \in Paid
          \/ call[c].action \notin Confirmed
      BY <2>3 DEF Proceeds, Order
    <3>6. /\ c \in performed' => c \in performed \/ call[c].pc = "booked"
          /\ c \in performed' => call'[c].pc \in Late
      BY <2>3, <3>1, <3>4 DEF Proceeds, HoldsConsent
    <3> QED
      BY <3>1, <3>2, <3>3, <3>4, <3>5, <3>6 DEF HoldsConsent, Paid, Late
  <2>4. SpentOnce'
    <3>1. \A d \in Call \ {c} : call'[d] = call[d]
      BY <1>4 DEF StepOf, Keeps
    <3>2. ASSUME Spends(c), NEW d \in Call \ {c} PROVE call[d].spent # call'[c].spent
      <4>1. call'[c].spent \in Approval /\ approval[call'[c].spent].status = "approved"
        BY <3>2 DEF Spends, Consumable
      <4>2. HoldsConsent(d)
        BY <3>2 DEF ConsentInv
      <4> QED
        BY <4>1, <4>2 DEF HoldsConsent
    <3>3. \/ Spends(c) \/ call'[c].spent = call[c].spent \/ call'[c].spent = None
      BY <1>4 DEF StepOf, Starts, Proceeds
    <3> QED
      BY <3>1, <3>2, <3>3 DEF ConsentInv, SpentOnce
  <2>5. HoldsConsent(c)'
    BY <1>4, <2>1, <2>2, <2>3 DEF StepOf
  <2>6. \A d \in Call \ {c} : HoldsConsent(d)'
    BY <1>2, <1>4 DEF StepOf
  <2> QED
    BY <2>4, <2>5, <2>6 DEF ConsentInv
<1> QED
  BY <1>3, <1>4, CallMoves

\* Whatever a confirmed action's tool has done was done under an approval of
\* this action and principal, consumed by this call and by no other.
THEOREM GovernedEffect == Spec => []EffectUnderApproval
<1>1. Init => ConsentInv
  BY DEF Init, Idle, ConsentInv, HoldsConsent, SpentOnce, Paid, Late
<1>2. TypeInv /\ ConsentInv => EffectUnderApproval
  <2> SUFFICES ASSUME TypeInv, ConsentInv,
                      NEW c \in performed, call[c].action \in Confirmed
               PROVE  /\ call[c].spent # None
                      /\ approval[call[c].spent].status = "consumed"
                      /\ approval[call[c].spent].action = call[c].action
                      /\ approval[call[c].spent].principal = call[c].principal
                      /\ \A d \in performed \ {c} : call[d].spent # call[c].spent
    BY DEF EffectUnderApproval
  <2>1. performed \subseteq Call /\ HoldsConsent(c)
    BY DEF TypeInv, TypeOK, ConsentInv
  <2> QED
    BY <2>1 DEF HoldsConsent, ConsentInv, SpentOnce
<1> QED
  BY <1>1, <1>2, TypeInit, TypeStep, ConsentStep, PTL DEF Spec

-----------------------------------------------------------------------------
(* At most one effect per idempotency key.  A receipt is never given back, *)
(* and the tool is called only by a call that has its receipt.             *)

HasReceipt(c) ==
    /\ receipt[c] # "none" => call[c].pc # "idle"
    /\ call[c].pc \in Booked \/ c \in performed => receipt[c] # "none"

KeyBookedOnce ==
    \A c, d \in Call :
        /\ receipt[c] # "none" /\ receipt[d] # "none"
        /\ KeyOf[call[c].action] = KeyOf[call[d].action] /\ c # d
        => KeyOf[call[c].action] = None

BookInv == (\A c \in Call : HasReceipt(c)) /\ KeyBookedOnce

LEMMA BookStep == TypeInv /\ BookInv /\ [Next]_vars => BookInv'
<1> SUFFICES ASSUME TypeInv, BookInv, [Next]_vars PROVE BookInv'
    OBVIOUS
<1>1. CASE UNCHANGED <<call, receipt, performed>>
  BY <1>1 DEF BookInv, HasReceipt, KeyBookedOnce
<1>2. ASSUME NEW c \in Call, StepOf(c) PROVE BookInv'
  <2>1. \A d \in Call \ {c} : /\ call'[d] = call[d] /\ receipt'[d] = receipt[d]
                              /\ d \in performed' <=> d \in performed
    BY <1>2 DEF StepOf, Keeps
  <2>2. \A d \in Call \ {c} : HasReceipt(d)'
    BY <2>1 DEF BookInv, HasReceipt
  <2>3. HasReceipt(c)
    BY DEF BookInv
  <2>4. CASE Starts(c)
    <3>1. receipt[c] = "none" /\ receipt'[c] = "none" /\ c \notin performed'
      BY <2>3, <2>4 DEF Starts, HasReceipt
    <3>2. HasReceipt(c)'
      BY <2>4, <3>1 DEF Starts, HasReceipt, Booked
    <3>3. KeyBookedOnce'
      BY <2>1, <3>1 DEF BookInv, KeyBookedOnce
    <3> QED
      BY <2>2, <3>2, <3>3 DEF BookInv
  <2>5. CASE Proceeds(c)
    <3>1. HasReceipt(c)'
      BY <2>3, <2>5 DEF HasReceipt, Proceeds, Order, Booked
    <3>2. call'[c].action = call[c].action
      BY <2>5 DEF Proceeds
    <3>3. CASE receipt[c] # "none" \/ receipt'[c] = "none"
      BY <2>1, <2>2, <3>1, <3>2, <3>3 DEF BookInv, KeyBookedOnce
    <3>4. CASE receipt[c] = "none" /\ receipt'[c] # "none"
      <4>1. ~KeyBooked(KeyOf[call[c].action])
        BY <2>3, <2>5, <3>4 DEF HasReceipt, Proceeds, Books
      <4>2. \A d \in Call : receipt[d] # "none" /\ KeyOf[call[c].action] # None
                            => KeyOf[call[d].action] # KeyOf[call[c].action]
        BY <4>1 DEF KeyBooked
      <4> QED
        BY <2>1, <2>2, <3>1, <3>2, <4>2 DEF BookInv, KeyBookedOnce
    <3> QED
      BY <3>3, <3>4
  <2> QED
    BY <1>2, <2>4, <2>5 DEF StepOf
<1> QED
  BY <1>1, <1>2, CallMoves

\* Two calls with the same idempotency key never both have an effect.
THEOREM GovernedOncePerKey == Spec => []OncePerKey
<1>1. Init => BookInv
  BY DEF Init, Idle, BookInv, HasReceipt, KeyBookedOnce, Booked
<1>2. TypeInv /\ BookInv => OncePerKey
  BY DEF TypeInv, TypeOK, BookInv, HasReceipt, KeyBookedOnce, OncePerKey
<1> QED
  BY <1>1, <1>2, TypeInit, TypeStep, BookStep, PTL DEF Spec

-----------------------------------------------------------------------------
(* Intents.  A step changes the row of at most one intent: it reserves or  *)
(* claims it, or its request closes it while it is executing.              *)

\* Of the intents, only i has another status.
OnlyChanges(i) == \A j \in Intent \ {i} : intent'[j] = intent[j]

Reserves(i) == /\ intent[i].status = "absent" /\ intent'[i].status = "pending"
               /\ OnlyChanges(i)

Claims(c, i) == /\ Starts(c) /\ call'[c].intent = i
                /\ intent[i].status \in {"pending", "approval_required"}
                /\ intent'[i].status = "executing" /\ OnlyChanges(i)

Closes(c, i) == /\ Proceeds(c) /\ call[c].intent = i /\ call'[c].pc \notin Working
                /\ call[c].pc \in HasResult \cup {"catching"}
                /\ intent[i].status = "executing" /\ OnlyChanges(i)
                /\ intent'[i].status = CASE call[c].pc = "reported" -> "succeeded"
                                         [] call[c].pc = "refused"  -> "blocked"
                                         [] call[c].pc \in {"asked", "deferred"}
                                                                    -> "approval_required"
                                         [] OTHER                   -> "failed"

IntentMove(c) ==
    \/ Starts(c) /\ call'[c].intent = None /\ intent' = intent
    \/ Proceeds(c) /\ intent' = intent
    \/ \E i \in Intent : Claims(c, i) \/ Closes(c, i)

\* completeA2ACapabilityIntentExecution writes one row, or none.
LEMMA CompletedRow ==
    ASSUME TypeOK, NEW c \in Call, NEW s, NEW n, intent' = Completed(c, s, n)
    PROVE  \/ intent' = intent
           \/ /\ call[c].intent \in Intent
              /\ intent[call[c].intent].status = "executing"
              /\ intent'[call[c].intent].status = s
              /\ OnlyChanges(call[c].intent)
<1>1. call[c].intent \in Intent \cup {None} /\ intent \in [Intent -> IntentRow]
  BY DEF TypeOK, CallState
<1> QED
  BY <1>1 DEF Completed, OnlyChanges

LEMMA IntentMoves ==
    ASSUME TypeInv, [Next]_vars
    PROVE  \/ /\ UNCHANGED <<call, performed>>
              /\ intent' = intent \/ \E i \in Intent : Reserves(i)
           \/ \E c \in Call : StepOf(c) /\ IntentMove(c)
<1> USE ConstantsAssumption
<1>1. intent \in [Intent -> IntentRow] /\ call \in [Call -> CallState]
  BY DEF TypeInv, TypeOK
<1>2. ASSUME NEW i \in Intent, ReserveIntent(i)
      PROVE  UNCHANGED <<call, performed>> /\ Reserves(i)
  BY <1>1, <1>2 DEF ReserveIntent, Reserves, OnlyChanges, IntentRow
<1>3. ASSUME NEW c \in Call, NEW n \in Approval \cup {None}, NEW i \in Intent,
             ClaimIntent(c, i, n)
      PROVE  StepOf(c) /\ IntentMove(c)
  <2>1. call'[c].intent = i /\ Starts(c) /\ StepOf(c)
    BY <1>1, <1>3 DEF ClaimIntent, Starts, StepOf, Keeps, Idle
  <2>2. intent'[i].status = "executing" /\ OnlyChanges(i)
    <3> DEFINE r == [intent[i] EXCEPT !.status = "executing",
                                      !.approval = IF n = None THEN @ ELSE n]
    <3>1. intent' = [intent EXCEPT ![i] = r]
      BY <1>1, <1>3 DEF ClaimIntent
    <3>2. r.status = "executing"
      BY <1>1 DEF IntentRow
    <3> QED
      BY <1>1, <3>1, <3>2 DEF OnlyChanges
  <2>3. intent[i].status \in {"pending", "approval_required"}
    BY <1>3 DEF ClaimIntent, Claimable
  <2> QED
    BY <2>1, <2>2, <2>3 DEF IntentMove, Claims
<1>4. ASSUME NEW c \in Call, NEW n \in Approval \cup {None}, NEW a \in Action,
             CallTool(c, a, n)
      PROVE  StepOf(c) /\ IntentMove(c)
  <2>1. call'[c].intent = None /\ Starts(c) /\ StepOf(c)
    BY <1>1, <1>4 DEF CallTool, Starts, StepOf, Keeps, Idle
  <2> QED
    BY <1>4, <2>1 DEF CallTool, IntentMove
<1>5. ASSUME NEW c \in Call, CallStep(c) PROVE StepOf(c) /\ IntentMove(c)
  <2>1. StepOf(c)
    BY <1>5, StepOfCall
  <2>2. call[c].pc # "idle"
    BY <1>5 DEF CallStep, EnterGateway, Evaluate, ReadApproval, ConsumeApproval,
       RequestApproval, AskFails, BookReceipt, Perform, Defer, PerformFails, Report,
       GiveUp, Conclude, ConcludeFails, HasResult, CatchError, Crash
  <2>3. Proceeds(c)
    BY <2>1, <2>2 DEF StepOf, Starts
  <2>4. ASSUME Conclude(c) \/ ConcludeFails(c) PROVE IntentMove(c)
    <3>1. intent' = intent \/ intent' = Completed(c, Conclusion(c)[1], Conclusion(c)[2])
      BY <2>4 DEF Conclude, ConcludeFails
    <3>2. Conclusion(c)[1] = CASE call[c].pc = "reported" -> "succeeded"
                               [] call[c].pc = "refused"  -> "blocked"
                               [] call[c].pc \in {"asked", "deferred"}
                                                          -> "approval_required"
                               [] OTHER                   -> "failed"
      BY <2>4 DEF Conclude, ConcludeFails, Conclusion, HasResult
    <3>3. /\ call[c].pc \in HasResult
          /\ call'[c].pc \notin Working
      BY <1>1, <2>4 DEF Conclude, ConcludeFails, At, Working, CallState
    <3> QED
      BY <2>3, <3>1, <3>2, <3>3, CompletedRow DEF IntentMove, Closes, TypeInv
  <2>5. ASSUME CatchError(c) PROVE IntentMove(c)
    <3>1. intent' = intent \/ intent' = Completed(c, "failed", call[c].given)
      BY <2>5 DEF CatchError
    <3>2. call[c].pc = "catching" /\ call'[c].pc \notin Working
      BY <1>1, <2>5 DEF CatchError, At, Working, CallState
    <3> QED
      BY <2>3, <3>1, <3>2, CompletedRow DEF IntentMove, Closes, TypeInv
  <2>6. ASSUME ~Conclude(c), ~ConcludeFails(c), ~CatchError(c) PROVE intent' = intent
    BY <1>5, <2>6 DEF CallStep, EnterGateway, Evaluate, ReadApproval, ConsumeApproval,
       RequestApproval, AskFails, BookReceipt, Perform, Defer, PerformFails, Report, GiveUp,
       Crash
  <2> QED
    BY <2>1, <2>3, <2>4, <2>5, <2>6 DEF IntentMove
<1>6. ASSUME NEW n \in Approval, NEW decision \in {"approved", "rejected"},
             Decide(n, decision) \/ RunOut(n)
      PROVE  UNCHANGED <<call, performed, intent>>
  BY <1>6 DEF Decide, RunOut
<1>7. ListApprovals \/ UNCHANGED vars => UNCHANGED <<call, performed, intent>>
  BY DEF ListApprovals, vars
<1> QED
  BY <1>2, <1>3, <1>4, <1>5, <1>6, <1>7 DEF Next

-----------------------------------------------------------------------------
(* At most one request works on an intent.  The strengthening says what    *)
(* keeps others out: the intent is executing, or its row has been closed   *)
(* as failed by an earlier request's late catch block.                     *)

Occupied ==
    \A c \in Call : call[c].pc \in Working /\ call[c].intent # None =>
        intent[call[c].intent].status \in {"executing", "failed"}

ExecInv == OneExecutor /\ Occupied

LEMMA ExecStep == TypeInv /\ ExecInv /\ [Next]_vars => ExecInv'
<1> SUFFICES ASSUME TypeInv, ExecInv, [Next]_vars PROVE ExecInv'
    OBVIOUS
<1> USE ConstantsAssumption
<1>0. \A c \in Call : call[c].intent \in Intent \cup {None}
  BY DEF TypeInv, TypeOK, CallState
<1>1. CASE UNCHANGED call /\ intent' = intent
  BY <1>1 DEF ExecInv, OneExecutor, Occupied
<1>2. ASSUME UNCHANGED call, NEW i \in Intent, Reserves(i) PROVE ExecInv'
  BY <1>0, <1>2 DEF ExecInv, OneExecutor, Occupied, Reserves, OnlyChanges
<1>3. ASSUME NEW c \in Call, StepOf(c), IntentMove(c) PROVE ExecInv'
  <2>1. \A d \in Call \ {c} : call'[d] = call[d]
    BY <1>3 DEF StepOf, Keeps
  <2>2. CASE Starts(c) /\ call'[c].intent = None /\ intent' = intent
    BY <2>1, <2>2 DEF ExecInv, OneExecutor, Occupied
  <2>3. CASE Proceeds(c) /\ intent' = intent
    <3>1. /\ call'[c].intent = call[c].intent
          /\ call'[c].pc \in Working => call[c].pc \in Working
      BY <2>3 DEF Proceeds, Order
    <3> QED
      BY <2>1, <2>3, <3>1 DEF ExecInv, OneExecutor, Occupied
  <2>4. ASSUME NEW i \in Intent, Claims(c, i) PROVE ExecInv'
    <3>1. \A d \in Call : call[d].pc \in Working => call[d].intent # i
      BY <2>4 DEF Claims, ExecInv, Occupied
    <3>2. OneExecutor'
      BY <2>1, <2>4, <3>1 DEF Claims, ExecInv, OneExecutor
    <3>3. Occupied'
      BY <1>0, <2>1, <2>4, <3>1 DEF Claims, OnlyChanges, ExecInv, Occupied
    <3> QED
      BY <3>2, <3>3 DEF ExecInv
  <2>5. ASSUME NEW i \in Intent, Closes(c, i) PROVE ExecInv'
    <3>1. OneExecutor'
      BY <2>1, <2>5 DEF Closes, ExecInv, OneExecutor
    <3>2. CASE call[c].pc \in Working
      <4>1. \A d \in Call \ {c} : call[d].pc \in Working => call[d].intent # i
        BY <2>5, <3>2 DEF Closes, ExecInv, OneExecutor
      <4>2. Occupied'
        BY <1>0, <2>1, <2>5, <4>1 DEF Closes, OnlyChanges, ExecInv, Occupied
      <4> QED
        BY <3>1, <4>2 DEF ExecInv
    \* The late catch block of a request that is out of the gateway.
    <3>3. CASE call[c].pc \notin Working
      <4>1. intent'[i].status = "failed"
        BY <2>5, <3>3 DEF Closes, HasResult, Working, PC
      <4>2. Occupied'
        BY <1>0, <2>1, <2>5, <4>1 DEF Closes, OnlyChanges, ExecInv, Occupied
      <4> QED
        BY <3>1, <4>2 DEF ExecInv
    <3> QED
      BY <3>2, <3>3
  <2> QED
    BY <1>3, <2>2, <2>3, <2>4, <2>5 DEF IntentMove
<1> QED
  BY <1>1, <1>2, <1>3, IntentMoves

LEMMA ExecInit == Init => ExecInv
BY DEF Init, Idle, ExecInv, OneExecutor, Occupied, Working

\* At most one request works on an intent at any time.
THEOREM GovernedOneExecutor == Spec => []OneExecutor
<1>1. ExecInv => OneExecutor
  BY DEF ExecInv
<1> QED
  BY <1>1, ExecInit, TypeInit, TypeStep, ExecStep, PTL DEF Spec

-----------------------------------------------------------------------------
(* The row of an intent and the effect of its requests.  A call that has   *)
(* performed leaves its intent executing or closed for good, and while it  *)
(* is executing nobody else works on it; so no other request, asked or     *)
(* refused, can close it as one that awaits confirmation.  The exception   *)
(* is a call whose own tool has answered that it wants a confirmation.     *)

Open == {"absent", "pending", "approval_required"}

AnswerKept ==
    \A c \in Call :
        /\ call[c].pc \in {"answered", "reported"} =>
              c \in performed \/ call[c].defers # None
        /\ call[c].pc = "reported" => call[c].defers = None
        /\ call[c].pc = "deferred" => call[c].defers # None
        /\ call[c].defers # None => call[c].pc \in Late

EffectRecorded ==
    \A c \in performed : call[c].intent # None /\ call[c].defers = None =>
        intent[call[c].intent].status \notin Open

LastOnIntent ==
    \A c \in performed, d \in Call :
        /\ call[d].pc \in Working /\ call[d].intent = call[c].intent /\ c # d
        /\ call[c].intent # None /\ call[c].defers = None
        => intent[call[c].intent].status # "executing"

SucceededDone ==
    \A i \in Intent : intent[i].status = "succeeded" =>
        \E c \in performed : call[c].intent = i

HonestInv == AnswerKept /\ EffectRecorded /\ LastOnIntent /\ SucceededDone

LEMMA HonestStep ==
    TypeInv /\ ConsentInv /\ ExecInv /\ HonestInv /\ [Next]_vars => HonestInv'
<1> SUFFICES ASSUME TypeInv, ConsentInv, ExecInv, HonestInv, [Next]_vars
             PROVE  HonestInv'
    OBVIOUS
<1> USE ConstantsAssumption
<1>0. /\ \A c \in Call : call[c].intent \in Intent \cup {None}
      /\ None \notin Intent /\ performed \subseteq Call
  BY DEF TypeInv, TypeOK, CallState
<1>1. CASE UNCHANGED <<call, performed, intent>>
  BY <1>1 DEF HonestInv, AnswerKept, EffectRecorded, LastOnIntent, SucceededDone
<1>2. ASSUME UNCHANGED <<call, performed>>, NEW i \in Intent, Reserves(i)
      PROVE  HonestInv'
  <2>1. \A c \in performed : call[c].defers = None => call[c].intent # i
    BY <1>0, <1>2 DEF Reserves, HonestInv, EffectRecorded, Open
  <2>2. AnswerKept'
    BY <1>2 DEF HonestInv, AnswerKept
  <2>3. EffectRecorded'
    BY <1>0, <1>2, <2>1 DEF Reserves, OnlyChanges, HonestInv, EffectRecorded
  <2>4. LastOnIntent'
    BY <1>0, <1>2, <2>1 DEF Reserves, OnlyChanges, HonestInv, LastOnIntent
  <2>5. SucceededDone'
    BY <1>2 DEF Reserves, OnlyChanges, HonestInv, SucceededDone
  <2> QED
    BY <2>2, <2>3, <2>4, <2>5 DEF HonestInv
<1>3. ASSUME NEW c \in Call, StepOf(c), IntentMove(c) PROVE HonestInv'
  <2>1. \A d \in Call \ {c} : call'[d] = call[d] /\ (d \in performed' <=> d \in performed)
    BY <1>3 DEF StepOf, Keeps
  <2>2. performed' \subseteq Call
    BY <1>3, TypeStep DEF TypeInv, TypeOK
  <2>3. c \in performed => call[c].pc \in Late
    BY DEF ConsentInv, HoldsConsent
  <2>4. AnswerKept'
    <3>1. CASE Starts(c)
      BY <2>1, <3>1 DEF Starts, HonestInv, AnswerKept
    <3>2. CASE Proceeds(c)
      <4>1. call'[c].defers = call[c].defers \/ call[c].pc = "booked"
        BY <3>2 DEF Proceeds
      <4>2. call'[c].defers # None => call'[c].pc \in Late
        BY <3>2 DEF Proceeds, Order, HonestInv, AnswerKept
      <4>3. call'[c].pc \in {"reported", "deferred"} =>
               /\ call[c].pc = "answered" /\ call'[c].defers = call[c].defers
               /\ call'[c].pc = "reported" <=> call[c].defers = None
        BY <3>2, <4>1 DEF Proceeds, Order, Reported
      <4>4. call'[c].pc \in {"answered", "reported"} =>
               c \in performed' \/ call'[c].defers # None
        BY <3>2, <4>3 DEF Proceeds, Order, HonestInv, AnswerKept
      <4> QED
        BY <2>1, <4>2, <4>3, <4>4 DEF HonestInv, AnswerKept
    <3> QED
      BY <1>3, <3>1, <3>2 DEF StepOf
  \* A new request has not performed.
  <2>5. ASSUME Starts(c) PROVE c \notin performed /\ performed' = performed
    <3>1. c \notin performed /\ c \notin performed'
      BY <2>3, <2>5 DEF Starts, Late
    <3>2. \A d \in Call : d \in performed' <=> d \in performed
      BY <2>1, <3>1
    <3> QED
      BY <1>0, <2>2, <3>1, <3>2
  <2>6. CASE Starts(c) /\ call'[c].intent = None /\ intent' = intent
    <3>1. c \notin performed /\ performed' = performed
      BY <2>5, <2>6
    <3> QED
      BY <1>0, <2>1, <2>4, <2>6, <3>1 DEF HonestInv, EffectRecorded, LastOnIntent,
         SucceededDone
  <2>7. CASE Proceeds(c) /\ intent' = intent
    <3>1. /\ call'[c].intent = call[c].intent
          /\ call'[c].pc \in Working => call[c].pc \in Working
          /\ c \in performed => c \in performed'
          /\ c \in performed' => c \in performed \/ call[c].pc = "booked"
          /\ call'[c].defers = None => call[c].defers = None
      BY <2>7, <1>0 DEF Proceeds, Order, HonestInv, AnswerKept, Late
    <3>2. call[c].pc = "booked" =>
             \A d \in Call \ {c} :
                call[c].intent # None /\ call[d].intent = call[c].intent
                => call[d].pc \notin Working
      BY DEF ExecInv, OneExecutor, Working, PC
    <3>3. call[c].pc = "booked" /\ call[c].intent # None =>
             intent[call[c].intent].status \in {"executing", "failed"}
      BY DEF ExecInv, Occupied, Working, PC
    <3>4. EffectRecorded'
      BY <1>0, <2>1, <2>2, <2>7, <3>1, <3>3 DEF HonestInv, EffectRecorded, Open
    <3>5. LastOnIntent'
      BY <1>0, <2>1, <2>2, <2>7, <3>1, <3>2 DEF HonestInv, LastOnIntent
    <3>6. SucceededDone'
      BY <1>0, <2>1, <2>7, <3>1 DEF HonestInv, SucceededDone
    <3> QED
      BY <2>4, <3>4, <3>5, <3>6 DEF HonestInv
  <2>8. ASSUME NEW i \in Intent, Claims(c, i) PROVE HonestInv'
    <3>1. \A d \in performed : call[d].defers = None => call[d].intent # i
      BY <1>0, <2>8 DEF Claims, HonestInv, EffectRecorded, Open
    <3>2. c \notin performed /\ performed' = performed
      BY <2>5, <2>8 DEF Claims
    <3>3. /\ call'[c].intent = i /\ intent'[i].status = "executing"
          /\ \A j \in Intent \ {i} : intent'[j] = intent[j]
      BY <2>8 DEF Claims, OnlyChanges
    <3>4. EffectRecorded'
      BY <1>0, <2>1, <3>1, <3>2, <3>3 DEF HonestInv, EffectRecorded
    <3>5. LastOnIntent'
      BY <1>0, <2>1, <3>1, <3>2, <3>3 DEF HonestInv, LastOnIntent
    <3>6. SucceededDone'
      BY <1>0, <2>1, <3>2, <3>3 DEF HonestInv, SucceededDone
    <3> QED
      BY <2>4, <3>4, <3>5, <3>6 DEF HonestInv
  <2>9. ASSUME NEW i \in Intent, Closes(c, i) PROVE HonestInv'
    <3>1. /\ call[c].intent = i /\ call'[c].intent = i
          /\ call[c].pc # "booked" /\ call'[c].pc \notin Working
          /\ intent[i].status = "executing" /\ intent'[i].status # "executing"
          /\ \A j \in Intent \ {i} : intent'[j] = intent[j]
      <4>1. call[c].intent = i /\ call'[c].intent = i /\ call'[c].pc \notin Working
        BY <2>9 DEF Closes, Proceeds
      <4>2. call[c].pc # "booked"
        BY <2>9 DEF Closes, HasResult
      <4> QED
        BY <2>9, <4>1, <4>2 DEF Closes, OnlyChanges
    <3>2. performed' = performed
      <4>1. c \in performed <=> c \in performed'
        BY <2>9, <3>1 DEF Closes, Proceeds
      <4>2. \A d \in Call : d \in performed' <=> d \in performed
        BY <2>1, <4>1
      <4> QED
        BY <1>0, <2>2, <4>2
    <3>a. call'[c].defers = call[c].defers
      BY <2>9, <3>1 DEF Closes, Proceeds
    \* Only a request that has not performed, or whose tool wants to be
    \* confirmed, is asked, and no other has performed.
    <3>3. call[c].pc \in {"asked", "deferred"} =>
             \A d \in performed : call[d].defers = None => call[d].intent # i
      <4> SUFFICES ASSUME call[c].pc \in {"asked", "deferred"}, NEW d \in performed,
                          call[d].defers = None, call[d].intent = i
                   PROVE  FALSE
        OBVIOUS
      <4>1. c \notin performed \/ call[c].defers # None
        BY <2>3 DEF Late, HonestInv, AnswerKept
      <4>2. call[c].pc \in Working
        BY DEF Working, PC
      <4> QED
        BY <1>0, <3>1, <4>1, <4>2 DEF HonestInv, LastOnIntent
    <3>4. intent'[i].status \in Open => call[c].pc \in {"asked", "deferred"}
      BY <2>9 DEF Closes, Open
    <3>5. intent'[i].status = "succeeded" => c \in performed
      BY <2>9 DEF Closes, HasResult, HonestInv, AnswerKept
    <3>6. EffectRecorded'
      BY <1>0, <2>1, <3>1, <3>2, <3>3, <3>4, <3>a DEF HonestInv, EffectRecorded
    <3>7. LastOnIntent'
      BY <1>0, <2>1, <3>1, <3>2, <3>a DEF HonestInv, LastOnIntent
    <3>8. SucceededDone'
      BY <1>0, <2>1, <3>1, <3>2, <3>5 DEF HonestInv, SucceededDone
    <3> QED
      BY <2>4, <3>6, <3>7, <3>8 DEF HonestInv
  <2> QED
    BY <1>3, <2>6, <2>7, <2>8, <2>9 DEF IntentMove
<1> QED
  BY <1>1, <1>2, <1>3, IntentMoves

\* An intent shown as succeeded has had its effect, and one that is shown as
\* not yet executed, or as waiting for the user, has had none but those of
\* calls whose own tool asked the user to confirm.
THEOREM GovernedHonest == Spec => []IntentHonest
<1>1. Init => HonestInv
  BY DEF Init, Idle, HonestInv, AnswerKept, EffectRecorded, LastOnIntent, SucceededDone
<1>2. Init => ConsentInv
  BY DEF Init, Idle, ConsentInv, HoldsConsent, SpentOnce, Paid, Late
<1>3. HonestInv => IntentHonest
  <2> SUFFICES ASSUME HonestInv, NEW i \in Intent
               PROVE  /\ intent[i].status = "succeeded" =>
                            \E c \in performed : call[c].intent = i
                      /\ intent[i].status \in Open =>
                            \A c \in performed : call[c].intent = i =>
                               call[c].defers # None
    BY DEF IntentHonest, Open
  <2>1. i # None
    BY ConstantsAssumption
  <2> QED
    BY <2>1 DEF HonestInv, SucceededDone, EffectRecorded
<1> QED
  BY <1>1, <1>2, <1>3, ExecInit, TypeInit, TypeStep, ConsentStep, ExecStep, HonestStep,
     PTL DEF Spec

-----------------------------------------------------------------------------
(* Rejected confirmations.  An intent is confirmed with one approval for   *)
(* all its requests: the first request, which names none, is alone on the  *)
(* intent until it has asked; every later one names the approval the       *)
(* intent waits for, finds it in the table, and so asks for, or consumes,  *)
(* no other.  What it then consumed is not rejected.  All this is said of  *)
(* the intents none of whose tools has asked for a confirmation itself: it *)
(* may name any approval, or none that exists.                             *)

Known(n) == n \in Approval /\ approval[n].status # "absent"

Waiting == {"checking", "consuming", "requesting", "asked"}

\* The row of an intent names an approval only of a confirmed action.
RowLinked(i) ==
    /\ intent[i].approval # None =>
          Known(intent[i].approval) /\ ActionOf[i] \in Confirmed
    /\ intent[i].status \in {"absent", "pending"} =>
          intent[i].approval = None /\ \A c \in Call : call[c].intent # i

\* What a request holds of its own.
HandLinked(c) ==
    /\ call[c].action = ActionOf[call[c].intent]
    /\ call[c].pc \in Waiting => call[c].action \in Confirmed
    /\ call[c].pc = "requesting" => call[c].given = None
    /\ call[c].pc \in {"consuming", "asked"} => Known(call[c].seen)
    /\ call[c].given # None =>
          /\ Known(call[c].given) /\ call[c].action \in Confirmed
          /\ call[c].pc \in {"consuming", "asked"} => call[c].seen = call[c].given
          /\ call[c].spent \in {None, call[c].given}

\* What a request has in common with the row of its intent i.
IntentLinked(c, i) ==
    /\ call[c].given # None =>
          /\ intent[i].approval \in {None, call[c].given}
          /\ intent[i].status \in {"executing", "approval_required"} =>
                intent[i].approval = call[c].given
    /\ call[c].given = None /\ (call[c].pc \in Working \/ c \in performed) =>
          intent[i].approval = None /\ \A d \in Call \ {c} : call[d].intent # i

Undeferred(i) == \A c \in Call : call[c].intent = i => call[c].defers = None

LinkedAll(i) ==
    RowLinked(i) /\ \A c \in Call : call[c].intent = i =>
                       HandLinked(c) /\ IntentLinked(c, i)

LinkInv == \A i \in Intent : Undeferred(i) => LinkedAll(i)

\* No approval leaves the table.
LEMMA KnownStays ==
    ASSUME TypeInv, [Next]_vars, NEW m, Known(m)
    PROVE  Known(m)'
<1>1. m \in Approval /\ approval[m].status # "absent"
  BY DEF Known
<1>2. /\ approval \in [Approval -> ApprovalRow] /\ Expired \in [Approval -> ApprovalRow]
      /\ Expired[m].status # "absent"
  BY <1>1, ExpiredType, ExpiredRow DEF TypeInv, TypeOK
<1>3. ASSUME NEW n \in Approval, NEW r \in ApprovalRow,
             approval' = [approval EXCEPT ![n] = r] \/ approval' = [Expired EXCEPT ![n] = r],
             n = m => r.status # "absent"
      PROVE  approval'[m].status # "absent"
  BY <1>1, <1>2, <1>3
<1>4. ASSUME NEW n \in Approval
      PROVE  [approval[n] EXCEPT !.status = "consumed", !.live = FALSE].status # "absent"
  BY <1>2 DEF ApprovalRow
<1>5. ASSUME NEW n \in Approval, Consumed(n) = approval'
      PROVE  approval'[m].status # "absent"
  BY <1>1, <1>2, <1>4, <1>5 DEF Consumed, ApprovalRow
<1>6. ASSUME NEW n \in Approval, NEW decision \in {"approved", "rejected"},
             approval' = [Expired EXCEPT ![n] = DecidedRow(n, decision)]
      PROVE  approval'[m].status # "absent"
  BY <1>1, <1>2, <1>6 DEF DecidedRow, ApprovalRow
<1>7. ASSUME NEW n \in Approval,
             approval' = [approval EXCEPT ![n] = [approval[n] EXCEPT !.late = TRUE]]
      PROVE  approval'[m].status # "absent"
  BY <1>1, <1>2, <1>7 DEF ApprovalRow
<1>8. ASSUME NEW c \in Call, NEW n \in Approval, approval[n].status = "absent",
             approval' = [Expired EXCEPT ![n] = NewApproval(c)]
      PROVE  approval'[m].status # "absent"
  BY <1>1, <1>2, <1>8
<1>9. approval'[m].status # "absent"
  BY <1>1, <1>2, <1>5, <1>6, <1>7, <1>8, ApprovalMoves DEF ApprovalMove
<1> QED
  BY <1>1, <1>9 DEF Known

\* A request keeps its intent and the approval it was given, and what it
\* reads, asks for and consumes is that approval if there is one.
LEMMA HandMoves ==
    ASSUME TypeInv, OneLiveApproval, [Next]_vars, NEW c \in Call, CallStep(c),
           ~Defer(c), call[c].intent \in Intent, HandLinked(c)
    PROVE  /\ call'[c].given = call[c].given /\ call'[c].intent = call[c].intent
           /\ HandLinked(c)'
<1> USE ConstantsAssumption
<1> DEFINE Goal == /\ call'[c].given = call[c].given
                   /\ call'[c].intent = call[c].intent
                   /\ HandLinked(c)'
<1>1. /\ call \in [Call -> CallState] /\ call[c] \in CallState
      /\ approval \in [Approval -> ApprovalRow]
  BY DEF TypeInv, TypeOK
<1>2. \A n : Known(n) => Known(n)'
  BY KnownStays
\* Out of the approval's check.
<1>3. ASSUME NEW pc \in PC \ Waiting, call' = At(c, pc) PROVE Goal
  <2>1. /\ call'[c].pc = pc /\ call'[c].given = call[c].given
        /\ call'[c].intent = call[c].intent /\ call'[c].action = call[c].action
        /\ call'[c].seen = call[c].seen /\ call'[c].spent = call[c].spent
    BY <1>1, <1>3 DEF At, CallState
  <2> QED
    BY <1>2, <2>1 DEF HandLinked, Waiting
<1>4. CASE Evaluate(c)
  <2>1. ASSUME NEW p \in Principal,
               call' = [call EXCEPT ![c].principal = p,
                           ![c].pc = IF call[c].action \in Confirmed
                                     THEN "checking" ELSE "allowed"]
        PROVE  Goal
    <3>1. call'[c] = [call[c] EXCEPT !.principal = p,
                         !.pc = IF call[c].action \in Confirmed
                                THEN "checking" ELSE "allowed"]
      BY <1>1, <2>1
    <3>2. /\ call'[c].pc = IF call[c].action \in Confirmed THEN "checking" ELSE "allowed"
          /\ call'[c].given = call[c].given /\ call'[c].intent = call[c].intent
          /\ call'[c].action = call[c].action /\ call'[c].spent = call[c].spent
      BY <1>1, <3>1 DEF CallState
    <3> QED
      BY <1>2, <3>2 DEF HandLinked, Waiting
  <2> QED
    BY <1>3, <1>4, <2>1 DEF Evaluate, PC, Waiting
<1>5. CASE ReadApproval(c)
  <2>1. call[c].pc = "checking" /\ call[c].action \in Confirmed
    BY <1>5 DEF ReadApproval, HandLinked, Waiting
  <2>2. ASSUME NEW n \in Consulted(c), NEW pc \in {"consuming", "asked", "refused"},
               call' = [call EXCEPT ![c].seen = n, ![c].pc = pc]
        PROVE  Goal
    <3>1. Known(n) /\ (call[c].given # None => n = call[c].given)
      <4>1. n \in Approval
        BY ConsultedType DEF TypeInv
      <4> QED
        BY <4>1 DEF Consulted, Active, Undecided, Known
    <3>2. call'[c] = [call[c] EXCEPT !.seen = n, !.pc = pc]
      BY <1>1, <2>2
    <3>3. /\ call'[c].pc = pc /\ call'[c].seen = n
          /\ call'[c].given = call[c].given /\ call'[c].intent = call[c].intent
          /\ call'[c].action = call[c].action /\ call'[c].spent = call[c].spent
      BY <1>1, <3>2 DEF CallState
    <3> QED
      BY <1>2, <2>1, <3>1, <3>3 DEF HandLinked
  <2>3. ASSUME Consulted(c) = {}, call' = At(c, "requesting") PROVE Goal
    <3>1. call[c].given = None
      BY <2>3 DEF Consulted, HandLinked, Known
    <3>2. /\ call'[c].pc = "requesting" /\ call'[c].given = call[c].given
          /\ call'[c].intent = call[c].intent /\ call'[c].action = call[c].action
          /\ call'[c].spent = call[c].spent
      BY <1>1, <2>3 DEF At, CallState
    <3> QED
      BY <1>2, <2>1, <3>1, <3>2 DEF HandLinked
  <2>4. ASSUME call' = At(c, "refused") PROVE Goal
    BY <1>3, <2>4 DEF PC, Waiting
  <2>5. \/ \E n \in Consulted(c), pc \in {"consuming", "asked", "refused"} :
              call' = [call EXCEPT ![c].seen = n, ![c].pc = pc]
        \/ Consulted(c) = {} /\ call' = At(c, "requesting")
        \/ call' = At(c, "refused")
    BY <1>5 DEF ReadApproval
  <2> QED
    BY <2>2, <2>3, <2>4, <2>5
<1>6. CASE ConsumeApproval(c)
  <2>1. ASSUME call' = [call EXCEPT ![c].pc = "allowed", ![c].spent = call[c].seen]
        PROVE  Goal
    <3>1. call'[c] = [call[c] EXCEPT !.pc = "allowed", !.spent = call[c].seen]
      BY <1>1, <2>1
    <3>2. /\ call'[c].pc = "allowed" /\ call'[c].spent = call[c].seen
          /\ call'[c].given = call[c].given /\ call'[c].intent = call[c].intent
          /\ call'[c].action = call[c].action
      BY <1>1, <3>1 DEF CallState
    <3> QED
      BY <1>2, <1>6, <3>2 DEF ConsumeApproval, HandLinked, Waiting
  <2>2. ASSUME call' = At(c, "refused") PROVE Goal
    BY <1>3, <2>2 DEF PC, Waiting
  <2> QED
    BY <1>6, <2>1, <2>2 DEF ConsumeApproval
<1>7. CASE RequestApproval(c)
  <2>1. /\ call[c].pc = "requesting" /\ call[c].given = None
        /\ call[c].action \in Confirmed
    BY <1>7 DEF RequestApproval, HandLinked, Waiting
  <2>2. ASSUME NEW n \in Approval, approval'[n].status # "absent",
               call' = [call EXCEPT ![c].pc = "asked", ![c].seen = n]
        PROVE  Goal
    <3>1. call'[c] = [call[c] EXCEPT !.pc = "asked", !.seen = n]
      BY <1>1, <2>2
    <3>2. /\ call'[c].pc = "asked" /\ call'[c].seen = n
          /\ call'[c].given = call[c].given /\ call'[c].intent = call[c].intent
          /\ call'[c].action = call[c].action /\ call'[c].spent = call[c].spent
      BY <1>1, <3>1 DEF CallState
    <3> QED
      BY <2>1, <2>2, <3>2 DEF HandLinked, Known
  <2>3. ASSUME NEW n \in BindingHeld(Expired, call[c].action)
        PROVE  n \in Approval /\ approval[n].status # "absent"
    BY ExpiredRow DEF BindingHeld, TypeInv, OneLiveApproval, Undecided
  <2>4. ASSUME NEW n \in Approval, approval' = [Expired EXCEPT ![n] = NewApproval(c)]
        PROVE  approval'[n].status # "absent"
    <3>1. Expired \in [Approval -> ApprovalRow]
      BY ExpiredType DEF TypeInv
    <3> QED
      BY <2>4, <3>1 DEF NewApproval
  <2>5. ASSUME NEW n \in BindingHeld(Expired, call[c].action),
               call' = [call EXCEPT ![c].pc = "asked", ![c].seen = n]
        PROVE  Goal
    BY <1>2, <2>2, <2>3, <2>5 DEF Known
  <2>6. ASSUME call' = At(c, "refused") PROVE Goal
    BY <1>3, <2>6 DEF PC, Waiting
  <2> QED
    BY <1>7, <2>2, <2>4, <2>5, <2>6 DEF RequestApproval
<1>8. CASE ~(Evaluate(c) \/ ReadApproval(c) \/ ConsumeApproval(c) \/ RequestApproval(c))
  <2>1. \E pc \in PC \ Waiting : call' = At(c, pc)
    BY <1>8 DEF CallStep, EnterGateway, AskFails, BookReceipt, Perform, PerformFails,
       Report, Reported, GiveUp, Conclude, ConcludeFails, CatchError, Crash, PC, Waiting
  <2> QED
    BY <1>3, <2>1
<1> QED
  BY <1>4, <1>5, <1>6, <1>7, <1>8

\* What a request writes into the row of its intent: only "asked" names
\* another approval than the request was given.
ClosesWith(c, i) ==
    /\ intent[i].status = "executing" /\ OnlyChanges(i)
    /\ call'[c].pc \notin Working
    /\ intent'[i].status \notin {"absent", "pending", "executing"}
    /\ \/ call[c].pc = "asked" /\ intent'[i].approval = call[c].seen
       \/ /\ call[c].pc # "asked" /\ intent'[i].approval = call[c].given
          /\ intent'[i].status # "approval_required"

LEMMA IntentRowMoves ==
    ASSUME TypeInv, NEW c \in Call, CallStep(c), call[c].pc # "deferred",
           intent' # intent
    PROVE  call[c].intent \in Intent /\ ClosesWith(c, call[c].intent)
<1> USE ConstantsAssumption
<1>1. /\ call[c] \in CallState /\ call \in [Call -> CallState]
      /\ intent \in [Intent -> IntentRow]
      /\ call[c].intent \in Intent \cup {None}
  BY DEF TypeInv, TypeOK, CallState
<1>2. ASSUME NEW s, NEW n, intent' = Completed(c, s, n)
      PROVE  /\ call[c].intent \in Intent
             /\ intent[call[c].intent].status = "executing"
             /\ OnlyChanges(call[c].intent)
             /\ intent'[call[c].intent].status = s
             /\ intent'[call[c].intent].approval = n
  BY <1>1, <1>2 DEF Completed, OnlyChanges
<1>3. CASE Conclude(c) \/ ConcludeFails(c)
  <2>1. /\ intent' = Completed(c, Conclusion(c)[1], Conclusion(c)[2])
        /\ call[c].pc \in {"reported", "refused", "asked"}
    BY <1>3 DEF Conclude, ConcludeFails, HasResult
  <2>2. call'[c].pc \notin Working
    BY <1>1, <1>3 DEF Conclude, ConcludeFails, At, Working, CallState
  <2>3. /\ Conclusion(c)[1] \in {"succeeded", "blocked", "approval_required"}
        /\ call[c].pc = "asked" => Conclusion(c)[2] = call[c].seen
        /\ call[c].pc # "asked" => /\ Conclusion(c)[1] # "approval_required"
                                   /\ Conclusion(c)[2] = call[c].given
    BY <2>1 DEF Conclusion
  <2> QED
    BY <1>2, <2>1, <2>2, <2>3 DEF ClosesWith
<1>4. CASE CatchError(c)
  <2>1. intent' = Completed(c, "failed", call[c].given) /\ call[c].pc = "catching"
    BY <1>4 DEF CatchError
  <2>2. call'[c].pc \notin Working
    BY <1>1, <1>4 DEF CatchError, At, Working, CallState
  <2> QED
    BY <1>2, <2>1, <2>2 DEF ClosesWith
<1>5. CASE ~(Conclude(c) \/ ConcludeFails(c) \/ CatchError(c))
  BY <1>5 DEF CallStep, EnterGateway, Evaluate, ReadApproval, ConsumeApproval,
     RequestApproval, AskFails, BookReceipt, Perform, Defer, PerformFails, Report, GiveUp,
     Crash
<1> QED
  BY <1>3, <1>4, <1>5

\* A request writes the row of its own intent, if it has one.
LEMMA OwnRowMoves ==
    ASSUME TypeInv, NEW c \in Call, CallStep(c)
    PROVE  \/ intent' = intent
           \/ call[c].intent \in Intent /\ OnlyChanges(call[c].intent)
<1>1. ASSUME NEW s, NEW n, intent' = Completed(c, s, n)
      PROVE  \/ intent' = intent
             \/ call[c].intent \in Intent /\ OnlyChanges(call[c].intent)
  BY <1>1, CompletedRow DEF TypeInv
<1>2. intent' = intent \/ \E s, n : intent' = Completed(c, s, n)
  BY DEF CallStep, EnterGateway, Evaluate, ReadApproval, ConsumeApproval,
     RequestApproval, AskFails, BookReceipt, Perform, Defer, PerformFails, Report,
     GiveUp, Conclude, ConcludeFails, CatchError, Crash
<1> QED
  BY <1>1, <1>2

LEMMA LinkStep ==
    /\ TypeInv /\ OneLiveApproval /\ ConsentInv /\ ExecInv /\ HonestInv /\ LinkInv
    /\ [Next]_vars
    => LinkInv'
<1> SUFFICES ASSUME TypeInv, OneLiveApproval, ConsentInv, ExecInv, HonestInv,
                    LinkInv, [Next]_vars
             PROVE  LinkInv'
    OBVIOUS
<1> USE ConstantsAssumption
<1>0. /\ intent \in [Intent -> IntentRow] /\ call \in [Call -> CallState]
      /\ performed \subseteq Call
      /\ \A c \in Call : call[c].intent \in Intent \cup {None}
  BY DEF TypeInv, TypeOK, CallState
<1>a. \A n : Known(n) => Known(n)'
  BY KnownStays
<1>b. ASSUME NEW d \in Call, HandLinked(d), call'[d] = call[d] PROVE HandLinked(d)'
  BY <1>a, <1>b DEF HandLinked
\* The rows of the intents that nothing changes, and their requests.
<1>c. ASSUME NEW j \in Intent, LinkedAll(j), intent'[j] = intent[j],
             \A d \in Call : call'[d].intent = j <=> call[d].intent = j,
             \A d \in Call : call[d].intent = j =>
                call'[d] = call[d] /\ (d \in performed' <=> d \in performed)
      PROVE  LinkedAll(j)'
  <2>1. RowLinked(j)'
    BY <1>a, <1>c DEF LinkedAll, RowLinked
  <2>2. \A d \in Call : call[d].intent = j => HandLinked(d)'
    BY <1>b, <1>c DEF LinkedAll
  <2>3. \A d \in Call : call[d].intent = j => IntentLinked(d, j)'
    BY <1>c DEF LinkedAll, IntentLinked
  <2> QED
    BY <1>c, <2>1, <2>2, <2>3 DEF LinkedAll
<1>1. CASE UNCHANGED <<call, performed, intent>>
  BY <1>1, <1>c DEF LinkInv, Undeferred
<1>2. ASSUME NEW i \in Intent, ReserveIntent(i), NEW j \in Intent, Undeferred(j)'
      PROVE  LinkedAll(j)'
  <2>1. /\ intent[i].status = "absent" /\ UNCHANGED <<call, performed>>
        /\ intent'[i].approval = intent[i].approval
        /\ intent'[i].status = "pending"
        /\ \A k \in Intent \ {i} : intent'[k] = intent[k]
    BY <1>0, <1>2 DEF ReserveIntent, IntentRow
  <2>2. LinkedAll(j)
    BY <1>2, <2>1 DEF LinkInv, Undeferred
  <2>3. CASE j = i
    BY <1>a, <2>1, <2>2, <2>3 DEF LinkedAll, RowLinked
  <2> QED
    BY <1>c, <2>1, <2>2, <2>3
<1>3. ASSUME NEW c \in Call, NEW n \in Approval \cup {None}, NEW i \in Intent,
             ClaimIntent(c, i, n), NEW j \in Intent, Undeferred(j)'
      PROVE  LinkedAll(j)'
  <2>1. /\ Claimable(i, n) /\ performed' = performed /\ call[c].pc = "idle"
        /\ \A d \in Call \ {c} : call'[d] = call[d]
        /\ \A k \in Intent \ {i} : intent'[k] = intent[k]
    BY <1>0, <1>3 DEF ClaimIntent
  <2>2. /\ call'[c].pc = "claimed" /\ call'[c].intent = i
        /\ call'[c].action = ActionOf[i] /\ call'[c].given = n
        /\ call'[c].spent = None
    BY <1>0, <1>3 DEF ClaimIntent, Idle
  <2>a. call[c].defers = None /\ c \notin performed
    BY <2>1 DEF HonestInv, AnswerKept, ConsentInv, HoldsConsent, Late
  <2>b. LinkedAll(j)
    BY <1>3, <2>1, <2>a DEF LinkInv, Undeferred
  <2>c. CASE j # i
    \* If the idle request was one of j's it now is not.
    <3>1. RowLinked(j)'
      BY <1>a, <2>1, <2>2, <2>b, <2>c DEF LinkedAll, RowLinked
    <3>2. ASSUME NEW d \in Call \ {c}, call[d].intent = j
          PROVE  HandLinked(d)' /\ IntentLinked(d, j)'
      <4>1. HandLinked(d)' /\ IntentLinked(d, j)
        BY <1>b, <2>1, <2>b, <3>2 DEF LinkedAll
      <4> QED
        BY <2>1, <2>2, <2>c, <4>1 DEF IntentLinked
    <3> QED
      BY <2>1, <2>2, <2>c, <3>1, <3>2 DEF LinkedAll
  <2>d. CASE j = i
    <3>0. RowLinked(i)
      BY <2>b, <2>d DEF LinkedAll
    <3>3. intent'[i].status = "executing" /\ intent'[i].approval = intent[i].approval
      <4> DEFINE r == [intent[i] EXCEPT !.status = "executing",
                                        !.approval = IF n = None THEN @ ELSE n]
      <4>1. intent' = [intent EXCEPT ![i] = r]
        BY <1>0, <1>3 DEF ClaimIntent
      <4>2. r.status = "executing" /\ r.approval = intent[i].approval
        BY <1>0, <2>1 DEF IntentRow, Claimable
      <4> QED
        BY <1>0, <4>1, <4>2
    <3>4. /\ intent[i].approval = n
          /\ intent[i].status \in {"pending", "approval_required"}
          /\ n = None => intent[i].status = "pending"
      BY <2>1, <3>0 DEF Claimable, RowLinked
    <3>5. RowLinked(i)'
      BY <1>a, <2>1, <2>2, <3>0, <3>3 DEF RowLinked
    <3>6. HandLinked(c)'
      <4>1. n # None => Known(n)' /\ ActionOf[i] \in Confirmed
        BY <1>a, <3>0, <3>4 DEF RowLinked
      <4> QED
        BY <2>2, <4>1 DEF HandLinked, Waiting
    <3>7. IntentLinked(c, i)'
      BY <2>1, <2>2, <3>0, <3>3, <3>4 DEF IntentLinked, RowLinked
    <3>8. ASSUME NEW d \in Call \ {c}, call[d].intent = i
          PROVE  HandLinked(d)' /\ IntentLinked(d, i)'
      <4>0. HandLinked(d) /\ IntentLinked(d, i)
        BY <2>b, <2>d, <3>8 DEF LinkedAll
      <4>1. HandLinked(d)'
        BY <1>b, <2>1, <4>0
      <4>2. intent[i].status = "approval_required"
        BY <3>0, <3>4, <3>8 DEF RowLinked
      <4>3. call[d].defers = None
        BY <1>3, <2>1, <2>d, <3>8 DEF Undeferred
      <4>4. call[d].pc \notin Working /\ d \notin performed
        BY <3>8, <4>2, <4>3 DEF ExecInv, Occupied, HonestInv, EffectRecorded, Open
      <4>5. call[d].given # None => intent[i].approval = call[d].given
        BY <4>0, <4>2 DEF IntentLinked
      <4>6. IntentLinked(d, i)'
        BY <2>1, <3>3, <4>4, <4>5 DEF IntentLinked
      <4> QED
        BY <4>1, <4>6
    <3> QED
      BY <2>1, <2>2, <2>d, <3>5, <3>6, <3>7, <3>8 DEF LinkedAll
  <2> QED
    BY <2>c, <2>d
\* A request without an intent concerns no row, and shares none.
<1>4. ASSUME NEW c \in Call, call'[c].intent = None, NEW j \in Intent,
             intent' = intent, \A d \in Call \ {c} : Keeps(d), LinkedAll(j)
      PROVE  LinkedAll(j)'
  <2>1. \A d \in Call \ {c} : call'[d] = call[d] /\ (d \in performed' <=> d \in performed)
    BY <1>4 DEF Keeps
  <2>2. /\ \A d \in Call : call'[d].intent = call[d].intent \/ call'[d].intent = None
        /\ j # None
    BY <1>4, <2>1
  <2>3. RowLinked(j)'
    BY <1>4, <1>a, <2>2 DEF LinkedAll, RowLinked
  <2>4. ASSUME NEW d \in Call \ {c}, call[d].intent = j
        PROVE  HandLinked(d)' /\ IntentLinked(d, j)'
    <3>1. HandLinked(d)' /\ IntentLinked(d, j)
      BY <1>4, <1>b, <2>1, <2>4 DEF LinkedAll
    <3>2. IntentLinked(d, j)'
      BY <1>4, <2>1, <2>2, <3>1 DEF IntentLinked
    <3> QED
      BY <3>1, <3>2
  <2> QED
    BY <1>4, <2>1, <2>2, <2>3, <2>4 DEF LinkedAll
<1>5. ASSUME NEW c \in Call, NEW n \in Approval \cup {None}, NEW a \in Action,
             CallTool(c, a, n), NEW j \in Intent, Undeferred(j)'
      PROVE  LinkedAll(j)'
  <2>1. /\ call[c].pc = "idle" /\ call'[c].intent = None /\ intent' = intent
        /\ \A d \in Call \ {c} : Keeps(d)
    BY <1>0, <1>5 DEF CallTool, Keeps, Idle
  <2>2. call[c].defers = None
    BY <2>1 DEF HonestInv, AnswerKept, Late
  <2>3. Undeferred(j)
    BY <1>5, <2>1, <2>2 DEF Undeferred, Keeps
  <2> QED
    BY <1>4, <2>1, <2>3 DEF LinkInv
<1>6. ASSUME NEW c \in Call, CallStep(c), NEW j \in Intent, Undeferred(j)'
      PROVE  LinkedAll(j)'
  <2>1. StepOf(c) /\ \A d \in Call \ {c} : Keeps(d)
    BY <1>6, StepOfCall DEF StepOf
  <2>2. Proceeds(c)
    <3>1. call[c].pc # "idle"
      BY <1>6 DEF CallStep, EnterGateway, Evaluate, ReadApproval, ConsumeApproval,
         RequestApproval, AskFails, BookReceipt, Perform, Defer, PerformFails, Report,
         GiveUp, Conclude, ConcludeFails, HasResult, CatchError, Crash
    <3> QED
      BY <2>1, <3>1 DEF StepOf, Starts
  <2>a. call'[c].intent = call[c].intent
    BY <2>2 DEF Proceeds
  <2>b. /\ call'[c].defers = None => call[c].defers = None
        /\ Defer(c) => call'[c].defers # None
    <3>1. Defer(c) => call'[c].defers # None
      BY <1>0 DEF Defer, CallState
    <3> QED
      BY <2>2, <3>1 DEF Proceeds
  <2>c. Undeferred(j)
    BY <1>6, <2>1, <2>a, <2>b DEF Undeferred, Keeps
  <2>d. LinkedAll(j)
    BY <2>c DEF LinkInv
  <2>3. CASE call[c].intent = None
    <3>1. intent' = intent
      BY <1>6, <2>3, OwnRowMoves
    <3> QED
      BY <1>4, <2>1, <2>3, <2>a, <2>d, <3>1
  <2>4. CASE call[c].intent \in Intent /\ call[c].intent # j
    <3>1. intent'[j] = intent[j]
      BY <1>6, <2>4, OwnRowMoves DEF OnlyChanges
    <3> QED
      BY <1>c, <2>1, <2>4, <2>a, <2>d, <3>1 DEF Keeps
  <2>5. CASE call[c].intent = j
    <3> DEFINE i == j
    <3>0. /\ call[c].intent # None /\ call[c].defers = None /\ ~Defer(c)
          /\ call[c].pc # "deferred"
          /\ RowLinked(i) /\ HandLinked(c) /\ IntentLinked(c, i) /\ HoldsConsent(c)
      BY <1>6, <2>5, <2>a, <2>b, <2>c, <2>d
         DEF ConsentInv, LinkedAll, Undeferred, HonestInv, AnswerKept
    <3>1. /\ call'[c].given = call[c].given /\ call'[c].intent = i /\ HandLinked(c)'
      BY <1>6, <2>5, <3>0, HandMoves
    <3>2. /\ \A d \in Call \ {c} : call'[d] = call[d] /\ (d \in performed' <=> d \in performed)
          /\ \A d \in Call : call'[d].intent = call[d].intent
      BY <2>1, <2>5, <3>1 DEF Keeps
    <3>3. /\ call'[c].pc \in Working => call[c].pc \in Working
          /\ c \in performed' => c \in performed \/ call[c].pc \in Working
          /\ call[c].pc = "asked" => c \notin performed'
      BY <2>2, <3>0 DEF Proceeds, Order, HoldsConsent, Late, Working, PC
    <3>4. intent' = intent \/ ClosesWith(c, i)
      BY <1>6, <2>5, <3>0, IntentRowMoves
    <3>5. "asked" \in Working /\ "asked" \in Waiting
      BY DEF Working, PC, Waiting
    <3>6. RowLinked(i)'
      <4>1. CASE intent' = intent
        BY <1>a, <3>0, <3>2, <4>1 DEF RowLinked
      <4>2. CASE ClosesWith(c, i)
        <5>2. call[c].action = ActionOf[i]
          BY <2>5, <3>0 DEF HandLinked
        <5>3. intent'[i].approval # None =>
                 Known(intent'[i].approval) /\ ActionOf[i] \in Confirmed
          BY <3>0, <3>5, <4>2, <5>2 DEF ClosesWith, HandLinked
        <5>4. intent'[i].approval # None => Known(intent[i].approval)'
          BY <1>a, <5>3 DEF Known
        <5> QED
          BY <4>2, <5>3, <5>4 DEF RowLinked, ClosesWith
      <4> QED
        BY <3>4, <4>1, <4>2
    <3>7. IntentLinked(c, i)'
      <4>1. CASE intent' = intent
        BY <3>0, <3>1, <3>2, <3>3, <4>1 DEF IntentLinked
      <4>2. CASE ClosesWith(c, i)
        BY <3>0, <3>1, <3>2, <3>3, <4>2 DEF IntentLinked, ClosesWith, HandLinked
      <4> QED
        BY <3>4, <4>1, <4>2
    <3>8. ASSUME NEW d \in Call \ {c}, call[d].intent = i
          PROVE  HandLinked(d)' /\ IntentLinked(d, i)'
      <4>1. HandLinked(d)' /\ IntentLinked(d, i)
        BY <1>b, <2>d, <3>2, <3>8 DEF LinkedAll
      <4>2. CASE intent' = intent
        BY <3>2, <4>1, <4>2 DEF IntentLinked
      <4>3. CASE ClosesWith(c, i)
        <5>2. call[d].given # None =>
                 /\ intent[i].approval = call[d].given
                 /\ intent'[i].approval \in {None, call[d].given}
                 /\ intent'[i].status = "approval_required" =>
                       intent'[i].approval = call[d].given
          BY <3>0, <3>5, <4>1, <4>3 DEF IntentLinked, ClosesWith, HandLinked
        <5>3. call[d].given = None => call[d].pc \notin Working /\ d \notin performed
          BY <2>5, <4>1 DEF IntentLinked
        <5>4. IntentLinked(d, i)'
          BY <3>2, <4>3, <5>2, <5>3 DEF IntentLinked, ClosesWith
        <5> QED
          BY <4>1, <5>4
      <4> QED
        BY <3>4, <4>1, <4>2, <4>3
    <3> QED
      BY <3>1, <3>2, <3>6, <3>7, <3>8 DEF LinkedAll
  <2> QED
    BY <1>0, <2>3, <2>4, <2>5
<1>7. ASSUME NEW n \in Approval, NEW decision \in {"approved", "rejected"},
             Decide(n, decision) \/ RunOut(n)
      PROVE  UNCHANGED <<call, performed, intent>>
  BY <1>7 DEF Decide, RunOut
<1>8. ListApprovals \/ UNCHANGED vars => UNCHANGED <<call, performed, intent>>
  BY DEF ListApprovals, vars
<1> QED
  BY <1>1, <1>2, <1>3, <1>5, <1>6, <1>7, <1>8 DEF Next, LinkInv

\* After the user has rejected the confirmation an intent waits for, none of
\* its requests has had, or will have, its effect.
THEOREM GovernedRejected == Spec => []RejectedNotPerformed
<1>1. Init => HonestInv /\ ConsentInv /\ OneLiveApproval
  BY DEF Init, Idle, NoApproval, HonestInv, AnswerKept, EffectRecorded, LastOnIntent,
     SucceededDone, ConsentInv, HoldsConsent, SpentOnce, Paid, Late, OneLiveApproval,
     Undecided
<1>2. Init => LinkInv
  <2> SUFFICES ASSUME Init PROVE LinkInv
      OBVIOUS
  <2>1. \A c \in Call : call[c].intent = None
    BY DEF Init, Idle
  <2>2. \A i \in Intent : RowLinked(i)
    BY <2>1, ConstantsAssumption DEF Init, RowLinked
  <2> QED
    BY <2>1, <2>2, ConstantsAssumption DEF LinkInv, LinkedAll
<1>3. TypeInv /\ ConsentInv /\ LinkInv => RejectedNotPerformed
  <2> SUFFICES ASSUME TypeInv, ConsentInv, LinkInv, NEW i \in Intent,
                      intent[i].approval # None,
                      approval[intent[i].approval].status = "rejected",
                      Undeferred(i), NEW c \in performed, call[c].intent = i
               PROVE  FALSE
    BY DEF RejectedNotPerformed, Undeferred
  <2>1. c \in Call /\ i # None
    BY ConstantsAssumption DEF TypeInv, TypeOK
  <2>2. HandLinked(c) /\ IntentLinked(c, i) /\ HoldsConsent(c)
    BY <2>1 DEF LinkInv, LinkedAll, ConsentInv
  <2>3. call[c].given # None /\ intent[i].approval = call[c].given
    BY <2>2 DEF IntentLinked
  <2>4. call[c].spent # None /\ approval[call[c].spent].status = "consumed"
    BY <2>2, <2>3 DEF HandLinked, HoldsConsent
  <2>5. call[c].spent = call[c].given
    BY <2>2, <2>3, <2>4 DEF HandLinked
  <2> QED
    BY <2>3, <2>4, <2>5
<1> QED
  BY <1>1, <1>2, <1>3, ExecInit, TypeInit, TypeStep, OneLiveStep, ConsentStep, ExecStep,
     HonestStep, LinkStep, PTL DEF Spec

=============================================================================
