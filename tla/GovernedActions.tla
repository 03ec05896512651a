--------------------------- MODULE GovernedActions ---------------------------
(***************************************************************************)
(* Business actions with side effects and the user's confirmation of them: *)
(* the capability intents that an expert agent proposed, the approvals the *)
(* user decides on, and the enterprise MCP gateway, which spends an        *)
(* approval, books a receipt under the action's idempotency key and only   *)
(* then calls the business tool.  Calls enter the gateway from the         *)
(* execute-intent route and from the agent runtime; each is one HTTP       *)
(* request of some server process, and they share nothing but MySQL.       *)
(*                                                                         *)
(* The module has one user and one adoption.  An action is a tool with its *)
(* arguments; the binding of an approval (governanceApprovalBinding) is    *)
(* the action, its fingerprint is the principal.                           *)
(***************************************************************************)
EXTENDS Integers, FiniteSets

CONSTANTS Action,      \* tool calls: server, tool and arguments
          Key,         \* tools with an idempotency key
          KeyOf,       \* [Action -> Key \cup {None}], the idempotency_key argument
          Confirmed,   \* the actions whose policy demands confirmation
          Deferring,   \* the actions whose tool may ask for a confirmation itself
          Intent,      \* capability intents of tasks that succeeded
          ActionOf,    \* [Intent -> Action], resolveA2ACapabilityIntentBinding
          Call,        \* gateway calls; bounds the requests of a behaviour
          Approval,    \* approval ids; bounds the approvals of a behaviour
          Principal,   \* principal fingerprints
          None          \* SQL NULL, an absent header

ASSUME ConstantsAssumption ==
    /\ KeyOf \in [Action -> Key \cup {None}]
    /\ Confirmed \subseteq Action /\ Deferring \subseteq Action
    /\ ActionOf \in [Intent -> Action]
    /\ None \notin Action \cup Key \cup Intent \cup Approval \cup Principal

VARIABLES approval,   \* [Approval -> ApprovalRow], governance_approvals
          intent,     \* [Intent -> IntentRow], a2a_capability_intent_executions
          receipt,    \* [Call -> Receipt], enterprise_mcp_call_receipts
          call,       \* [Call -> CallState], the requests under way
          performed   \* the calls whose business tool had its effect

vars == <<approval, intent, receipt, call, performed>>

Undecided == {"pending", "approved"}
ApprovalStatus == {"absent", "rejected", "consumed", "expired"} \cup Undecided

\* live: activeBindingKey is not NULL; late: expiresAt has passed.
ApprovalRow == [status : ApprovalStatus, action : Action \cup {None},
                principal : Principal \cup {None},
                live : BOOLEAN, late : BOOLEAN]
NoApproval == [status |-> "absent", action |-> None, principal |-> None,
               live |-> FALSE, late |-> FALSE]

IntentStatus == {"absent", "pending", "approval_required", "executing",
                 "succeeded", "failed", "blocked"}
IntentRow == [status : IntentStatus, approval : Approval \cup {None}]

Receipt == {"none", "started", "completed", "failed"}

\* Where a request is:
\*   claimed     its intent is "executing", the gateway not yet entered
\*   entered     in gatewayCall, before the policy is evaluated
\*   checking, consuming, requesting   in enforceGovernanceApproval
\*   asked       the user has to confirm `seen' first
\*   allowed     no confirmation needed, or `spent' was consumed
\*   booked      the receipt is reserved, the business tool is called
\*   answered    the tool has answered; reported: the receipt is completed;
\*   deferred    the same, but the answer says that the user has to confirm first
\*   failing     in the catch block of gatewayCall
\*   refused     gatewayCall returns an error result
\*   catching    in the catch block of the route
PC == {"idle", "claimed", "entered", "checking", "consuming", "requesting",
       "asked", "allowed", "booked", "answered", "reported", "deferred",
       "failing", "refused", "catching", "done"}

CallState == [pc : PC, intent : Intent \cup {None}, action : Action \cup {None},
              given : Approval \cup {None},       \* approvalId of the request
              principal : Principal \cup {None},  \* fingerprint it acts under
              seen : Approval \cup {None},        \* the approval it has read
              spent : Approval \cup {None},       \* the approval it consumed
              defers : Approval \cup {None}]      \* the id its tool's answer names

Idle == [pc |-> "idle", intent |-> None, action |-> None, given |-> None,
         principal |-> None, seen |-> None, spent |-> None, defers |-> None]

TypeOK ==
    /\ approval \in [Approval -> ApprovalRow]
    /\ intent \in [Intent -> IntentRow]
    /\ receipt \in [Call -> Receipt]
    /\ call \in [Call -> CallState]
    /\ performed \subseteq Call

Init ==
    /\ approval = [n \in Approval |-> NoApproval]
    /\ intent = [i \in Intent |-> [status |-> "absent", approval |-> None]]
    /\ receipt = [c \in Call |-> "none"]
    /\ call = [c \in Call |-> Idle]
    /\ performed = {}

-----------------------------------------------------------------------------
(* The tables                                                              *)

\* expireGovernanceApprovals, which listing, requesting and deciding run
\* first; only then does a late row release its binding.
Expired ==
    [n \in Approval |->
        IF approval[n].status \in Undecided /\ approval[n].late
        THEN [approval[n] EXCEPT !.status = "expired", !.live = FALSE]
        ELSE approval[n]]

\* getActiveGovernanceApproval.
Active(a) == {n \in Approval : /\ approval[n].live /\ approval[n].action = a
                               /\ approval[n].status \in Undecided
                               /\ ~approval[n].late}

\* The approval enforceGovernanceApproval looks at: the one the request names,
\* else the live one of the action.
Consulted(c) ==
    IF call[c].given = None
    THEN Active(call[c].action)
    ELSE {n \in {call[c].given} : approval[n].status # "absent"}

\* Mutant: the principal is not compared.
ConsumableByAnyone(c, n) ==
    /\ approval[n].status = "approved" /\ ~approval[n].late
    /\ approval[n].action = call[c].action

\* The guarded UPDATE of consumeGovernanceApproval.
Consumable(c, n) ==
    /\ approval[n].status = "approved" /\ ~approval[n].late
    /\ approval[n].action = call[c].action
    /\ approval[n].principal = call[c].principal

Consumed(n) == [approval EXCEPT ![n].status = "consumed", ![n].live = FALSE]

\* Mutant: only an undecided approval holds its binding.
BindingHeldWhilePending(t, a) ==
    {n \in Approval : t[n].live /\ t[n].action = a /\ t[n].status = "pending"}

\* The rows that make the INSERT violate uk_governance_approval_active_binding.
BindingHeld(t, a) == {n \in Approval : t[n].live /\ t[n].action = a}

\* A new id is random: nobody has named it before.
Fresh(n) == /\ approval[n].status = "absent"
            /\ \A d \in Call : call[d].given # n /\ call[d].defers # n

NewApproval(c) == [status |-> "pending", action |-> call[c].action,
                   principal |-> call[c].principal, live |-> TRUE, late |-> FALSE]

\* Mutant: a decision may be revised while the approval is live.
DecidableAgain(n) == Expired[n].status \in Undecided

\* Mutant: the approval is matched by its id alone.
DecidableById(n) == Expired[n].status # "expired"

\* The guarded UPDATE of decideGovernanceApproval.
Decidable(n) == Expired[n].status = "pending"

\* Mutant: only a call that has not failed holds its key.
KeyBookedUnlessFailed(k) ==
    \E c \in Call : receipt[c] \in {"started", "completed"} /\ KeyOf[call[c].action] = k

\* uk_enterprise_mcp_call_idempotency; a NULL is never a duplicate.
KeyBooked(k) == /\ k # None
                /\ \E c \in Call : receipt[c] # "none" /\ KeyOf[call[c].action] = k

\* Mutant: an execution under way is not excluded.
ClaimableTwice(i, n) ==
    /\ intent[i].status \in {"pending", "approval_required", "executing"}
    /\ n # None => intent[i].approval = n

\* The guarded UPDATE of claimA2ACapabilityIntentExecution.
Claimable(i, n) ==
    IF n = None THEN intent[i].status = "pending"
    ELSE intent[i].status \in {"pending", "approval_required"} /\ intent[i].approval = n

\* completeA2ACapabilityIntentExecution; a call of the agent runtime has no
\* intent to complete.
Completed(c, status, n) ==
    IF call[c].intent # None /\ intent[call[c].intent].status = "executing"
    THEN [intent EXCEPT ![call[c].intent] = [status |-> status, approval |-> n]]
    ELSE intent

At(c, pc) == [call EXCEPT ![c].pc = pc]

-----------------------------------------------------------------------------
(* Requests                                                                *)

\* reserveA2ACapabilityIntentExecution inserts the row of an intent once.
ReserveIntent(i) ==
    /\ intent[i].status = "absent"
    /\ intent' = [intent EXCEPT ![i].status = "pending"]
    /\ UNCHANGED <<approval, receipt, call, performed>>

\* The execute route claims the intent, perhaps naming an approval.
ClaimIntent(c, i, n) ==
    /\ call[c].pc = "idle"
    /\ Claimable(i, n)
    /\ intent' = [intent EXCEPT ![i].status = "executing",
                                ![i].approval = IF n = None THEN @ ELSE n]
    /\ call' = [call EXCEPT ![c] = [Idle EXCEPT !.pc = "claimed", !.intent = i,
                                                !.action = ActionOf[i], !.given = n]]
    /\ UNCHANGED <<approval, receipt, performed>>

\* The audit of the request and the runtime context; either may throw.
EnterGateway(c) ==
    /\ call[c].pc = "claimed"
    /\ \E pc \in {"entered", "catching"} : call' = At(c, pc)
    /\ UNCHANGED <<approval, intent, receipt, performed>>

\* tools/call of the agent runtime, perhaps with the header x-ea-approval-id.
CallTool(c, a, n) ==
    /\ call[c].pc = "idle"
    /\ call' = [call EXCEPT ![c] = [Idle EXCEPT !.pc = "entered", !.action = a,
                                                !.given = n]]
    /\ UNCHANGED <<approval, intent, receipt, performed>>

-----------------------------------------------------------------------------
(* gatewayCall                                                             *)

\* Grants, execution authority, policy, audit, arguments, key and egress: any
\* of them may refuse or throw.  The principal is resolved here, once.
Evaluate(c) ==
    /\ call[c].pc = "entered"
    /\ \/ \E p \in Principal :
             call' = [call EXCEPT ![c].principal = p,
                         ![c].pc = IF call[c].action \in Confirmed
                                   THEN "checking" ELSE "allowed"]
       \/ call' = At(c, "refused")
    /\ UNCHANGED <<approval, intent, receipt, performed>>

\* enforceGovernanceApproval reads the approval and branches on its status.
ReadApproval(c) ==
    /\ call[c].pc = "checking"
    /\ \/ \E n \in Consulted(c) :
             call' = [call EXCEPT ![c].seen = n,
                         ![c].pc = CASE approval[n].status = "approved" -> "consuming"
                                     [] approval[n].status = "pending" -> "asked"
                                     [] OTHER -> "refused"]
       \/ Consulted(c) = {} /\ call' = At(c, "requesting")
       \/ call' = At(c, "refused")
    /\ UNCHANGED <<approval, intent, receipt, performed>>

\* What was read may have been consumed, or have run out, since.
ConsumeApproval(c) ==
    /\ call[c].pc = "consuming"
    /\ LET n == call[c].seen
       IN  IF Consumable(c, n)
           THEN /\ approval' = Consumed(n)
                /\ \/ call' = [call EXCEPT ![c].pc = "allowed", ![c].spent = n]
                   \/ call' = At(c, "refused")   \* the answer is lost
           ELSE /\ call' = At(c, "refused")
                /\ UNCHANGED approval
    /\ UNCHANGED <<intent, receipt, performed>>

\* createGovernanceApproval: another request may have been first.
RequestApproval(c) ==
    /\ call[c].pc = "requesting"
    /\ \/ \E n \in BindingHeld(Expired, call[c].action) :
             /\ approval' = Expired
             /\ call' = [call EXCEPT ![c].pc = "asked", ![c].seen = n]
       \/ /\ BindingHeld(Expired, call[c].action) = {}
          /\ \E n \in Approval :
                /\ Fresh(n)
                /\ approval' = [Expired EXCEPT ![n] = NewApproval(c)]
                /\ call' = [call EXCEPT ![c].pc = "asked", ![c].seen = n]
       \/ /\ approval' \in {approval, Expired}   \* a statement throws
          /\ call' = At(c, "refused")
    /\ UNCHANGED <<intent, receipt, performed>>

\* The audit of the question throws; the approval stays.
AskFails(c) ==
    /\ call[c].pc = "asked"
    /\ call' = At(c, "refused")
    /\ UNCHANGED <<approval, intent, receipt, performed>>

\* reserveEnterpriseMcpCall.  When the INSERT throws, the call's own row, if it
\* was committed, is taken for a duplicate.
BookReceipt(c) ==
    /\ call[c].pc = "allowed"
    /\ \/ /\ ~KeyBooked(KeyOf[call[c].action])
          /\ receipt' = [receipt EXCEPT ![c] = "started"]
          /\ \E pc \in {"booked", "refused"} : call' = At(c, pc)
       \/ /\ call' = At(c, "refused")
          /\ UNCHANGED receipt
    /\ UNCHANGED <<approval, intent, performed>>

\* callCustomMcpTool returns a result.
Perform(c) ==
    /\ call[c].pc = "booked"
    /\ performed' = performed \cup {c}
    /\ call' = At(c, "answered")
    /\ UNCHANGED <<approval, intent, receipt>>

\* The tool's answer, an error or not, carries a demand for confirmation of its
\* own: stripUntrustedEaMetadata leaves eaGovernance in it.  The id is any that
\* is well formed; one without a row is an id the platform has not issued.
Defer(c) ==
    /\ call[c].pc = "booked"
    /\ call[c].action \in Deferring
    /\ performed' \in {performed, performed \cup {c}}
    /\ \E n \in Approval :
          call' = [call EXCEPT ![c].pc = "answered", ![c].defers = n]
    /\ UNCHANGED <<approval, intent, receipt>>

\* No token, an error result, or a timeout: then the tool may have had its
\* effect all the same.
PerformFails(c) ==
    /\ call[c].pc = "booked"
    /\ performed' \in {performed, performed \cup {c}}
    /\ call' = At(c, "failing")
    /\ UNCHANGED <<approval, intent, receipt>>

Reported(c) == IF call[c].defers = None THEN "reported" ELSE "deferred"

\* completeEnterpriseMcpCall and the audit; both may throw.
Report(c) ==
    /\ call[c].pc = "answered"
    /\ \/ /\ \E status \in {"completed"} \cup IF call[c].defers = None THEN {} ELSE {"failed"} :
                receipt' = [receipt EXCEPT ![c] = status]
          /\ \E pc \in {Reported(c), "failing"} : call' = At(c, pc)
       \/ call' = At(c, "failing") /\ UNCHANGED receipt
    /\ UNCHANGED <<approval, intent, performed>>

\* The catch block overwrites the receipt, or swallows a second error.
GiveUp(c) ==
    /\ call[c].pc = "failing"
    /\ receipt' \in {receipt, [receipt EXCEPT ![c] = "failed"]}
    /\ call' = At(c, "refused")
    /\ UNCHANGED <<approval, intent, performed>>

-----------------------------------------------------------------------------
(* The end of a request                                                    *)

\* Mutant: a status that the column does not have.
ConclusionDenied(c) ==
    CASE call[c].pc = "reported" -> <<"succeeded", call[c].given>>
      [] call[c].pc = "refused"  -> <<"denied", call[c].given>>
      [] call[c].pc = "asked"    -> <<"approval_required", call[c].seen>>
      [] call[c].pc = "deferred" -> <<"approval_required", call[c].defers>>

\* Mutant: after an error the intent may be tried again.
ConclusionRetried(c) ==
    CASE call[c].pc = "reported" -> <<"succeeded", call[c].given>>
      [] call[c].pc = "refused"  -> <<"pending", call[c].given>>
      [] call[c].pc = "asked"    -> <<"approval_required", call[c].seen>>
      [] call[c].pc = "deferred" -> <<"approval_required", call[c].defers>>

\* What the route makes of the gateway's result.  It looks for a demand for
\* confirmation before anything else, and cannot tell whose it is.
Conclusion(c) ==
    CASE call[c].pc = "reported" -> <<"succeeded", call[c].given>>
      [] call[c].pc = "refused"  -> <<"blocked", call[c].given>>
      [] call[c].pc = "asked"    -> <<"approval_required", call[c].seen>>
      [] call[c].pc = "deferred" -> <<"approval_required", call[c].defers>>

HasResult == {"reported", "refused", "asked", "deferred"}

Conclude(c) ==
    /\ call[c].pc \in HasResult
    /\ intent' = Completed(c, Conclusion(c)[1], Conclusion(c)[2])
    /\ call' = At(c, "done")
    /\ UNCHANGED <<approval, receipt, performed>>

\* The UPDATE or the read after it throws.
ConcludeFails(c) ==
    /\ call[c].pc \in HasResult
    /\ call[c].intent # None
    /\ intent' \in {intent, Completed(c, Conclusion(c)[1], Conclusion(c)[2])}
    /\ call' = At(c, "catching")
    /\ UNCHANGED <<approval, receipt, performed>>

\* The route's catch block marks the intent as failed, if it can.
CatchError(c) ==
    /\ call[c].pc = "catching"
    /\ intent' \in {intent, Completed(c, "failed", call[c].given)}
    /\ call' = At(c, "done")
    /\ UNCHANGED <<approval, receipt, performed>>

\* The process of the request dies.
Crash(c) ==
    /\ call[c].pc \notin {"idle", "done"}
    /\ call' = At(c, "done")
    /\ UNCHANGED <<approval, intent, receipt, performed>>

-----------------------------------------------------------------------------
(* The user and the clock                                                  *)

\* POST decision.  The route has seen the approval pending and not yet late,
\* once; the UPDATE decides what it is worth by now.
Decide(n, decision) ==
    /\ approval[n].status # "absent"
    /\ approval' =
          IF Decidable(n)
          THEN [Expired EXCEPT ![n].status = decision,
                               ![n].live = (decision = "approved")]
          ELSE Expired
    /\ UNCHANGED <<intent, receipt, call, performed>>

\* listGovernanceApprovals.
ListApprovals ==
    /\ approval' = Expired
    /\ approval' # approval
    /\ UNCHANGED <<intent, receipt, call, performed>>

\* expiresAt, at most an hour after the request, passes.
RunOut(n) ==
    /\ approval[n].status \in Undecided
    /\ ~approval[n].late
    /\ approval' = [approval EXCEPT ![n].late = TRUE]
    /\ UNCHANGED <<intent, receipt, call, performed>>

-----------------------------------------------------------------------------
CallStep(c) ==
    \/ EnterGateway(c) \/ Evaluate(c)
    \/ ReadApproval(c) \/ ConsumeApproval(c) \/ RequestApproval(c) \/ AskFails(c)
    \/ BookReceipt(c) \/ Perform(c) \/ Defer(c) \/ PerformFails(c) \/ Report(c) \/ GiveUp(c)
    \/ Conclude(c) \/ ConcludeFails(c) \/ CatchError(c) \/ Crash(c)

Next ==
    \/ \E i \in Intent : ReserveIntent(i)
    \/ \E c \in Call, n \in Approval \cup {None} :
          \/ \E i \in Intent : ClaimIntent(c, i, n)
          \/ \E a \in Action : CallTool(c, a, n)
    \/ \E c \in Call : CallStep(c)
    \/ \E n \in Approval :
          \/ \E decision \in {"approved", "rejected"} : Decide(n, decision)
          \/ RunOut(n)
    \/ ListApprovals

Spec == Init /\ [][Next]_vars

-----------------------------------------------------------------------------
(* Safety                                                                  *)

\* "A write cannot execute until its bound approval is approved and atomically
\* consumed": whatever a confirmed action's tool has done was done under an
\* approval of this very action and principal, and no approval pays twice.
EffectUnderApproval ==
    \A c \in performed : call[c].action \in Confirmed =>
        /\ call[c].spent # None
        /\ LET r == approval[call[c].spent]
           IN  /\ r.status = "consumed"
               /\ r.action = call[c].action /\ r.principal = call[c].principal
        /\ \A d \in performed \ {c} : call[d].spent # call[c].spent

\* Repeating a request with the same idempotency key, if it has one, "must not create a second
\* business record", whether it comes from the route, from the runtime, after
\* a failure or after a crash.
OncePerKey ==
    \A c, d \in performed :
        KeyOf[call[c].action] = KeyOf[call[d].action] /\ c # d
        => KeyOf[call[c].action] = None

\* activeBindingKey lets MySQL enforce at most one live approval of an action;
\* a row that has been decided against, spent or expired has released it.
OneLiveApproval ==
    /\ \A n \in Approval :
          approval[n].live <=> approval[n].status \in Undecided
    /\ \A m, n \in Approval :
          approval[m].live /\ approval[n].live /\ approval[m].action = approval[n].action
          => m = n

\* An intent that is shown as succeeded has had its effect, and one that is
\* shown as not yet executed, or as waiting for the user, has had none, but for
\* those of calls whose own tool answered that the user has to confirm first.
IntentHonest ==
    \A i \in Intent :
        LET effects == {c \in performed : call[c].intent = i}
        IN  /\ intent[i].status = "succeeded" => effects # {}
            /\ intent[i].status \in {"absent", "pending", "approval_required"}
               => \A c \in effects : call[c].defers # None

\* When the user rejects the confirmation of an intent, the client says that
\* the platform has not executed the write; nor does it afterwards.  A tool
\* that asks for a confirmation itself may name one of another action.
RejectedNotPerformed ==
    \A i \in Intent :
        /\ intent[i].approval # None
        /\ approval[intent[i].approval].status = "rejected"
        /\ \A c \in Call : call[c].intent = i => call[c].defers = None
        => ~\E c \in performed : call[c].intent = i

Working == PC \ {"idle", "catching", "done"}

\* At most one request works on an intent: claiming is exclusive, and what a
\* late catch block writes never lets a second one in.
OneExecutor ==
    \A c, d \in Call :
        /\ call[c].pc \in Working /\ call[d].pc \in Working
        /\ call[c].intent = call[d].intent /\ c # d
        => call[c].intent = None

\* The statuses of an approval only move forward, and it is consumed only from
\* approved and before it runs out.
ApprovalLifecycle ==
    [][\A n \in Approval :
          approval'[n].status # approval[n].status =>
             CASE approval[n].status = "absent" -> approval'[n].status = "pending"
               [] approval[n].status = "pending" ->
                     approval'[n].status \in {"approved", "rejected", "expired"}
               [] approval[n].status = "approved" ->
                     \/ approval'[n].status = "expired"
                     \/ approval'[n].status = "consumed" /\ ~approval[n].late
               [] OTHER -> FALSE]_vars

\* What a consent and an offer are worth to the user: one that is late is over,
\* although the table may still hold it as pending or approved.
ConsentState(r) ==
    IF r.status \in Undecided /\ r.late THEN "lapsed"
    ELSE CASE r.status = "pending"  -> "asked"
           [] r.status = "approved" -> "granted"
           [] r.status = "rejected" -> "refused"
           [] r.status = "consumed" -> "spent"
           [] r.status = "expired"  -> "lapsed"
           [] OTHER -> "absent"

OfferState(r) ==
    CASE r.status \in {"pending", "approval_required"} -> "waiting"
      [] r.status = "executing" -> "working"
      [] r.status = "succeeded" -> "done"
      [] OTHER -> r.status

\* The governance as the user sees it.
Ledger == INSTANCE ConsentLedger WITH
             consent <- [n \in Approval |-> ConsentState(approval[n])],
             wanted <- [n \in Approval |-> [action |-> approval[n].action,
                                            principal |-> approval[n].principal]],
             order <- [c \in Call |-> [action |-> call[c].action, intent |-> call[c].intent,
                                       principal |-> call[c].principal,
                                       right |-> call[c].spent,
                                       deferred |-> call[c].defers # None]],
             active <- {c \in Call : call[c].pc \in Working},
             offer <- [i \in Intent |-> OfferState(intent[i])],
             acted <- performed

\* Every step of requests, sweeps, decisions and crashes is a step of the ledger
\* or none: whatever is read apart, lost or retried, consents are decided and
\* spent once and in time, and effects come of orders that have the right.
ImplementsConsent == Ledger!LedgerSpec

-----------------------------------------------------------------------------
(* What the repository says and the code does not do                       *)

\* The route closes an intent as "blocked" with GOVERNED_EXECUTION_DENIED and
\* audits it as denied, and "a DENY decision never reaches the remote
\* executor": so a blocked intent has had no effect.
BlockedMeansDenied ==
    \A i \in Intent : intent[i].status = "blocked" =>
        ~\E c \in performed : call[c].intent = i

=============================================================================
