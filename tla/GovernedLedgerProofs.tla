-------------------------- MODULE GovernedLedgerProofs --------------------------
(* GovernedActions implements ConsentLedger, for every choice of the       *)
(* constants: every step of requests, sweeps, decisions and crashes is a   *)
(* step of the ledger, or none.                                            *)
EXTENDS GovernedActionsProofs

-----------------------------------------------------------------------------
(* A request on its way through the gateway: nothing is known of one that  *)
(* has not begun, the principal is settled when the policy is evaluated,   *)
(* and only an action that demands confirmation consults approvals.        *)

Unbegun(c) ==
    /\ call[c].pc = "idle" => call[c] = Idle
    /\ call[c].pc \in {"claimed", "entered"} => call[c].principal = None

Identified(c) ==
    call[c].pc \in {"checking", "consuming", "requesting"} \cup Paid
    => call[c].principal \in Principal

Consulting(c) ==
    call[c].pc \in {"checking", "consuming", "requesting"}
    => call[c].action \in Confirmed

RequestInv == \A c \in Call : Unbegun(c) /\ Identified(c) /\ Consulting(c)

\* A request whose record is r is in order.
InOrder(r) ==
    /\ r.pc # "idle"
    /\ r.pc \in {"claimed", "entered"} => r.principal = None
    /\ r.pc \in {"checking", "consuming", "requesting"} \cup Paid => r.principal \in Principal
    /\ r.pc \in {"checking", "consuming", "requesting"} => r.action \in Confirmed

\* A step that ends with one request in order keeps them all so.
LEMMA InOrderKept ==
    ASSUME RequestInv, NEW c \in Call, InOrder(call'[c]),
           \A d \in Call \ {c} : call'[d] = call[d]
    PROVE  RequestInv'
BY DEF RequestInv, InOrder, Unbegun, Identified, Consulting

\* So does one that only moves the request, from a place to one of its kind.
LEMMA InOrderAt ==
    ASSUME TypeOK, RequestInv, NEW c \in Call, NEW pc \in PC, call' = At(c, pc),
           pc \notin {"idle", "claimed", "checking", "consuming"},
           pc = "entered" => call[c].pc = "claimed",
           pc = "requesting" => call[c].pc = "checking",
           pc \in Paid => call[c].pc \in Paid
    PROVE  RequestInv'
<1>1. /\ \A d \in Call \ {c} : call'[d] = call[d]
      /\ call'[c].pc = pc /\ call'[c].action = call[c].action
      /\ call'[c].principal = call[c].principal
  BY AtFacts
<1>2. Unbegun(c) /\ Identified(c) /\ Consulting(c)
  BY DEF RequestInv
<1>3. InOrder(call'[c])
  BY <1>1, <1>2 DEF InOrder, Unbegun, Identified, Consulting
<1> QED
  BY <1>1, <1>3, InOrderKept

LEMMA RequestStep == TypeInv /\ RequestInv /\ [Next]_vars => RequestInv'
<1> SUFFICES ASSUME TypeInv, RequestInv, [Next]_vars PROVE RequestInv'
    OBVIOUS
<1> USE ConstantsAssumption
<1>0. TypeOK /\ call \in [Call -> CallState]
  BY DEF TypeInv, TypeOK
<1>1. CASE UNCHANGED call
  BY <1>1 DEF RequestInv, Unbegun, Identified, Consulting
<1>2. ASSUME NEW c \in Call, NEW n \in Approval \cup {None}, NEW i \in Intent,
             ClaimIntent(c, i, n)
      PROVE  RequestInv'
  <2>1. InOrder(call'[c]) /\ \A d \in Call \ {c} : call'[d] = call[d]
    BY <1>0, <1>2 DEF ClaimIntent, Idle, InOrder, Paid
  <2> QED
    BY <2>1, InOrderKept
<1>3. ASSUME NEW c \in Call, NEW n \in Approval \cup {None}, NEW a \in Action,
             CallTool(c, a, n)
      PROVE  RequestInv'
  <2>1. InOrder(call'[c]) /\ \A d \in Call \ {c} : call'[d] = call[d]
    BY <1>0, <1>3 DEF CallTool, Idle, InOrder, Paid
  <2> QED
    BY <2>1, InOrderKept
<1>4. ASSUME NEW c \in Call, CallStep(c) PROVE RequestInv'
  <2>0. Unbegun(c) /\ Identified(c) /\ Consulting(c) /\ call[c] \in CallState
    BY <1>0 DEF RequestInv
  <2>1. CASE EnterGateway(c)
    <3>1. PICK pc \in {"entered", "catching"} : call' = At(c, pc)
      BY <2>1 DEF EnterGateway
    <3>2. call[c].pc = "claimed" /\ pc \in PC
      BY <2>1 DEF EnterGateway, PC
    <3> QED
      BY <1>0, <3>1, <3>2, InOrderAt DEF Paid
  <2>2. CASE Evaluate(c)
    <3>1. ASSUME NEW p \in Principal,
                 call' = [call EXCEPT ![c].principal = p,
                             ![c].pc = IF call[c].action \in Confirmed
                                       THEN "checking" ELSE "allowed"]
          PROVE  RequestInv'
      <4> DEFINE pc == IF call[c].action \in Confirmed THEN "checking" ELSE "allowed"
      <4>1. /\ call'[c] = [call[c] EXCEPT !.principal = p, !.pc = pc]
            /\ \A d \in Call \ {c} : call'[d] = call[d]
        BY <1>0, <3>1
      <4>2. /\ call'[c].pc = pc /\ call'[c].principal = p
            /\ call'[c].action = call[c].action
        BY <2>0, <4>1 DEF CallState
      <4>3. InOrder(call'[c])
        BY <4>2 DEF InOrder, Paid
      <4> QED
        BY <4>1, <4>3, InOrderKept
    <3>2. CASE call' = At(c, "refused")
      BY <1>0, <3>2, InOrderAt DEF PC, Paid
    <3> QED
      BY <2>2, <3>1, <3>2 DEF Evaluate
  <2>3. CASE ReadApproval(c)
    <3>1. ASSUME NEW n, NEW pc \in {"consuming", "asked", "refused"},
                 call' = [call EXCEPT ![c].seen = n, ![c].pc = pc]
          PROVE  RequestInv'
      <4>1. /\ call'[c] = [call[c] EXCEPT !.seen = n, !.pc = pc]
            /\ \A d \in Call \ {c} : call'[d] = call[d]
        BY <1>0, <3>1
      <4>2. /\ call'[c].pc = pc /\ call'[c].principal = call[c].principal
            /\ call'[c].action = call[c].action
        BY <2>0, <4>1 DEF CallState
      <4>3. InOrder(call'[c])
        BY <2>0, <2>3, <4>2 DEF ReadApproval, InOrder, Identified, Consulting, Paid
      <4> QED
        BY <4>1, <4>3, InOrderKept
    <3>2. CASE call' = At(c, "requesting") \/ call' = At(c, "refused")
      BY <1>0, <2>3, <3>2, InOrderAt DEF ReadApproval, PC, Paid
    <3>3. ASSUME NEW n \in Consulted(c),
                 call' = [call EXCEPT ![c].seen = n,
                             ![c].pc = CASE approval[n].status = "approved" -> "consuming"
                                         [] approval[n].status = "pending" -> "asked"
                                         [] OTHER -> "refused"]
          PROVE  RequestInv'
      BY <3>1, <3>3
    <3> QED
      BY <2>3, <3>2, <3>3 DEF ReadApproval
  <2>4. CASE ConsumeApproval(c)
    <3>1. ASSUME call' = [call EXCEPT ![c].pc = "allowed", ![c].spent = call[c].seen]
          PROVE  RequestInv'
      <4>1. /\ call'[c] = [call[c] EXCEPT !.pc = "allowed", !.spent = call[c].seen]
            /\ \A d \in Call \ {c} : call'[d] = call[d]
        BY <1>0, <3>1
      <4>2. call'[c].pc = "allowed" /\ call'[c].principal = call[c].principal
        BY <2>0, <4>1 DEF CallState
      <4>3. InOrder(call'[c])
        BY <2>0, <2>4, <4>2 DEF ConsumeApproval, InOrder, Identified
      <4> QED
        BY <4>1, <4>3, InOrderKept
    <3>2. CASE call' = At(c, "refused")
      BY <1>0, <3>2, InOrderAt DEF PC, Paid
    <3> QED
      BY <2>4, <3>1, <3>2 DEF ConsumeApproval
  <2>5. CASE RequestApproval(c)
    <3>1. ASSUME NEW n, call' = [call EXCEPT ![c].pc = "asked", ![c].seen = n]
          PROVE  RequestInv'
      <4>1. /\ call'[c] = [call[c] EXCEPT !.pc = "asked", !.seen = n]
            /\ \A d \in Call \ {c} : call'[d] = call[d]
        BY <1>0, <3>1
      <4>2. call'[c].pc = "asked"
        BY <2>0, <4>1 DEF CallState
      <4>3. InOrder(call'[c])
        BY <4>2 DEF InOrder, Paid
      <4> QED
        BY <4>1, <4>3, InOrderKept
    <3>2. CASE call' = At(c, "refused")
      BY <1>0, <3>2, InOrderAt DEF PC, Paid
    <3> QED
      BY <2>5, <3>1, <3>2 DEF RequestApproval
  <2>6. CASE AskFails(c) \/ GiveUp(c)
    BY <1>0, <2>6, InOrderAt DEF AskFails, GiveUp, PC, Paid
  <2>7. CASE BookReceipt(c)
    <3>1. PICK pc \in {"booked", "refused"} : call' = At(c, pc)
      BY <2>7 DEF BookReceipt
    <3>2. call[c].pc \in Paid /\ pc \in PC
      BY <2>7 DEF BookReceipt, Paid, PC
    <3> QED
      BY <1>0, <3>1, <3>2, InOrderAt
  <2>8. CASE Perform(c) \/ PerformFails(c)
    BY <1>0, <2>8, InOrderAt DEF Perform, PerformFails, PC, Paid
  <2>11. CASE Defer(c)
    <3>1. ASSUME NEW n \in Approval,
                 call' = [call EXCEPT ![c].pc = "answered", ![c].defers = n]
          PROVE  RequestInv'
      <4>1. /\ call'[c] = [call[c] EXCEPT !.pc = "answered", !.defers = n]
            /\ \A d \in Call \ {c} : call'[d] = call[d]
        BY <1>0, <3>1
      <4>2. call'[c].pc = "answered" /\ call'[c].principal = call[c].principal
        BY <2>0, <4>1 DEF CallState
      <4>3. InOrder(call'[c])
        BY <2>0, <2>11, <4>2 DEF Defer, InOrder, Identified, Paid
      <4> QED
        BY <4>1, <4>3, InOrderKept
    <3> QED
      BY <2>11, <3>1 DEF Defer
  <2>9. CASE Report(c)
    <3>1. PICK pc \in {Reported(c), "failing"} : call' = At(c, pc)
      BY <2>9 DEF Report
    <3>2. /\ call[c].pc \in Paid /\ pc \in PC
          /\ pc \notin {"idle", "claimed", "checking", "consuming", "entered", "requesting"}
      BY <2>9 DEF Report, Reported, Paid, PC
    <3> QED
      BY <1>0, <3>1, <3>2, InOrderAt
  <2>10. CASE Conclude(c) \/ ConcludeFails(c) \/ CatchError(c) \/ Crash(c)
    <3>1. call' = At(c, "done") \/ call' = At(c, "catching")
      BY <2>10 DEF Conclude, ConcludeFails, CatchError, Crash
    <3> QED
      BY <1>0, <3>1, InOrderAt DEF PC, Paid
  <2> QED
    BY <1>4, <2>1, <2>2, <2>3, <2>4, <2>5, <2>6, <2>7, <2>8, <2>9, <2>10,
       <2>11 DEF CallStep
<1>5. \/ \E i \in Intent : ReserveIntent(i)
      \/ \E n \in Approval, decision \in {"approved", "rejected"} : Decide(n, decision)
      \/ \E n \in Approval : RunOut(n)
      \/ ListApprovals \/ UNCHANGED vars
      => UNCHANGED call
  BY DEF ReserveIntent, Decide, RunOut, ListApprovals, vars
<1> QED
  BY <1>1, <1>2, <1>3, <1>4, <1>5 DEF Next

-----------------------------------------------------------------------------
(* The names of the mapping, and what keeps each of them as it is.         *)

Consent == [n \in Approval |-> ConsentState(approval[n])]
Wish(r) == [action |-> r.action, principal |-> r.principal]
Wanted == [n \in Approval |-> Wish(approval[n])]
OrderOf(r) == [action |-> r.action, intent |-> r.intent, principal |-> r.principal,
               right |-> r.spent, deferred |-> r.defers # None]
Orders == [c \in Call |-> OrderOf(call[c])]
AtWork == {c \in Call : call[c].pc \in Working}
Offers == [i \in Intent |-> OfferState(intent[i])]

\* The ledger stands still.
Stands == UNCHANGED <<Consent, Wanted, Orders, AtWork, Offers, performed>>

LEMMA SameConsents ==
    ASSUME approval' = approval
    PROVE  Consent' = Consent /\ Wanted' = Wanted
BY DEF Consent, Wanted, Wish, ConsentState, Undecided

LEMMA SameCalls ==
    ASSUME call' = call
    PROVE  Orders' = Orders /\ AtWork' = AtWork
BY DEF Orders, OrderOf, AtWork

LEMMA SameOffers ==
    ASSUME intent' = intent
    PROVE  Offers' = Offers
BY DEF Offers, OfferState

\* A late row is over before a sweep has come to it.
LEMMA SweptRow ==
    ASSUME TypeOK, NEW n \in Approval
    PROVE  /\ ConsentState(Expired[n]) = ConsentState(approval[n])
           /\ Wish(Expired[n]) = Wish(approval[n])
<1>1. /\ Expired[n].action = approval[n].action
      /\ Expired[n].principal = approval[n].principal
      /\ \/ Expired[n] = approval[n]
         \/ /\ approval[n].status \in Undecided /\ approval[n].late
            /\ Expired[n].status = "expired"
  BY ExpiredRow
<1>2. ASSUME approval[n].status \in Undecided, approval[n].late,
             Expired[n].status = "expired"
      PROVE  ConsentState(Expired[n]) = ConsentState(approval[n])
  <2>1. ConsentState(approval[n]) = "lapsed"
    BY <1>2 DEF ConsentState
  <2>2. ConsentState(Expired[n]) = "lapsed"
    BY <1>2 DEF ConsentState, Undecided
  <2> QED
    BY <2>1, <2>2
<1> QED
  BY <1>1, <1>2 DEF Wish

LEMMA SweepStands ==
    ASSUME TypeOK, approval' = Expired
    PROVE  Consent' = Consent /\ Wanted' = Wanted
<1>1. /\ Consent' = [n \in Approval |-> ConsentState(Expired[n])]
      /\ Wanted' = [n \in Approval |-> Wish(Expired[n])]
  BY DEF Consent, Wanted, ConsentState, Wish, Undecided
<1> QED
  BY <1>1, SweptRow DEF Consent, Wanted

\* A step writes the row n of a table that was swept or not.
LEMMA RowRewritten ==
    ASSUME TypeOK, NEW n \in Approval, NEW r, NEW t \in {approval, Expired},
           approval' = [t EXCEPT ![n] = r]
    PROVE  /\ Consent' = [Consent EXCEPT ![n] = ConsentState(r)]
           /\ Wanted' = [Wanted EXCEPT ![n] = Wish(r)]
<1>1. t \in [Approval -> ApprovalRow]
  BY ExpiredType DEF TypeOK
<1>2. /\ approval'[n] = r
      /\ \A m \in Approval \ {n} : approval'[m] = t[m]
  BY <1>1
<1>3. \A m \in Approval : /\ ConsentState(t[m]) = ConsentState(approval[m])
                          /\ Wish(t[m]) = Wish(approval[m])
  BY SweptRow
<1>4. /\ Consent' = [m \in Approval |-> ConsentState(approval'[m])]
      /\ Wanted' = [m \in Approval |-> Wish(approval'[m])]
  BY DEF Consent, Wanted, ConsentState, Wish, Undecided
<1>5. \A m \in Approval :
         /\ ConsentState(approval'[m]) = IF m = n THEN ConsentState(r)
                                                  ELSE ConsentState(approval[m])
         /\ Wish(approval'[m]) = IF m = n THEN Wish(r) ELSE Wish(approval[m])
  BY <1>2, <1>3
<1> QED
  BY <1>4, <1>5 DEF Consent, Wanted

\* A live consent of the ledger is a row that holds its binding.
LEMMA LiveHolds ==
    ASSUME TypeOK, OneLiveApproval, NEW n \in Approval, Consent[n] \in {"asked", "granted"}
    PROVE  Expired[n] = approval[n] /\ Expired[n].live
<1>1. approval[n].status \in Undecided /\ ~approval[n].late
  <2>1. ConsentState(approval[n]) \in {"asked", "granted"}
    BY DEF Consent
  <2>2. approval[n].status \in ApprovalStatus /\ approval[n].late \in BOOLEAN
    BY DEF TypeOK, ApprovalRow
  <2> QED
    BY <2>1, <2>2 DEF ConsentState, ApprovalStatus, Undecided
<1> QED
  BY <1>1 DEF Expired, OneLiveApproval

\* A step that moves one request, to another order or the same.
LEMMA OrderMoved ==
    ASSUME NEW c \in Call, \A d \in Call \ {c} : call'[d] = call[d]
    PROVE  /\ Orders' = [Orders EXCEPT ![c] = OrderOf(call'[c])]
           /\ OrderOf(call'[c]) = OrderOf(call[c]) => Orders' = Orders
<1>1. Orders' = [d \in Call |-> OrderOf(call'[d])]
  BY DEF Orders, OrderOf
<1>2. \A d \in Call : OrderOf(call'[d]) = IF d = c THEN OrderOf(call'[c])
                                                   ELSE OrderOf(call[d])
  OBVIOUS
<1>3. OrderOf(call'[c]) = OrderOf(call[c])
         => \A d \in Call : OrderOf(call'[d]) = OrderOf(call[d])
  OBVIOUS
<1> QED
  BY <1>1, <1>2, <1>3 DEF Orders

\* A request that stays at work, and one that ends it.
LEMMA WorkKept ==
    ASSUME NEW c \in Call, \A d \in Call \ {c} : call'[d] = call[d]
    PROVE  /\ (call[c].pc \in Working <=> call'[c].pc \in Working) => AtWork' = AtWork
           /\ call'[c].pc \notin Working => AtWork' = AtWork \ {c}
           /\ call'[c].pc \in Working => AtWork' = AtWork \cup {c}
BY DEF AtWork

\* What At keeps of an order.
LEMMA OrderAt ==
    ASSUME TypeOK, NEW c \in Call, NEW pc \in PC, call' = At(c, pc)
    PROVE  /\ Orders' = Orders
           /\ (call[c].pc \in Working <=> pc \in Working) => AtWork' = AtWork
           /\ pc \notin Working => AtWork' = AtWork \ {c}
<1>1. /\ \A d \in Call \ {c} : call'[d] = call[d]
      /\ call'[c].pc = pc /\ OrderOf(call'[c]) = OrderOf(call[c])
  BY AtFacts DEF OrderOf
<1> QED
  BY <1>1, OrderMoved, WorkKept

-----------------------------------------------------------------------------
(* Every step of GovernedActions is a step of the ledger or none.          *)

LEMMA LedgerOfConsent ==
    ASSUME NEW n \in Approval,
           Ledger!Ask(n) \/ Ledger!Answer(n) \/ Ledger!Lapse(n) \/ Ledger!Spend(n)
    PROVE  Ledger!LedgerNext
BY DEF Ledger!LedgerNext

LEMMA LedgerOfOrder ==
    ASSUME NEW c \in Call,
           \/ Ledger!Place(c) \/ Ledger!Settle(c)
           \/ c \in AtWork /\ (Ledger!Identify(c) \/ Ledger!Abandon(c) \/ Ledger!Act(c)
                             \/ Ledger!Defer(c))
    PROVE  Ledger!LedgerNext
BY DEF Ledger!LedgerNext, AtWork

LEMMA LedgerOfOffer ==
    ASSUME NEW i \in Intent, Ledger!Offer(i) \/ \E c \in Call : Ledger!TakeUp(c, i)
    PROVE  Ledger!LedgerNext
BY DEF Ledger!LedgerNext

\* An intent is reserved.
LEMMA ReserveRefines ==
    ASSUME TypeOK, NEW i \in Intent, ReserveIntent(i)
    PROVE  Ledger!LedgerNext
<1>1. Consent' = Consent /\ Wanted' = Wanted /\ Orders' = Orders /\ AtWork' = AtWork
  BY SameConsents, SameCalls DEF ReserveIntent
<1>2. Offers[i] = "absent"
  BY DEF ReserveIntent, Offers, OfferState
<1>3. Offers' = [Offers EXCEPT ![i] = "waiting"]
  <2>1. /\ intent'[i].status = "pending"
        /\ \A j \in Intent \ {i} : intent'[j] = intent[j]
    BY DEF TypeOK, ReserveIntent, IntentRow
  <2>2. Offers' = [j \in Intent |-> OfferState(intent'[j])]
    BY DEF Offers, OfferState
  <2>3. OfferState(intent'[i]) = "waiting"
    BY <2>1 DEF OfferState
  <2> QED
    BY <2>1, <2>2, <2>3 DEF Offers
<1>4. Ledger!Offer(i)
  BY <1>1, <1>2, <1>3
     DEF Ledger!Offer, ReserveIntent, Consent, Wanted, Wish, Orders, OrderOf, AtWork, Offers
<1> QED
  BY <1>4, LedgerOfOffer

\* What the ledger sees of a request that begins.
LEMMA Begins ==
    ASSUME RequestInv, NEW c \in Call, call[c].pc = "idle", NEW a, NEW i,
           \A d \in Call \ {c} : call'[d] = call[d],
           call'[c].pc \in Working, call'[c].action = a, call'[c].intent = i,
           call'[c].principal = None, call'[c].spent = None, call'[c].defers = None
    PROVE  /\ Orders[c] = Ledger!NoOrder
           /\ Orders' = [Orders EXCEPT ![c] = Ledger!NewOrder(a, i)]
           /\ AtWork' = AtWork \cup {c}
<1>1. call[c] = Idle
  BY DEF RequestInv, Unbegun
<1>2. Orders[c] = Ledger!NoOrder
  <2>1. Orders[c] = OrderOf(Idle)
    BY <1>1 DEF Orders
  <2>2. OrderOf(Idle) = Ledger!NoOrder
    BY DEF OrderOf, Idle, Ledger!NoOrder, Ledger!NewOrder
  <2> QED
    BY <2>1, <2>2
<1>3. OrderOf(call'[c]) = Ledger!NewOrder(a, i)
  BY DEF OrderOf, Ledger!NewOrder
<1> QED
  BY <1>2, <1>3, OrderMoved, WorkKept

LEMMA CallToolRefines ==
    ASSUME TypeOK, RequestInv, NEW c \in Call, NEW n, NEW a \in Action, CallTool(c, a, n)
    PROVE  Ledger!LedgerNext
<1>1. /\ call[c].pc = "idle" /\ \A d \in Call \ {c} : call'[d] = call[d]
      /\ call'[c].pc = "entered" /\ call'[c].action = a /\ call'[c].intent = None
      /\ call'[c].principal = None /\ call'[c].spent = None /\ call'[c].defers = None
  BY DEF CallTool, TypeOK, Idle
<1>2. /\ Orders[c] = Ledger!NoOrder
      /\ Orders' = [Orders EXCEPT ![c] = Ledger!NewOrder(a, None)]
      /\ AtWork' = AtWork \cup {c}
  BY <1>1, Begins DEF Working, PC
<1>3. Consent' = Consent /\ Wanted' = Wanted /\ Offers' = Offers /\ performed' = performed
  BY SameConsents, SameOffers DEF CallTool
<1>4. Ledger!Place(c)
  BY <1>2, <1>3
     DEF Ledger!Place, Consent, Wanted, Wish, Orders, OrderOf, AtWork, Offers
<1> QED
  BY <1>4, LedgerOfOrder

\* A claim is exclusive: an intent that waits has nobody at work on it.
LEMMA ClaimRefines ==
    ASSUME TypeOK, RequestInv, ExecInv, NEW c \in Call, NEW n \in Approval \cup {None},
           NEW i \in Intent, ClaimIntent(c, i, n)
    PROVE  Ledger!LedgerNext
<1> USE ConstantsAssumption
<1>1. /\ call[c].pc = "idle" /\ \A d \in Call \ {c} : call'[d] = call[d]
      /\ call'[c].pc = "claimed" /\ call'[c].action = ActionOf[i] /\ call'[c].intent = i
      /\ call'[c].principal = None /\ call'[c].spent = None /\ call'[c].defers = None
  BY DEF ClaimIntent, TypeOK, Idle
<1>2. /\ Orders[c] = Ledger!NoOrder
      /\ Orders' = [Orders EXCEPT ![c] = Ledger!NewOrder(ActionOf[i], i)]
      /\ AtWork' = AtWork \cup {c}
  BY <1>1, Begins DEF Working, PC
<1>3. Consent' = Consent /\ Wanted' = Wanted /\ performed' = performed
  BY SameConsents DEF ClaimIntent
<1>4. intent[i].status \in {"pending", "approval_required"}
  BY DEF ClaimIntent, Claimable
<1>5. Offers' = [Offers EXCEPT ![i] = "working"] /\ Offers[i] = "waiting"
  <2>1. /\ intent'[i].status = "executing"
        /\ \A j \in Intent \ {i} : intent'[j] = intent[j]
    <3> DEFINE row == [intent[i] EXCEPT !.status = "executing",
                                        !.approval = IF n = None THEN @ ELSE n]
    <3>1. intent' = [intent EXCEPT ![i] = row] /\ row.status = "executing"
      BY DEF ClaimIntent, TypeOK, IntentRow
    <3> HIDE DEF row
    <3> QED
      BY <3>1 DEF TypeOK
  <2>2. Offers' = [j \in Intent |-> OfferState(intent'[j])]
    BY DEF Offers, OfferState
  <2>3. OfferState(intent'[i]) = "working" /\ OfferState(intent[i]) = "waiting"
    BY <1>4, <2>1 DEF OfferState
  <2> QED
    BY <2>1, <2>2, <2>3 DEF Offers
<1>6. \A d \in AtWork : Orders[d].intent # i
  BY <1>4 DEF AtWork, Orders, OrderOf, ExecInv, Occupied
<1>7. Ledger!TakeUp(c, i)
  BY <1>2, <1>3, <1>5, <1>6
     DEF Ledger!TakeUp, Consent, Wanted, Wish, Orders, OrderOf, AtWork, Offers
<1> QED
  BY <1>7, LedgerOfOffer

-----------------------------------------------------------------------------
(* The user, the sweep and the clock                                       *)

\* A decision is taken on a pending row that a sweep would not take away.
LEMMA DecideRefines ==
    ASSUME TypeOK, NEW n \in Approval, NEW decision \in {"approved", "rejected"},
           Decide(n, decision)
    PROVE  Ledger!LedgerNext \/ Stands
<1>1. /\ Orders' = Orders /\ AtWork' = AtWork /\ Offers' = Offers
      /\ performed' = performed
  BY SameCalls, SameOffers DEF Decide
<1>2. CASE ~Decidable(n)
  <2>1. approval' = Expired
    BY <1>2 DEF Decide
  <2> QED
    BY <1>1, <2>1, SweepStands DEF Stands
<1>3. CASE Decidable(n)
  <2> DEFINE r == DecidedRow(n, decision)
  <2>1. approval' = [Expired EXCEPT ![n] = r]
    BY <1>3 DEF Decide, DecidedRow
  <2>2. Expired[n] \in ApprovalRow /\ Expired[n].status = "pending"
    BY <1>3, ExpiredType DEF Decidable
  <2>3. r.status = decision /\ r.late = Expired[n].late /\ Wish(r) = Wish(Expired[n])
    BY <2>2 DEF DecidedRow, ApprovalRow, Wish
  <2>4. Expired[n] = approval[n] /\ ~approval[n].late
    <3>1. approval[n] \in ApprovalRow
      BY DEF TypeOK
    <3> QED
      BY <2>2, <3>1, ExpiredRow DEF Expired, Undecided, ApprovalRow
  <2>5. /\ ConsentState(r) = IF decision = "approved" THEN "granted" ELSE "refused"
        /\ Consent[n] = "asked" /\ Wish(r) = Wanted[n]
    BY <2>2, <2>3, <2>4 DEF ConsentState, Consent, Wanted
  <2>6. /\ Consent' = [Consent EXCEPT ![n] = ConsentState(r)]
        /\ Wanted' = [Wanted EXCEPT ![n] = Wish(r)]
    <3> HIDE DEF r
    <3> QED
      BY <2>1, RowRewritten
  <2>7. Wanted' = Wanted
    BY <2>5, <2>6 DEF Wanted
  <2>8. /\ Consent' = [Consent EXCEPT ![n] = "granted"]
        \/ Consent' = [Consent EXCEPT ![n] = "refused"]
    BY <2>5, <2>6
  <2>9. Ledger!Answer(n)
    BY <1>1, <2>5, <2>7, <2>8
       DEF Ledger!Answer, Consent, Wanted, Wish, Orders, OrderOf, AtWork, Offers
  <2> QED
    BY <2>9, LedgerOfConsent
<1> QED
  BY <1>2, <1>3

LEMMA ListRefines ==
    ASSUME TypeOK, ListApprovals
    PROVE  Stands
BY SameCalls, SameOffers, SweepStands DEF ListApprovals, Stands

LEMMA RunOutRefines ==
    ASSUME TypeOK, NEW n \in Approval, RunOut(n)
    PROVE  Ledger!LedgerNext
<1>1. /\ Orders' = Orders /\ AtWork' = AtWork /\ Offers' = Offers
      /\ performed' = performed
  BY SameCalls, SameOffers DEF RunOut
<1> DEFINE r == [approval[n] EXCEPT !.late = TRUE]
<1>2. approval' = [approval EXCEPT ![n] = r]
  BY DEF RunOut
<1>3. approval[n] \in ApprovalRow /\ approval[n].status \in Undecided /\ ~approval[n].late
  BY DEF TypeOK, RunOut
<1>4. r.status = approval[n].status /\ r.late /\ Wish(r) = Wish(approval[n])
  BY <1>3 DEF ApprovalRow, Wish
<1>5. ConsentState(r) = "lapsed" /\ Consent[n] \in Ledger!Live /\ Wish(r) = Wanted[n]
  BY <1>3, <1>4 DEF ConsentState, Consent, Wanted, Undecided, Ledger!Live
<1>6. Consent' = [Consent EXCEPT ![n] = "lapsed"] /\ Wanted' = [Wanted EXCEPT ![n] = Wish(r)]
  <2> HIDE DEF r
  <2> QED
    BY <1>2, <1>5, RowRewritten
<1>7. Wanted' = Wanted
  BY <1>5, <1>6 DEF Wanted
<1>8. Ledger!Lapse(n)
  BY <1>1, <1>5, <1>6, <1>7
     DEF Ledger!Lapse, Consent, Wanted, Wish, Orders, OrderOf, AtWork, Offers
<1> QED
  BY <1>8, LedgerOfConsent

-----------------------------------------------------------------------------
(* The gateway                                                             *)

\* A consent is asked for only when no other of the action is alive.
LEMMA RequestRefines ==
    ASSUME TypeOK, OneLiveApproval, RequestInv, NEW c \in Call, RequestApproval(c)
    PROVE  Ledger!LedgerNext \/ Stands
<1>0. /\ call[c].pc = "requesting" /\ call[c] \in CallState
      /\ c \in AtWork
  BY DEF RequestApproval, TypeOK, AtWork, Working, PC
<1>1. Offers' = Offers /\ performed' = performed
  BY SameOffers DEF RequestApproval
<1>2. Orders' = Orders /\ AtWork' = AtWork
  <2>1. ASSUME NEW n, call' = [call EXCEPT ![c].pc = "asked", ![c].seen = n]
        PROVE  Orders' = Orders /\ AtWork' = AtWork
    <3>1. /\ \A d \in Call \ {c} : call'[d] = call[d]
          /\ call'[c] = [call[c] EXCEPT !.pc = "asked", !.seen = n]
      BY <2>1 DEF TypeOK
    <3>2. OrderOf(call'[c]) = OrderOf(call[c]) /\ call'[c].pc = "asked"
      BY <1>0, <3>1 DEF CallState, OrderOf
    <3> QED
      BY <1>0, <3>1, <3>2, OrderMoved, WorkKept DEF Working, PC
  <2>2. CASE call' = At(c, "refused")
    BY <1>0, <2>2, OrderAt DEF Working, PC
  <2> QED
    BY <2>1, <2>2 DEF RequestApproval
<1>3. CASE approval' = approval \/ approval' = Expired
  BY <1>1, <1>2, <1>3, SameConsents, SweepStands DEF Stands
<1>4. ASSUME NEW n \in Approval, approval[n].status = "absent",
             BindingHeld(Expired, call[c].action) = {},
             approval' = [Expired EXCEPT ![n] = NewApproval(c)]
      PROVE  Ledger!LedgerNext
  <2>1. /\ ConsentState(NewApproval(c)) = "asked"
        /\ Wish(NewApproval(c)) = [action |-> Orders[c].action,
                                   principal |-> Orders[c].principal]
    BY DEF ConsentState, NewApproval, Wish, Orders, OrderOf
  <2>2. /\ Consent' = [Consent EXCEPT ![n] = "asked"]
        /\ Wanted' = [Wanted EXCEPT ![n] = [action |-> Orders[c].action,
                                            principal |-> Orders[c].principal]]
    BY <1>4, <2>1, RowRewritten
  <2>3. Consent[n] = "absent"
    BY <1>4 DEF Consent, ConsentState, Undecided
  <2>4. Orders[c].action \in Confirmed /\ Orders[c].principal # None
    BY <1>0, ConstantsAssumption DEF RequestInv, Consulting, Identified, Orders, OrderOf
  <2>5. ASSUME NEW m \in Approval, Consent[m] \in {"asked", "granted"}
        PROVE  Wanted[m].action # Orders[c].action
    <3>1. m \notin BindingHeld(Expired, call[c].action)
      BY <1>4
    <3>2. Expired[m] = approval[m] /\ Expired[m].live
      BY <2>5, LiveHolds
    <3> QED
      BY <3>1, <3>2 DEF BindingHeld, Wanted, Wish, Orders, OrderOf
  <2>6. Ledger!Ask(n)
    BY <1>0, <1>1, <1>2, <2>2, <2>3, <2>4, <2>5
       DEF Ledger!Ask, Ledger!Live, Consent, Wanted, Wish, Orders, OrderOf, AtWork, Offers
  <2> QED
    BY <2>6, LedgerOfConsent
<1> QED
  BY <1>3, <1>4 DEF RequestApproval, Fresh

\* The guarded UPDATE spends what was granted for this order and has not
\* lapsed, whatever was read before; its answer may be lost.
LEMMA ConsumeRefines ==
    ASSUME TypeInv, ConsentInv, RequestInv, NEW c \in Call, ConsumeApproval(c)
    PROVE  Ledger!LedgerNext \/ Stands
<1>0. /\ call[c].pc = "consuming" /\ call[c] \in CallState /\ TypeOK
      /\ c \in AtWork
  BY DEF ConsumeApproval, TypeInv, TypeOK, AtWork, Working, PC
<1>1. Offers' = Offers /\ performed' = performed
  BY SameOffers DEF ConsumeApproval
<1>2. PICK n \in Approval : n = call[c].seen
  BY <1>0 DEF TypeInv, SeenWhenConsuming
<1>3. CASE ~Consumable(c, n)
  <2>1. approval' = approval /\ call' = At(c, "refused")
    BY <1>2, <1>3 DEF ConsumeApproval
  <2>2. Orders' = Orders /\ AtWork' = AtWork
    BY <1>0, <2>1, OrderAt DEF Working, PC
  <2> QED
    BY <1>1, <2>1, <2>2, SameConsents DEF Stands
<1>4. CASE Consumable(c, n)
  <2> DEFINE r == [approval[n] EXCEPT !.status = "consumed", !.live = FALSE]
  <2>1. approval' = [approval EXCEPT ![n] = r]
    BY <1>2, <1>4 DEF ConsumeApproval, Consumed
  <2>2. approval[n] \in ApprovalRow
    BY <1>0 DEF TypeOK
  <2>3. r.status = "consumed" /\ Wish(r) = Wish(approval[n])
    BY <2>2 DEF ApprovalRow, Wish
  <2>4. ConsentState(r) = "spent" /\ Wish(r) = Wanted[n]
    BY <2>3 DEF ConsentState, Undecided, Wanted
  <2>5. Consent' = [Consent EXCEPT ![n] = "spent"] /\ Wanted' = [Wanted EXCEPT ![n] = Wish(r)]
    <3> HIDE DEF r
    <3> QED
      BY <1>0, <2>1, <2>4, RowRewritten
  <2>6. Wanted' = Wanted
    BY <2>4, <2>5 DEF Wanted
  <2>7. Consent[n] = "granted"
    BY <1>4 DEF Consumable, Consent, ConsentState, Undecided
  <2>8. /\ Orders[c].right = None /\ Orders[c].action = Wanted[n].action
        /\ Orders[c].principal = Wanted[n].principal
    BY <1>0, <1>4 DEF Consumable, ConsentInv, HoldsConsent, Paid, Late, Orders, OrderOf,
       Wanted, Wish
  <2>9. /\ AtWork' = AtWork
        /\ Orders' \in {Orders, [Orders EXCEPT ![c].right = n]}
    <3>1. CASE call' = At(c, "refused")
      BY <1>0, <3>1, OrderAt DEF Working, PC
    <3>2. CASE call' = [call EXCEPT ![c].pc = "allowed", ![c].spent = n]
      <4>1. /\ \A d \in Call \ {c} : call'[d] = call[d]
            /\ call'[c] = [call[c] EXCEPT !.pc = "allowed", !.spent = n]
        BY <1>0, <3>2 DEF TypeOK
      <4>2. /\ OrderOf(call'[c]) = [Orders[c] EXCEPT !.right = n]
            /\ call'[c].pc = "allowed"
        BY <1>0, <4>1 DEF CallState, OrderOf, Orders
      <4>3. Orders' = [Orders EXCEPT ![c] = OrderOf(call'[c])] /\ AtWork' = AtWork
        BY <1>0, <4>1, <4>2, OrderMoved, WorkKept DEF Working, PC
      <4> QED
        BY <4>2, <4>3
    <3> QED
      BY <1>2, <1>4, <3>1, <3>2 DEF ConsumeApproval
  <2>10. Ledger!Spend(n)
    BY <1>0, <1>1, <2>5, <2>6, <2>7, <2>8, <2>9
       DEF Ledger!Spend, Consent, Wanted, Wish, Orders, OrderOf, AtWork, Offers
  <2> QED
    BY <2>10, LedgerOfConsent
<1> QED
  BY <1>3, <1>4

\* The principal is settled when the policy is evaluated.
LEMMA EvaluateRefines ==
    ASSUME TypeOK, RequestInv, NEW c \in Call, Evaluate(c)
    PROVE  Ledger!LedgerNext \/ Stands
<1>0. /\ call[c].pc = "entered" /\ call[c] \in CallState /\ c \in AtWork
      /\ call[c].principal = None
  BY DEF Evaluate, TypeOK, AtWork, Working, PC, RequestInv, Unbegun
<1>1. /\ Consent' = Consent /\ Wanted' = Wanted /\ Offers' = Offers
      /\ performed' = performed
  BY SameConsents, SameOffers DEF Evaluate
<1>2. CASE call' = At(c, "refused")
  BY <1>0, <1>1, <1>2, OrderAt DEF Stands, Working, PC
<1>3. ASSUME NEW p \in Principal,
             call' = [call EXCEPT ![c].principal = p,
                         ![c].pc = IF call[c].action \in Confirmed
                                   THEN "checking" ELSE "allowed"]
      PROVE  Ledger!LedgerNext
  <2> DEFINE pc == IF call[c].action \in Confirmed THEN "checking" ELSE "allowed"
  <2>1. /\ call'[c] = [call[c] EXCEPT !.principal = p, !.pc = pc]
        /\ \A d \in Call \ {c} : call'[d] = call[d]
    BY <1>3 DEF TypeOK
  <2>2. /\ OrderOf(call'[c]) = [Orders[c] EXCEPT !.principal = p]
        /\ call'[c].pc \in Working
    BY <1>0, <2>1 DEF CallState, OrderOf, Orders, Working, PC
  <2>3. Orders' = [Orders EXCEPT ![c] = OrderOf(call'[c])] /\ AtWork' = AtWork
    BY <1>0, <2>1, <2>2, OrderMoved, WorkKept DEF Working, PC
  <2>4. Orders' = [Orders EXCEPT ![c].principal = p] /\ Orders[c].principal = None
    BY <1>0, <2>2, <2>3 DEF Orders, OrderOf
  <2>5. Ledger!Identify(c)
    BY <1>1, <2>3, <2>4
       DEF Ledger!Identify, Consent, Wanted, Wish, Orders, OrderOf, AtWork, Offers
  <2> QED
    BY <1>0, <2>5, LedgerOfOrder
<1> QED
  BY <1>2, <1>3 DEF Evaluate

\* Reading, asking and booking are nothing to the ledger.
LEMMA ReadRefines ==
    ASSUME TypeOK, NEW c \in Call, ReadApproval(c)
    PROVE  Stands
<1>0. call[c].pc = "checking" /\ call[c] \in CallState
  BY DEF ReadApproval, TypeOK
<1>1. /\ Consent' = Consent /\ Wanted' = Wanted /\ Offers' = Offers
      /\ performed' = performed
  BY SameConsents, SameOffers DEF ReadApproval
<1>2. ASSUME NEW n, NEW pc \in {"consuming", "asked", "refused"},
             call' = [call EXCEPT ![c].seen = n, ![c].pc = pc]
      PROVE  Orders' = Orders /\ AtWork' = AtWork
  <2>1. /\ call'[c] = [call[c] EXCEPT !.seen = n, !.pc = pc]
        /\ \A d \in Call \ {c} : call'[d] = call[d]
    BY <1>2 DEF TypeOK
  <2>2. OrderOf(call'[c]) = OrderOf(call[c]) /\ call'[c].pc = pc
    BY <1>0, <2>1 DEF CallState, OrderOf
  <2> QED
    BY <1>0, <2>1, <2>2, OrderMoved, WorkKept DEF Working, PC
<1>3. CASE call' = At(c, "requesting") \/ call' = At(c, "refused")
  BY <1>0, <1>1, <1>3, OrderAt DEF Stands, Working, PC
<1>4. ASSUME NEW n \in Consulted(c),
             call' = [call EXCEPT ![c].seen = n,
                         ![c].pc = CASE approval[n].status = "approved" -> "consuming"
                                     [] approval[n].status = "pending" -> "asked"
                                     [] OTHER -> "refused"]
      PROVE  Orders' = Orders /\ AtWork' = AtWork
  BY <1>2, <1>4
<1> QED
  BY <1>1, <1>3, <1>4 DEF ReadApproval, Stands

LEMMA ProceedRefines ==
    ASSUME TypeOK, NEW c \in Call,
           AskFails(c) \/ BookReceipt(c) \/ Report(c) \/ GiveUp(c)
    PROVE  Stands
<1>1. /\ Consent' = Consent /\ Wanted' = Wanted /\ Offers' = Offers
      /\ performed' = performed
  BY SameConsents, SameOffers DEF AskFails, BookReceipt, Report, GiveUp
<1>2. /\ call[c].pc \in Working
      /\ \E pc \in {"booked", "refused", "reported", "deferred", "failing"} : call' = At(c, pc)
  BY DEF AskFails, BookReceipt, Report, Reported, GiveUp, Working, PC
<1> QED
  BY <1>1, <1>2, OrderAt DEF Stands, Working, PC

LEMMA OrderDefers ==
    ASSUME NEW r, NEW b, NEW v
    PROVE  [[action |-> r.action, intent |-> r.intent, principal |-> r.principal,
             right |-> r.spent, deferred |-> b] EXCEPT !.deferred = v]
              = [action |-> r.action, intent |-> r.intent, principal |-> r.principal,
                 right |-> r.spent, deferred |-> v]
OBVIOUS

\* The business tool: the effect of an order that is identified, that holds
\* the consent it needs, whose key has had none, and whose offer is its own.
LEMMA PerformRefines ==
    ASSUME TypeOK, ConsentInv, BookInv, ExecInv, RequestInv, NEW c \in Call,
           Perform(c) \/ Defer(c) \/ PerformFails(c)
    PROVE  Ledger!LedgerNext \/ Stands
<1>0. /\ call[c].pc = "booked" /\ c \in AtWork /\ call[c] \in CallState
      /\ performed \subseteq Call
  BY DEF Perform, Defer, PerformFails, TypeOK, AtWork, Working, PC
<1>a. Consent' = Consent /\ Wanted' = Wanted /\ Offers' = Offers
  BY SameConsents, SameOffers DEF Perform, Defer, PerformFails
<1>b. ASSUME NEW n \in Approval,
             call' = [call EXCEPT ![c].pc = "answered", ![c].defers = n]
      PROVE  Orders' = Ledger!Deferred(c) /\ AtWork' = AtWork
  <2>1. /\ call'[c] = [call[c] EXCEPT !.pc = "answered", !.defers = n]
        /\ \A d \in Call \ {c} : call'[d] = call[d]
    BY <1>b DEF TypeOK
  <2>a. /\ call'[c].defers # None
        /\ call'[c].action = call[c].action /\ call'[c].intent = call[c].intent
        /\ call'[c].principal = call[c].principal /\ call'[c].spent = call[c].spent
    BY <1>0, <2>1, ConstantsAssumption DEF CallState
  <2>b. OrderOf(call'[c]) = [action |-> call[c].action, intent |-> call[c].intent,
                             principal |-> call[c].principal, right |-> call[c].spent,
                             deferred |-> TRUE]
    BY <2>a DEF OrderOf
  <2>c. [Orders[c] EXCEPT !.deferred = TRUE]
           = [action |-> call[c].action, intent |-> call[c].intent,
              principal |-> call[c].principal, right |-> call[c].spent, deferred |-> TRUE]
    BY OrderDefers DEF OrderOf, Orders
  <2>2. OrderOf(call'[c]) = [Orders[c] EXCEPT !.deferred = TRUE]
    BY <2>b, <2>c
  <2>3. call'[c].pc = "answered"
    BY <1>0, <2>1 DEF CallState
  <2>4. Orders' = [Orders EXCEPT ![c] = OrderOf(call'[c])] /\ AtWork' = AtWork
    BY <1>0, <2>1, <2>3, OrderMoved, WorkKept DEF Working, PC
  <2>5. Orders' = [Orders EXCEPT ![c].deferred = TRUE]
    BY <2>2, <2>4
  <2> QED
    BY <2>4, <2>5 DEF Ledger!Deferred, Orders, OrderOf
<1>1. /\ Consent' = Consent /\ Wanted' = Wanted /\ Offers' = Offers
      /\ Orders' \in {Orders, Ledger!Deferred(c)} /\ AtWork' = AtWork
  <2>1. CASE Perform(c) \/ PerformFails(c)
    BY <1>0, <1>a, <2>1, OrderAt DEF Perform, PerformFails, Working, PC
  <2>2. CASE Defer(c)
    BY <1>a, <1>b, <2>2 DEF Defer
  <2> QED
    BY <2>1, <2>2
<1>2. CASE performed' = performed
  <2>1. CASE Orders' = Orders
    BY <1>1, <1>2, <2>1 DEF Stands
  <2>2. CASE Orders' = Ledger!Deferred(c)
    <3>1. Ledger!Defer(c)
      BY <1>1, <1>2, <2>2
         DEF Ledger!Defer, Consent, Wanted, Wish, Orders, OrderOf, AtWork, Offers
    <3> QED
      BY <1>0, <3>1, LedgerOfOrder
  <2> QED
    BY <1>1, <2>1, <2>2
<1>3. CASE performed' = performed \cup {c}
  <2>1. c \notin performed
    BY <1>0 DEF ConsentInv, HoldsConsent, Late
  <2>2. Orders[c].principal # None
    BY <1>0, ConstantsAssumption DEF RequestInv, Identified, Paid, Orders, OrderOf
  <2>3. Orders[c].action \in Confirmed => Orders[c].right # None
    BY <1>0 DEF ConsentInv, HoldsConsent, Paid, Orders, OrderOf
  <2>4. ASSUME NEW d \in performed, KeyOf[Orders[d].action] = KeyOf[Orders[c].action]
        PROVE  KeyOf[Orders[c].action] = None
    <3>1. /\ d \in Call /\ d # c
          /\ Orders[d].action = call[d].action /\ Orders[c].action = call[c].action
      BY <1>0, <2>1 DEF Orders, OrderOf
    <3>2. receipt[c] # "none" /\ receipt[d] # "none"
      BY <1>0, <3>1 DEF BookInv, HasReceipt, Booked
    <3> QED
      BY <2>4, <3>1, <3>2 DEF BookInv, KeyBookedOnce
  <2>5. Orders[c].intent # None => Offers[Orders[c].intent] \in {"working", "failed"}
    <3>1. SUFFICES ASSUME call[c].intent # None
                   PROVE  Offers[call[c].intent] \in {"working", "failed"}
      BY DEF Orders, OrderOf
    <3>2. call[c].intent \in Intent
      BY <3>1 DEF TypeOK, CallState
    <3>3. intent[call[c].intent].status \in {"executing", "failed"}
      BY <1>0, <3>1 DEF ExecInv, Occupied, AtWork
    <3> QED
      BY <3>2, <3>3 DEF Offers, OfferState
  <2>6. Ledger!Act(c)
    BY <1>1, <1>3, <2>1, <2>2, <2>3, <2>4, <2>5
       DEF Ledger!Act, Consent, Wanted, Wish, Orders, OrderOf, AtWork, Offers
  <2> QED
    BY <1>0, <2>6, LedgerOfOrder
<1> QED
  BY <1>2, <1>3 DEF Perform, Defer, PerformFails

-----------------------------------------------------------------------------
(* The end of a request                                                    *)

\* A request ends without a word to its intent.
LEMMA EndRefines ==
    ASSUME TypeOK, NEW c \in Call, NEW pc \in {"catching", "done"}, call' = At(c, pc),
           UNCHANGED <<approval, intent, performed>>
    PROVE  Ledger!LedgerNext \/ Stands
<1>1. /\ Consent' = Consent /\ Wanted' = Wanted /\ Offers' = Offers
      /\ Orders' = Orders /\ AtWork' = AtWork \ {c}
  BY SameConsents, SameOffers, OrderAt DEF Working, PC
<1>2. CASE c \notin AtWork
  BY <1>1, <1>2 DEF Stands, AtWork
<1>3. CASE c \in AtWork
  <2>1. Ledger!Abandon(c)
    BY <1>1 DEF Ledger!Abandon, Consent, Wanted, Wish, Orders, OrderOf, AtWork, Offers
  <2> QED
    BY <1>3, <2>1, LedgerOfOrder
<1> QED
  BY <1>2, <1>3

\* What a request may make of its intent: it is shown as succeeded only by the
\* request that did it, and as waiting only if nobody has but by a tool that
\* deferred.
LEMMA ShownLeaves ==
    ASSUME TypeOK, ConsentInv, HonestInv, NEW c \in Call, NEW s,
           call[c].intent \in Intent, intent[call[c].intent].status = "executing",
           \/ call[c].pc = "reported" /\ s = "succeeded"
           \/ call[c].pc = "refused" /\ s = "blocked"
           \/ call[c].pc \in {"asked", "deferred"} /\ s = "approval_required"
           \/ call[c].pc = "catching" /\ s = "failed",
           NEW r, r.status = s
    PROVE  Ledger!Leaves(c, OfferState(r))
<1>0. /\ call[c].intent # None /\ performed \subseteq Call
      /\ call[c].pc # "catching" => c \in AtWork
  BY ConstantsAssumption DEF TypeOK, AtWork, Working, PC
<1>1. CASE call[c].pc = "reported" /\ s = "succeeded"
  <2>1. c \in performed /\ OfferState(r) = "done"
    BY <1>1 DEF HonestInv, AnswerKept, OfferState
  <2> QED
    BY <1>0, <1>1, <2>1 DEF Ledger!Leaves, AtWork
<1>2. CASE call[c].pc = "refused" /\ s = "blocked"
  <2>1. OfferState(r) = "blocked"
    BY <1>2 DEF OfferState
  <2> QED
    BY <1>0, <1>2, <2>1 DEF Ledger!Leaves, AtWork
<1>3. CASE call[c].pc \in {"asked", "deferred"} /\ s = "approval_required"
  <2>1. OfferState(r) = "waiting"
    BY <1>3 DEF OfferState
  <2>2. c \notin performed \/ call[c].defers # None
    BY <1>3 DEF ConsentInv, HoldsConsent, Late, HonestInv, AnswerKept
  <2>3. \A d \in performed : call[d].intent = call[c].intent => call[d].defers # None
    BY <1>0, <1>3, <2>2 DEF HonestInv, LastOnIntent, AtWork
  <2>4. \A d \in performed : Orders[d].intent = Orders[c].intent => Orders[d].deferred
    BY <1>0, <2>3 DEF Orders, OrderOf
  <2> QED
    BY <1>0, <1>3, <2>1, <2>4 DEF Ledger!Leaves, AtWork, Orders, OrderOf
<1>4. CASE call[c].pc = "catching" /\ s = "failed"
  <2>1. OfferState(r) = "failed"
    BY <1>4 DEF OfferState
  <2> QED
    BY <2>1 DEF Ledger!Leaves
<1> QED
  BY <1>1, <1>2, <1>3, <1>4

LEMMA CloseRefines ==
    ASSUME TypeOK, ConsentInv, HonestInv, NEW c \in Call, NEW pc \in {"catching", "done"},
           call' = At(c, pc), NEW s, NEW n, intent' = Completed(c, s, n),
           \/ call[c].pc = "reported" /\ s = "succeeded"
           \/ call[c].pc = "refused" /\ s = "blocked"
           \/ call[c].pc \in {"asked", "deferred"} /\ s = "approval_required"
           \/ call[c].pc = "catching" /\ s = "failed",
           UNCHANGED <<approval, performed>>
    PROVE  Ledger!LedgerNext \/ Stands
<1>1. CASE intent' = intent
  BY <1>1, EndRefines
<1>2. CASE /\ call[c].intent \in Intent
           /\ intent[call[c].intent].status = "executing"
           /\ intent'[call[c].intent].status = s
           /\ OnlyChanges(call[c].intent)
  <2>1. /\ Consent' = Consent /\ Wanted' = Wanted
        /\ Orders' = Orders /\ AtWork' = AtWork \ {c}
    BY SameConsents, OrderAt DEF Working, PC
  <2>2. PICK i \in Intent : i = call[c].intent
    BY <1>2
  <2>3. PICK shown : shown = OfferState(intent'[i])
    OBVIOUS
  <2>4. Offers' = [Offers EXCEPT ![i] = shown]
    <3>1. Offers' = [j \in Intent |-> OfferState(intent'[j])]
      BY DEF Offers, OfferState
    <3> QED
      BY <1>2, <2>2, <2>3, <3>1 DEF OnlyChanges, Offers
  <2>5. Ledger!Leaves(c, shown)
    BY <1>2, <2>2, <2>3, ShownLeaves
  <2>6. shown \in {"waiting", "done", "blocked", "failed"}
    BY <1>2, <2>2, <2>3 DEF OfferState
  <2>7. Orders[c].intent = i /\ i # None /\ Offers[i] = "working"
    BY <1>2, <2>2, ConstantsAssumption DEF Orders, OrderOf, Offers, OfferState
  <2>8. Ledger!Settle(c)
    BY <2>1, <2>4, <2>5, <2>6, <2>7
       DEF Ledger!Settle, Consent, Wanted, Wish, Orders, OrderOf, AtWork, Offers
  <2> QED
    BY <2>8, LedgerOfOrder
<1> QED
  BY <1>1, <1>2, CompletedRow

-----------------------------------------------------------------------------
(* The whole                                                               *)

GovernedInv == /\ TypeInv /\ OneLiveApproval /\ ConsentInv /\ BookInv
               /\ ExecInv /\ HonestInv /\ RequestInv

LEMMA CallRefines ==
    ASSUME GovernedInv, NEW c \in Call, CallStep(c)
    PROVE  Ledger!LedgerNext \/ Stands
<1>0. /\ TypeInv /\ TypeOK /\ OneLiveApproval /\ ConsentInv /\ BookInv
      /\ ExecInv /\ HonestInv /\ RequestInv
  BY DEF GovernedInv, TypeInv
<1>1. CASE EnterGateway(c)
  <2>1. call[c].pc \in Working /\ Offers' = Offers
    BY <1>1, SameOffers DEF EnterGateway, Working, PC
  <2>2. CASE call' = At(c, "entered")
    BY <1>0, <1>1, <2>1, <2>2, OrderAt, SameConsents DEF EnterGateway, Stands, Working, PC
  <2>3. CASE call' = At(c, "catching")
    BY <1>0, <1>1, <2>3, EndRefines DEF EnterGateway
  <2> QED
    BY <1>1, <2>2, <2>3 DEF EnterGateway
<1>2. CASE Evaluate(c)
  BY <1>0, <1>2, EvaluateRefines
<1>3. CASE ReadApproval(c)
  BY <1>0, <1>3, ReadRefines
<1>4. CASE ConsumeApproval(c)
  BY <1>0, <1>4, ConsumeRefines
<1>5. CASE RequestApproval(c)
  BY <1>0, <1>5, RequestRefines
<1>6. CASE AskFails(c) \/ BookReceipt(c) \/ Report(c) \/ GiveUp(c)
  BY <1>0, <1>6, ProceedRefines
<1>7. CASE Perform(c) \/ Defer(c) \/ PerformFails(c)
  BY <1>0, <1>7, PerformRefines
<1>8. CASE Crash(c)
  BY <1>0, <1>8, EndRefines DEF Crash
<1>9. ASSUME NEW pc \in {"catching", "done"}, call' = At(c, pc),
             call[c].pc \in HasResult,
             intent' = Completed(c, Conclusion(c)[1], Conclusion(c)[2]),
             UNCHANGED <<approval, performed>>
      PROVE  Ledger!LedgerNext \/ Stands
  <2>1. \/ call[c].pc = "reported" /\ Conclusion(c)[1] = "succeeded"
        \/ call[c].pc = "refused" /\ Conclusion(c)[1] = "blocked"
        \/ call[c].pc \in {"asked", "deferred"} /\ Conclusion(c)[1] = "approval_required"
    BY <1>9 DEF Conclusion, HasResult
  <2> QED
    BY <1>0, <1>9, <2>1, CloseRefines
<1>10. CASE Conclude(c)
  BY <1>9, <1>10 DEF Conclude
<1>11. CASE ConcludeFails(c)
  <2>1. CASE intent' = intent
    BY <1>0, <1>11, <2>1, EndRefines DEF ConcludeFails
  <2>2. CASE intent' = Completed(c, Conclusion(c)[1], Conclusion(c)[2])
    BY <1>9, <1>11, <2>2 DEF ConcludeFails
  <2> QED
    BY <1>11, <2>1, <2>2 DEF ConcludeFails
<1>12. CASE CatchError(c)
  <2>1. CASE intent' = intent
    BY <1>0, <1>12, <2>1, EndRefines DEF CatchError
  <2>2. CASE intent' = Completed(c, "failed", call[c].given)
    BY <1>0, <1>12, <2>2, CloseRefines DEF CatchError
  <2> QED
    BY <1>12, <2>1, <2>2 DEF CatchError
<1> QED
  BY <1>1, <1>2, <1>3, <1>4, <1>5, <1>6, <1>7, <1>8, <1>10, <1>11, <1>12 DEF CallStep

LEMMA LedgerStep == GovernedInv /\ [Next]_vars => [Ledger!LedgerNext]_(Ledger!ledgerVars)
<1> SUFFICES ASSUME GovernedInv, [Next]_vars PROVE Ledger!LedgerNext \/ Stands
  BY DEF Ledger!ledgerVars, Stands, Consent, Wanted, Wish, Orders, OrderOf, AtWork, Offers
<1>0. TypeOK /\ RequestInv /\ ExecInv
  BY DEF GovernedInv, TypeInv
<1>1. ASSUME NEW i \in Intent, ReserveIntent(i) PROVE Ledger!LedgerNext
  BY <1>0, <1>1, ReserveRefines
<1>2. ASSUME NEW c \in Call, NEW n \in Approval \cup {None}, NEW i \in Intent,
             ClaimIntent(c, i, n)
      PROVE  Ledger!LedgerNext
  BY <1>0, <1>2, ClaimRefines
<1>3. ASSUME NEW c \in Call, NEW n \in Approval \cup {None}, NEW a \in Action,
             CallTool(c, a, n)
      PROVE  Ledger!LedgerNext
  BY <1>0, <1>3, CallToolRefines
<1>4. ASSUME NEW c \in Call, CallStep(c) PROVE Ledger!LedgerNext \/ Stands
  BY <1>4, CallRefines
<1>5. ASSUME NEW n \in Approval, NEW decision \in {"approved", "rejected"},
             Decide(n, decision)
      PROVE  Ledger!LedgerNext \/ Stands
  BY <1>0, <1>5, DecideRefines
<1>6. ASSUME NEW n \in Approval, RunOut(n) PROVE Ledger!LedgerNext
  BY <1>0, <1>6, RunOutRefines
<1>7. CASE ListApprovals
  BY <1>0, <1>7, ListRefines
<1>8. CASE UNCHANGED vars
  BY <1>8, SameConsents, SameCalls, SameOffers DEF vars, Stands
<1> QED
  BY <1>1, <1>2, <1>3, <1>4, <1>5, <1>6, <1>7, <1>8 DEF Next

LEMMA GovernedInit == Init => GovernedInv
<1> SUFFICES ASSUME Init PROVE GovernedInv
    OBVIOUS
<1>1. TypeInv /\ ExecInv
  BY TypeInit, ExecInit
<1>2. OneLiveApproval
  BY DEF Init, OneLiveApproval, NoApproval, Undecided
<1>3. ConsentInv /\ BookInv
  BY DEF Init, Idle, ConsentInv, HoldsConsent, SpentOnce, Paid, Late, BookInv,
         HasReceipt, KeyBookedOnce, Booked
<1>4. HonestInv
  BY DEF Init, Idle, HonestInv, AnswerKept, EffectRecorded, LastOnIntent, SucceededDone
<1>5. RequestInv
  BY DEF Init, Idle, RequestInv, Unbegun, Identified, Consulting, Paid
<1> QED
  BY <1>1, <1>2, <1>3, <1>4, <1>5 DEF GovernedInv

LEMMA GovernedStep == GovernedInv /\ [Next]_vars => GovernedInv'
BY TypeStep, OneLiveStep, ConsentStep, BookStep, ExecStep, HonestStep, RequestStep
   DEF GovernedInv

\* The governance of business actions, with its requests that stop anywhere,
\* its sweeps that come late, its receipts and its catch blocks, keeps the
\* promises of the ledger: consents are asked for one at a time, decided once
\* and spent once and in time, and every effect is one that its order had the
\* right to.
THEOREM GovernedImplemented == Spec => ImplementsConsent
<1>1. Init => Ledger!LedgerInit
  <2> SUFFICES ASSUME Init PROVE Ledger!LedgerInit
    OBVIOUS
  <2>1. /\ \A n \in Approval : approval[n] = NoApproval
        /\ \A c \in Call : call[c] = Idle
        /\ \A i \in Intent : intent[i].status = "absent"
        /\ performed = {}
    BY DEF Init
  <2>2. ConsentState(NoApproval) = "absent" /\ Wish(NoApproval) = Ledger!NoWish
    BY DEF ConsentState, NoApproval, Undecided, Wish, Ledger!NoWish
  <2>3. OrderOf(Idle) = Ledger!NoOrder /\ Idle.pc \notin Working
    BY DEF OrderOf, Idle, Ledger!NoOrder, Ledger!NewOrder, Working
  <2>4. Consent = [n \in Approval |-> "absent"] /\ Wanted = [n \in Approval |-> Ledger!NoWish]
    BY <2>1, <2>2 DEF Consent, Wanted
  <2>5. Orders = [c \in Call |-> Ledger!NoOrder] /\ AtWork = {}
    BY <2>1, <2>3 DEF Orders, AtWork
  <2>6. Offers = [i \in Intent |-> "absent"]
    BY <2>1 DEF Offers, OfferState
  <2> QED
    BY <2>1, <2>4, <2>5, <2>6
       DEF Ledger!LedgerInit, Consent, Wanted, Wish, Orders, OrderOf, AtWork, Offers
<1> QED
  BY <1>1, GovernedInit, GovernedStep, LedgerStep, PTL
     DEF Spec, ImplementsConsent, Ledger!LedgerSpec

=============================================================================
