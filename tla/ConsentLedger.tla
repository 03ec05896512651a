---------------------------- MODULE ConsentLedger ----------------------------
(***************************************************************************)
(* What the governance of business actions promises the user, with no      *)
(* requests that stop half-way, no table that is swept now and then, no    *)
(* receipts and no catch blocks: an action that demands consent has its    *)
(* effect only by spending a consent that was given for this action and    *)
(* principal and has not lapsed; a consent is decided once and spent once; *)
(* an idempotency key has one effect; and an offer of an expert agent is   *)
(* worked on by one order at a time, and shown for what it is.             *)
(* GovernedActions implements this specification.                          *)
(***************************************************************************)
EXTENDS Integers

CONSTANTS Action, KeyOf, Confirmed, Intent, ActionOf, Call, Approval, Principal, None

VARIABLES consent,   \* [Approval -> what became of it]
          wanted,    \* [Approval -> the action and principal it was asked for]
          order,     \* [Call -> what the call is to do, for whom, by what right,
                     \*          and whether its tool asked for a confirmation]
          active,    \* the calls that are still at work
          offer,     \* [Intent -> how far the offer is]
          acted      \* the calls that had their effect

ledgerVars == <<consent, wanted, order, active, offer, acted>>

NoWish   == [action |-> None, principal |-> None]
NewOrder(a, i) == [action |-> a, intent |-> i, principal |-> None, right |-> None,
                   deferred |-> FALSE]
NoOrder  == NewOrder(None, None)

LedgerInit ==
    /\ consent = [n \in Approval |-> "absent"]
    /\ wanted = [n \in Approval |-> NoWish]
    /\ order = [c \in Call |-> NoOrder]
    /\ active = {}
    /\ offer = [i \in Intent |-> "absent"]
    /\ acted = {}

-----------------------------------------------------------------------------
(* Orders                                                                  *)

Offer(i) ==
    /\ offer[i] = "absent"
    /\ offer' = [offer EXCEPT ![i] = "waiting"]
    /\ UNCHANGED <<consent, wanted, order, active, acted>>

\* The agent runtime calls a tool.
Place(c) ==
    /\ order[c] = NoOrder
    /\ active' = active \cup {c}
    /\ \E a \in Action : order' = [order EXCEPT ![c] = NewOrder(a, None)]
    /\ UNCHANGED <<consent, wanted, offer, acted>>

\* The user takes an offer up; nobody else is at work on it.
TakeUp(c, i) ==
    /\ offer[i] = "waiting"
    /\ order[c] = NoOrder
    /\ \A d \in active : order[d].intent # i
    /\ active' = active \cup {c}
    /\ offer' = [offer EXCEPT ![i] = "working"]
    /\ order' = [order EXCEPT ![c] = NewOrder(ActionOf[i], i)]
    /\ UNCHANGED <<consent, wanted, acted>>

\* The principal of an order is settled once.
Identify(c) ==
    /\ order[c].principal = None
    /\ \E p \in Principal : order' = [order EXCEPT ![c].principal = p]
    /\ UNCHANGED <<consent, wanted, active, offer, acted>>

\* An order comes to nothing more; its offer, if it has one, stays as it is.
Abandon(c) ==
    /\ active' = active \ {c}
    /\ UNCHANGED <<acted, offer, consent, wanted, order>>

-----------------------------------------------------------------------------
(* Consents                                                                *)

Live == {"asked", "granted"}

\* An order asks for a consent; at most one consent of an action is alive.
Ask(n) ==
    /\ consent[n] = "absent"
    /\ consent' = [consent EXCEPT ![n] = "asked"]
    /\ \E c \in active :
          /\ order[c].action \in Confirmed
          /\ order[c].principal # None
          /\ \A m \in Approval :
                consent[m] \in Live => wanted[m].action # order[c].action
          /\ wanted' = [wanted EXCEPT ![n] = [action |-> order[c].action,
                                              principal |-> order[c].principal]]
    /\ UNCHANGED <<order, active, offer, acted>>

Answer(n) ==
    /\ consent[n] = "asked"
    /\ \E answer \in {"granted", "refused"} :
          consent' = [consent EXCEPT ![n] = answer]
    /\ UNCHANGED <<wanted, order, active, offer, acted>>

\* A consent ends the moment its time has passed.
Lapse(n) ==
    /\ consent[n] \in Live
    /\ consent' = [consent EXCEPT ![n] = "lapsed"]
    /\ UNCHANGED <<wanted, order, active, offer, acted>>

\* A consent is spent on one order, or lost on it.
Spend(n) ==
    /\ consent[n] = "granted"
    /\ consent' = [consent EXCEPT ![n] = "spent"]
    /\ \E c \in active :
          /\ order[c].right = None
          /\ order[c].action = wanted[n].action
          /\ order[c].principal = wanted[n].principal
          /\ order' \in {order, [order EXCEPT ![c].right = n]}
    /\ UNCHANGED <<wanted, active, offer, acted>>

-----------------------------------------------------------------------------
(* Effects                                                                 *)

\* The tool of an order says that the user has to confirm first.
Deferred(c) == [order EXCEPT ![c].deferred = TRUE]

Defer(c) ==
    /\ order' = Deferred(c)
    /\ UNCHANGED <<consent, wanted, active, offer, acted>>

\* The tool of an order has its effect, once, and once for its key, whatever
\* it says.
Act(c) ==
    /\ c \notin acted
    /\ acted' = acted \cup {c}
    /\ order' \in {order, Deferred(c)}
    /\ order[c].principal # None
    /\ order[c].action \in Confirmed => order[c].right # None
    /\ \A d \in acted : KeyOf[order[d].action] = KeyOf[order[c].action]
                        => KeyOf[order[c].action] = None
    /\ order[c].intent # None => offer[order[c].intent] \in {"working", "failed"}
    /\ UNCHANGED <<consent, wanted, active, offer>>

\* What an offer may be shown as when its order leaves it: waiting again only
\* if nothing was done but by tools that deferred, done only if it was; an order
\* that had been abandoned can still mark it as failed.
Leaves(c, shown) ==
    \/ /\ shown = "waiting" /\ c \in active
       /\ \A d \in acted : order[d].intent = order[c].intent => order[d].deferred
    \/ shown = "done" /\ c \in active /\ c \in acted
    \/ shown = "blocked" /\ c \in active
    \/ shown = "failed"

Settle(c) ==
    /\ order[c].intent # None
    /\ offer[order[c].intent] = "working"
    /\ active' = active \ {c}
    /\ \E shown \in {"waiting", "done", "blocked", "failed"} :
          Leaves(c, shown) /\ offer' = [offer EXCEPT ![order[c].intent] = shown]
    /\ UNCHANGED <<consent, wanted, order, acted>>

-----------------------------------------------------------------------------
LedgerNext ==
    \/ \E i \in Intent : Offer(i) \/ \E c \in Call : TakeUp(c, i)
    \/ \E n \in Approval : Ask(n) \/ Answer(n) \/ Lapse(n) \/ Spend(n)
    \/ \E c \in Call : Place(c) \/ Settle(c)
    \/ \E c \in active : Identify(c) \/ Abandon(c) \/ Act(c) \/ Defer(c)

LedgerSpec == LedgerInit /\ [][LedgerNext]_ledgerVars

=============================================================================
