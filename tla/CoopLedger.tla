----------------------------- MODULE CoopLedger -----------------------------
(***************************************************************************)
(* What a cooperation session promises its creator and its members, with   *)
(* no handlers, timers, events, crashes or reads taken apart: a session is *)
(* created once and invites each member once; a request ends once, by the  *)
(* member it was sent to or by the execution of an automatic one; and the  *)
(* draft of a consolidation quotes what the members have really answered.  *)
(* A request that the interface for collaborations writes leaves the       *)
(* session's hands: nothing more is promised of it, and the other members  *)
(* do not notice.  CoopSession implements this specification.              *)
(***************************************************************************)
EXTENDS Integers

CONSTANTS Member, Automatic, Call, Template, None

VARIABLES session,   \* the status of the session
          inviting,  \* the session is still being created
          outcome,   \* [Member -> how far the request is, and its result]
          shown,     \* the members whose result the others may see
          drafted    \* [the members of the latest draft -> what it quotes]

ledgerVars == <<session, inviting, outcome, shown, drafted>>

Over == {"rejected", "failed", "completed"}

Present  == {m \in Member : outcome[m].state # "absent"}
Answered == {m \in Member : outcome[m].state \in Over}

LedgerInit ==
    /\ session = "none"
    /\ inviting = FALSE
    /\ outcome = [m \in Member |-> [state |-> "absent", result |-> None]]
    /\ shown = {}
    /\ drafted = [m \in {} |-> None]

OpenSession ==
    /\ session = "none"
    /\ session' = "running"
    /\ inviting' = TRUE
    /\ UNCHANGED <<outcome, shown, drafted>>

\* An automatic member needs not be asked.
Invite(m) ==
    /\ inviting
    /\ outcome[m].state = "absent"
    /\ outcome' = [outcome EXCEPT ![m] =
                     [state |-> IF m \in Automatic THEN "accepted" ELSE "invited", result |-> None]]
    /\ UNCHANGED <<session, inviting, shown, drafted>>

\* Every member is invited, or the server stops before that.
StopInviting ==
    /\ inviting
    /\ inviting' = FALSE
    /\ UNCHANGED <<session, outcome, shown, drafted>>

\* The automatic members start, and with them the session, whatever its
\* creator did with it in the meantime; not before everyone is invited.
StartSession ==
    /\ inviting
    /\ Automatic # {}
    /\ Present = Member
    /\ session' = "running"
    /\ inviting' = FALSE
    /\ UNCHANGED <<outcome, shown, drafted>>

Accept(m) ==
    /\ outcome[m].state = "invited"
    /\ outcome' = [outcome EXCEPT ![m].state = "accepted"]
    /\ UNCHANGED <<session, inviting, shown, drafted>>

Decline(m) ==
    /\ outcome[m].state = "invited"
    /\ outcome' = [outcome EXCEPT ![m].state = "rejected"]
    /\ UNCHANGED <<session, inviting, shown, drafted>>

\* A member submits; no submission ends two requests.
Deliver(m, c) ==
    /\ outcome[m].state \in {"invited", "accepted"}
    /\ \A n \in Member : outcome[n].result # c
    /\ outcome' = [outcome EXCEPT ![m] = [state |-> "completed", result |-> c]]
    /\ UNCHANGED <<session, inviting, shown, drafted>>

\* The execution of an automatic member ends with its template, or fails.
Execute(m) ==
    /\ m \in Automatic
    /\ outcome[m].state = "accepted"
    /\ \/ outcome' = [outcome EXCEPT ![m] = [state |-> "completed", result |-> Template]]
       \/ outcome' = [outcome EXCEPT ![m].state = "failed"]
    /\ UNCHANGED <<session, inviting, shown, drafted>>

\* The row is written without the session; the draft no longer speaks of it.
Overwrite(m) ==
    /\ outcome[m].state \notin {"absent", "overwritten"}
    /\ outcome' = [outcome EXCEPT ![m] = [state |-> "overwritten", result |-> None]]
    /\ drafted' = [n \in DOMAIN drafted \ {m} |-> drafted[n]]
    /\ UNCHANGED <<session, inviting, shown>>

\* The draft quotes the answers of S as they stand, with the files of F; a
\* member who was invited while it was made may be missing.  Somebody has
\* completed, if only by the row of a member that was overwritten.
Consolidate(S, F) ==
    /\ \/ \E m \in S : outcome[m].state = "completed"
       \/ \E m \in Member : outcome[m].state = "overwritten"
    /\ \A m \in F : outcome[m].result \in Call
    /\ drafted' = [m \in S |-> [outcome |-> outcome[m],
                                files |-> IF m \in F THEN outcome[m].result ELSE None]]
    /\ UNCHANGED <<session, inviting, shown, outcome>>

\* A new consolidation begins.
DropDraft ==
    /\ drafted' = [m \in {} |-> None]
    /\ UNCHANGED <<session, inviting, shown, outcome>>

Publish ==
    /\ session = "running"
    /\ session' = "published"
    /\ shown' = Present
    /\ UNCHANGED <<inviting, outcome, drafted>>

Close ==
    /\ session \in {"running", "published"}
    /\ session' \in {"closed", "dissolved"}
    /\ UNCHANGED <<inviting, outcome, shown, drafted>>

LedgerNext ==
    \/ DropDraft
    \/ OpenSession \/ StopInviting \/ StartSession \/ Publish \/ Close
    \/ \E m \in Member :
          \/ Invite(m) \/ Accept(m) \/ Decline(m) \/ Execute(m) \/ Overwrite(m)
          \/ \E c \in Call : Deliver(m, c)
    \/ \E S \in SUBSET Answered : \E F \in SUBSET S : Consolidate(S, F)

LedgerSpec == LedgerInit /\ [][LedgerNext]_ledgerVars

=============================================================================
