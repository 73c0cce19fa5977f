---------------------------- MODULE Subscription ----------------------------
(***************************************************************************)
(* A member's subscriptions (codes/server/src/domain/payment/service.rs):  *)
(* requests that subscribe or cancel, the payment service FluxPay, and the *)
(* webhooks by which it tells what became of a payment.                    *)
(*                                                                         *)
(* None of the handlers uses a transaction or a lock: every query and      *)
(* every call of FluxPay is a step of its own.  An update writes the       *)
(* status of the row that was read, whatever that status is by then.  A    *)
(* webhook's handler believes the event type it is given: it asks nobody   *)
(* what became of the payment.                                             *)
(*                                                                         *)
(* A request is served once.  The row a request inserts, its order and its *)
(* payment are named by the request.                                       *)
(***************************************************************************)
EXTENDS Naturals, FiniteSets

CONSTANTS
    Members,
    Requests,    \* subscription and cancellation requests
    PaidPlans,   \* Pro and Team
    Free,        \* the plan that costs nothing
    None

ASSUME SubscriptionAssumption ==
    /\ None \notin Members \union Requests \union PaidPlans \union {Free}
    /\ Free \notin PaidPlans

VARIABLES
    pc,       \* where each request is
    who,      \* the member who made it
    plan,     \* the plan it asks for
    seen,     \* the ACTIVE row it read
    rows,     \* member_subscription rows
    status,   \* member_subscription.status
    payment,  \* FluxPay: what became of the payment of each order
    told      \* history: what webhooks have said of the payment of each row

requestVars == <<pc, who, plan, seen>>
rowVars == <<rows, status>>
fluxpayVars == <<payment, told>>
vars == <<requestVars, rowVars, fluxpayVars>>

Plans == PaidPlans \union {Free}
Status == {"ACTIVE", "CANCELLED", "EXPIRED", "PENDING"}
InFlight == {"cancelOld", "order", "payment", "insert", "cancel"}
Ended == {"created", "cancelled", "failed"}

\* The event types the handler knows: payment.confirmed and payment.failed.
Outcomes == {"confirmed", "failed"}

TypeOK ==
    /\ pc \in [Requests -> {"idle"} \union InFlight \union Ended]
    /\ who \in [Requests -> Members \union {None}]
    /\ plan \in [Requests -> Plans \union {None}]
    /\ seen \in [Requests -> Requests \union {None}]
    /\ rows \subseteq Requests
    /\ status \in [Requests -> Status]
    /\ payment \in [Requests -> {"none", "waiting"} \union Outcomes]
    /\ told \in [Requests -> SUBSET Outcomes]

Init ==
    /\ pc = [r \in Requests |-> "idle"]
    /\ who = [r \in Requests |-> None]
    /\ plan = [r \in Requests |-> None]
    /\ seen = [r \in Requests |-> None]
    /\ rows = {}
    /\ status = [r \in Requests |-> "PENDING"]
    /\ payment = [r \in Requests |-> "none"]
    /\ told = [r \in Requests |-> {}]

-----------------------------------------------------------------------------

\* The member's ACTIVE rows; every query takes one of them.
Active(m) == {row \in rows : who[row] = m /\ status[row] = "ACTIVE"}

Goto(r, next) == pc' = [pc EXCEPT ![r] = next]

SetStatus(row, new) == status' = [status EXCEPT ![row] = new]

Begin(r, m, p, row, next) ==
    /\ pc[r] = "idle"
    /\ Goto(r, next)
    /\ who' = [who EXCEPT ![r] = m]
    /\ plan' = [plan EXCEPT ![r] = p]
    /\ seen' = [seen EXCEPT ![r] = row]
    /\ UNCHANGED <<rowVars, fluxpayVars>>

\* Only a paid plan needs an order.
AfterCheck(p) == IF p = Free THEN "insert" ELSE "order"

(***************************************************************************)
(* create_subscription                                                     *)
(***************************************************************************)

\* The member's ACTIVE row, if there is one, is of another plan.
CreateCheck(r, m, p) ==
    \/ /\ Active(m) = {}
       /\ Begin(r, m, p, None, AfterCheck(p))
    \/ \E row \in Active(m) :
         /\ plan[row] # p
         /\ Begin(r, m, p, row, "cancelOld")

CreateCancelOld(r) ==
    /\ pc[r] = "cancelOld"
    /\ SetStatus(seen[r], "CANCELLED")
    /\ Goto(r, AfterCheck(plan[r]))
    /\ UNCHANGED <<who, plan, seen, rows, fluxpayVars>>

CreateOrder(r) ==
    /\ pc[r] = "order"
    /\ Goto(r, "payment")
    /\ UNCHANGED <<who, plan, seen, rowVars, fluxpayVars>>

CreatePayment(r) ==
    /\ pc[r] = "payment"
    /\ payment' = [payment EXCEPT ![r] = "waiting"]
    /\ Goto(r, "insert")
    /\ UNCHANGED <<who, plan, seen, rowVars, told>>

InitialStatus(p) == IF p = Free THEN "ACTIVE" ELSE "PENDING"

CreateInsert(r) ==
    /\ pc[r] = "insert"
    /\ rows' = rows \union {r}
    /\ SetStatus(r, InitialStatus(plan[r]))
    /\ Goto(r, "created")
    /\ UNCHANGED <<who, plan, seen, fluxpayVars>>

(***************************************************************************)
(* cancel_subscription                                                     *)
(***************************************************************************)

\* Mutant: any row of the member may be cancelled.
Cancellable_AnyStatus(m) == {row \in rows : who[row] = m /\ plan[row] # Free}

Cancellable(m) == {row \in Active(m) : plan[row] # Free}

CancelCheck(r, m) ==
    \E row \in Cancellable(m) : Begin(r, m, None, row, "cancel")

Cancel(r) ==
    /\ pc[r] = "cancel"
    /\ SetStatus(seen[r], "CANCELLED")
    /\ Goto(r, "cancelled")
    /\ UNCHANGED <<who, plan, seen, rows, fluxpayVars>>

(***************************************************************************)
(* handle_fluxpay_webhook                                                  *)
(***************************************************************************)

\* Mutant: the two types of webhook are mixed up.
StatusAfter_Swapped(type) == IF type = "confirmed" THEN "EXPIRED" ELSE "ACTIVE"

StatusAfter(type) == IF type = "confirmed" THEN "ACTIVE" ELSE "EXPIRED"

\* The row of the order; a free plan's row has no order.
OrderFound(r) == r \in rows /\ plan[r] # Free

\* A webhook may come at any time and any number of times.  One for an order
\* without a row, or of another type, is acknowledged like any other.
Webhook(r, type) ==
    /\ IF OrderFound(r) /\ type \in Outcomes
       THEN /\ SetStatus(r, StatusAfter(type))
            /\ told' = [told EXCEPT ![r] = @ \union {type}]
       ELSE UNCHANGED <<status, told>>
    /\ UNCHANGED <<requestVars, rows, payment>>

(***************************************************************************)
(* FluxPay, and what may fail                                              *)
(***************************************************************************)

\* A payment is confirmed or fails as soon as it exists.
Settle(r) ==
    /\ payment[r] = "waiting"
    /\ \E outcome \in Outcomes : payment' = [payment EXCEPT ![r] = outcome]
    /\ UNCHANGED <<requestVars, rowVars, told>>

\* FluxPay or the database returns an error or nothing in time, the client
\* hung up, the process stopped.  A payment may exist all the same.
Abort(r) ==
    /\ pc[r] \in InFlight
    /\ Goto(r, "failed")
    /\ \/ pc[r] = "payment" /\ payment' = [payment EXCEPT ![r] = "waiting"]
       \/ UNCHANGED payment
    /\ UNCHANGED <<who, plan, seen, rowVars, told>>

-----------------------------------------------------------------------------

Serve(r) ==
    \/ CreateCancelOld(r) \/ CreateOrder(r) \/ CreatePayment(r) \/ CreateInsert(r)
    \/ Cancel(r)

Receive(r) ==
    \E m \in Members :
        \/ \E p \in Plans : CreateCheck(r, m, p)
        \/ CancelCheck(r, m)

FluxPay(r) == Settle(r) \/ \E type \in Outcomes \union {"other"} : Webhook(r, type)

Next == \E r \in Requests : Receive(r) \/ Serve(r) \/ FluxPay(r) \/ Abort(r)

Spec == Init /\ [][Next]_vars

-----------------------------------------------------------------------------
(***************************************************************************)
(* Properties                                                              *)
(***************************************************************************)

\* Rows of which a webhook has said what did not become of their payment.
Misreported == {r \in Requests : ~(told[r] \subseteq {payment[r]})}

\* A paid plan is ACTIVE only after a webhook that found its row has confirmed
\* the payment, whatever is lost, repeated or out of order; so it has been paid
\* for as long as what webhooks said of it was true.  The handler checks no
\* more than that (create_subscription inserts PENDING; handle_fluxpay_webhook).
ActiveIsPaid ==
    \A row \in rows :
        status[row] = "ACTIVE" /\ plan[row] # Free =>
            /\ "confirmed" \in told[row]
            /\ payment[row] = "confirmed" \/ row \in Misreported

\* A row that was cancelled or has expired is not ACTIVE again: no late step of
\* another request brings it back, only a further webhook about its order does
\* (cancel_subscription, handle_fluxpay_webhook).
EndedStaysEnded ==
    [][\A row \in rows :
          status[row] \in {"CANCELLED", "EXPIRED"} /\ status'[row] = "ACTIVE"
              => told[row] # {}]_vars

\* The inductive invariant.  A row's plan is the one its request asked for, and
\* only paid plans have a payment.
RowsCreated ==
    /\ \A row \in rows : pc[row] = "created"
    /\ \A r \in Requests :
         /\ pc[r] \in {"order", "payment"} => plan[r] # Free
         /\ payment[r] # "none" => plan[r] # Free /\ pc[r] \in {"insert", "created", "failed"}

\* A paid plan's row is PENDING until a webhook has found it, and what a request
\* is about to cancel was ACTIVE and so is not PENDING any more.
PendingUntilTold ==
    /\ \A row \in rows : plan[row] # Free /\ told[row] = {} => status[row] = "PENDING"
    /\ \A r \in Requests : told[r] # {} => OrderFound(r)
    /\ \A r \in Requests :
         pc[r] \in {"cancelOld", "cancel"} =>
             seen[r] \in rows /\ (plan[seen[r]] = Free \/ told[seen[r]] # {})

IInv ==
    /\ TypeOK
    /\ RowsCreated
    /\ PendingUntilTold
    /\ ActiveIsPaid

=============================================================================
