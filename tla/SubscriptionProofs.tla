------------------------- MODULE SubscriptionProofs -------------------------
(***************************************************************************)
(* For every set of members, requests and paid plans: an ACTIVE paid plan  *)
(* has been confirmed by a webhook, and so paid for unless one was wrong,  *)
(* and what has ended stays ended unless a further webhook comes.          *)
(***************************************************************************)
EXTENDS Subscription, TLAPS

\* The initial state satisfies the inductive invariant.
LEMMA InitIInv == Init => IInv
<1> SUFFICES ASSUME Init PROVE IInv
  OBVIOUS
<1>1. TypeOK
  BY DEF Init, TypeOK, Status
<1>2. RowsCreated /\ PendingUntilTold /\ ActiveIsPaid
  BY DEF Init, RowsCreated, PendingUntilTold, ActiveIsPaid
<1> QED
  BY <1>1, <1>2 DEF IInv

\* A request that begins is not yet a row, whatever row it has read.
LEMMA BeginIInv ==
    ASSUME IInv, NEW r \in Requests, NEW m \in Members, NEW p \in Plans \union {None},
           NEW row \in Requests \union {None},
           NEW next \in {"cancelOld", "order", "insert", "cancel"},
           Begin(r, m, p, row, next),
           next = "order" => p # Free,
           next \in {"cancelOld", "cancel"} => row \in rows /\ status[row] = "ACTIVE"
    PROVE  IInv'
<1> USE SubscriptionAssumption DEF IInv, Begin, Goto, rowVars, fluxpayVars
<1>1. TypeOK'
  BY DEF TypeOK, InFlight
<1>2. r \notin rows /\ payment[r] = "none"
  BY DEF TypeOK, RowsCreated
<1>3. RowsCreated'
  BY <1>2 DEF TypeOK, RowsCreated
<1>4. PendingUntilTold'
  <2>1. \A q \in rows : plan'[q] = plan[q]
    BY <1>2 DEF TypeOK
  <2>2. next \in {"cancelOld", "cancel"} => plan[row] = Free \/ told[row] # {}
    BY DEF TypeOK, PendingUntilTold
  <2> QED
    BY <1>2, <2>1, <2>2 DEF TypeOK, PendingUntilTold, OrderFound
<1>5. ActiveIsPaid'
  BY <1>2 DEF TypeOK, ActiveIsPaid, Misreported
<1> QED
  BY <1>1, <1>3, <1>4, <1>5

\* The first reads of a subscription and of a cancellation.
LEMMA ReceiveIInv ==
    ASSUME IInv, NEW r \in Requests, Receive(r)
    PROVE  IInv'
<1>1. ASSUME NEW m \in Members, NEW p \in Plans, CreateCheck(r, m, p) PROVE IInv'
  <2>1. AfterCheck(p) \in {"order", "insert"} /\ (AfterCheck(p) = "order" => p # Free)
    BY DEF AfterCheck
  <2>2. CASE Begin(r, m, p, None, AfterCheck(p))
    BY <2>1, <2>2, BeginIInv
  <2>3. ASSUME NEW row \in Active(m), Begin(r, m, p, row, "cancelOld") PROVE IInv'
    BY <2>3, BeginIInv DEF Active, IInv, TypeOK
  <2> QED
    BY <1>1, <2>2, <2>3 DEF CreateCheck
<1>2. ASSUME NEW m \in Members, CancelCheck(r, m) PROVE IInv'
  BY <1>2, BeginIInv DEF CancelCheck, Cancellable, Active, IInv, TypeOK
<1> QED
  BY <1>1, <1>2 DEF Receive

\* A row that was ACTIVE when it was read is cancelled.
LEMMA CancelIInv ==
    ASSUME IInv, NEW r \in Requests, CreateCancelOld(r) \/ Cancel(r)
    PROVE  IInv'
<1> USE SubscriptionAssumption DEF IInv, Goto, SetStatus, fluxpayVars
<1>1. /\ pc[r] \in {"cancelOld", "cancel"}
      /\ \E next \in {"insert", "order", "cancelled"} :
           pc' = [pc EXCEPT ![r] = next] /\ (next = "order" => plan[r] # Free)
      /\ status' = [status EXCEPT ![seen[r]] = "CANCELLED"]
      /\ UNCHANGED <<who, plan, seen, rows, payment, told>>
  BY DEF CreateCancelOld, Cancel, AfterCheck
<1>2. seen[r] \in rows /\ (plan[seen[r]] = Free \/ told[seen[r]] # {})
  BY <1>1 DEF PendingUntilTold
<1>3. TypeOK'
  <2>1. pc' \in [Requests -> {"idle"} \union InFlight \union Ended]
    BY <1>1 DEF TypeOK, InFlight, Ended
  <2> QED
    BY <1>1, <2>1 DEF TypeOK, Status
<1>4. RowsCreated'
  BY <1>1 DEF TypeOK, RowsCreated
<1>5. PendingUntilTold'
  BY <1>1, <1>2 DEF TypeOK, PendingUntilTold, OrderFound
<1>6. ActiveIsPaid'
  BY <1>1 DEF TypeOK, ActiveIsPaid, Misreported
<1> QED
  BY <1>3, <1>4, <1>5, <1>6

\* An order, a payment, and a request that fails: no row changes.
LEMMA PaymentIInv ==
    ASSUME IInv, NEW r \in Requests, CreateOrder(r) \/ CreatePayment(r) \/ Abort(r)
    PROVE  IInv'
<1> USE SubscriptionAssumption DEF IInv, Goto, rowVars, fluxpayVars
<1>1. /\ pc[r] \in InFlight
      /\ pc' = [pc EXCEPT ![r] = IF CreateOrder(r) THEN "payment"
                                 ELSE IF CreatePayment(r) THEN "insert" ELSE "failed"]
      /\ UNCHANGED <<who, plan, seen, rows, status, told>>
  BY DEF CreateOrder, CreatePayment, Abort, InFlight
<1>2. \/ UNCHANGED payment /\ ~CreatePayment(r)
      \/ /\ pc[r] = "payment" /\ ~CreateOrder(r)
         /\ payment' = [payment EXCEPT ![r] = "waiting"]
  BY DEF CreateOrder, CreatePayment, Abort
<1>3. r \notin rows /\ (CreateOrder(r) => plan[r] # Free) /\ (pc[r] = "payment" => plan[r] # Free)
  BY <1>1 DEF RowsCreated, InFlight, CreateOrder
<1>4. pc[r] = "payment" => payment[r] = "none"
  BY DEF RowsCreated, TypeOK
<1>5. TypeOK'
  BY <1>1, <1>2, <1>4 DEF TypeOK, InFlight, Ended
<1>6. RowsCreated'
  <2>1. CASE CreateOrder(r)
    BY <1>3, <2>1 DEF TypeOK, RowsCreated, CreateOrder
  <2>2. CASE CreatePayment(r)
    BY <1>3, <2>2 DEF TypeOK, RowsCreated, CreatePayment
  <2>3. CASE Abort(r)
    BY <1>3, <2>3 DEF TypeOK, RowsCreated, Abort
  <2> QED
    BY <2>1, <2>2, <2>3
<1>7. PendingUntilTold'
  BY <1>1 DEF TypeOK, PendingUntilTold, OrderFound
<1>8. ActiveIsPaid'
  BY <1>1, <1>2, <1>3 DEF TypeOK, ActiveIsPaid, Misreported
<1> QED
  BY <1>5, <1>6, <1>7, <1>8

\* The row of a subscription is inserted.
LEMMA CreateInsertIInv ==
    ASSUME IInv, NEW r \in Requests, CreateInsert(r)
    PROVE  IInv'
<1> USE SubscriptionAssumption DEF IInv, CreateInsert, Goto, SetStatus, InitialStatus, fluxpayVars
<1>1. TypeOK'
  BY DEF TypeOK, Status, Ended
<1>2. RowsCreated'
  BY DEF TypeOK, RowsCreated
<1>3. PendingUntilTold'
  BY DEF TypeOK, PendingUntilTold, RowsCreated, OrderFound
<1>4. ActiveIsPaid'
  BY DEF TypeOK, ActiveIsPaid, RowsCreated, Misreported
<1> QED
  BY <1>1, <1>2, <1>3, <1>4

\* A webhook sets the status that follows from what it says; a payment that was
\* confirmed stays so.
LEMMA FluxPayIInv ==
    ASSUME IInv, NEW r \in Requests, FluxPay(r)
    PROVE  IInv'
<1> USE SubscriptionAssumption DEF IInv, SetStatus, requestVars, rowVars
<1>1. ASSUME NEW type, Webhook(r, type) PROVE IInv'
  <2> USE <1>1 DEF Webhook, StatusAfter, OrderFound
  <2>1. TypeOK'
    BY DEF TypeOK, Status, Outcomes
  <2>2. RowsCreated'
    BY DEF TypeOK, RowsCreated
  <2>3. PendingUntilTold'
    <3>1. \A q \in Requests :
             \/ told'[q] = told[q] /\ status'[q] = status[q]
             \/ q \in rows /\ plan[q] # Free /\ told'[q] # {}
      BY DEF TypeOK
    <3>2. \A q \in Requests : told[q] # {} => told'[q] # {}
      BY <3>1
    <3> QED
      BY <3>1, <3>2 DEF TypeOK, PendingUntilTold
  <2>4. ActiveIsPaid'
    BY DEF TypeOK, ActiveIsPaid, Misreported
  <2> QED
    BY <2>1, <2>2, <2>3, <2>4
<1>2. CASE Settle(r)
  <2> USE <1>2 DEF Settle
  <2>1. TypeOK'
    BY DEF TypeOK
  <2>2. RowsCreated' /\ PendingUntilTold'
    BY DEF TypeOK, RowsCreated, PendingUntilTold, OrderFound
  <2>3. ActiveIsPaid'
    BY DEF TypeOK, ActiveIsPaid, Misreported
  <2> QED
    BY <2>1, <2>2, <2>3
<1> QED
  BY <1>1, <1>2 DEF FluxPay

\* Every step keeps the inductive invariant.
LEMMA StepIInv == IInv /\ [Next]_vars => IInv'
<1> SUFFICES ASSUME IInv, [Next]_vars PROVE IInv'
  OBVIOUS
<1>1. ASSUME NEW r \in Requests, Serve(r) PROVE IInv'
  BY <1>1, CancelIInv, PaymentIInv, CreateInsertIInv DEF Serve
<1>2. CASE UNCHANGED vars
  BY <1>2 DEF vars, requestVars, rowVars, fluxpayVars, IInv, TypeOK, RowsCreated,
     PendingUntilTold, OrderFound, ActiveIsPaid, Misreported
<1> QED
  BY <1>1, <1>2, ReceiveIInv, FluxPayIInv, PaymentIInv DEF Next

\* The inductive invariant holds throughout every behaviour.
THEOREM Invariance == Spec => []IInv
<1> QED
  BY InitIInv, StepIInv, PTL DEF Spec

\* An ACTIVE paid plan has been confirmed by a webhook, and has been paid for
\* unless a webhook of its order said what was not so.
THEOREM ActiveIsAlwaysPaid == Spec => []ActiveIsPaid
<1>1. IInv => ActiveIsPaid
  BY DEF IInv
<1> QED
  BY <1>1, Invariance, PTL

\* Only a webhook sets the row of an ended subscription ACTIVE, and only if it
\* one had found the row before: until then it was PENDING.
LEMMA StepEndedStays ==
    ASSUME IInv, Next, NEW row \in rows,
           status[row] \in {"CANCELLED", "EXPIRED"}, status'[row] = "ACTIVE"
    PROVE  told[row] # {}
<1> USE SubscriptionAssumption DEF IInv, TypeOK
<1>1. ASSUME NEW type, Webhook(row, type) PROVE told[row] # {}
  BY <1>1 DEF Webhook, OrderFound, PendingUntilTold
<1>2. ASSUME NEW r \in Requests, Receive(r) PROVE FALSE
  BY <1>2 DEF Receive, CreateCheck, CancelCheck, Begin, rowVars
<1>3. ASSUME NEW r \in Requests, Serve(r) PROVE FALSE
  <2>1. CASE CreateInsert(r)
    BY <2>1 DEF CreateInsert, SetStatus, RowsCreated
  <2>2. CASE CreateCancelOld(r) \/ Cancel(r)
    BY <2>2 DEF CreateCancelOld, Cancel, SetStatus
  <2>3. CASE CreateOrder(r) \/ CreatePayment(r)
    BY <2>3 DEF CreateOrder, CreatePayment, rowVars
  <2> QED
    BY <1>3, <2>1, <2>2, <2>3 DEF Serve
<1>4. ASSUME NEW r \in Requests, FluxPay(r) PROVE \E type : Webhook(row, type)
  BY <1>4 DEF FluxPay, Webhook, Settle, SetStatus, rowVars
<1>5. ASSUME NEW r \in Requests, Abort(r) PROVE FALSE
  BY <1>5 DEF Abort, rowVars
<1> QED
  BY <1>1, <1>2, <1>3, <1>4, <1>5 DEF Next

\* A cancelled or expired subscription comes back only by a further webhook.
THEOREM EndedAlwaysStaysEnded == Spec => EndedStaysEnded
<1>1. IInv /\ [Next]_vars =>
        [\A row \in rows :
            status[row] \in {"CANCELLED", "EXPIRED"} /\ status'[row] = "ACTIVE"
              => told[row] # {}]_vars
  BY StepEndedStays
<1> QED
  BY <1>1, Invariance, PTL DEF Spec, EndedStaysEnded

=============================================================================
