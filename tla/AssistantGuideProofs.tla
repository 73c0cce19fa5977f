------------------------ MODULE AssistantGuideProofs ------------------------
(***************************************************************************)
(* For every set of members and retrospects, any finite number of requests *)
(* and every limit: a use is recorded for each request whose transaction   *)
(* was committed and for no other, a member whose transactions do not overlap never passes the limit, and    *)
(* what an answer reports as remaining is not negative.                    *)
(***************************************************************************)
EXTENDS AssistantGuide, FiniteSetTheorems, TLAPS

\* Sets of requests can be counted, and a part counts no more than the whole.
LEMMA CountOfRequests ==
    ASSUME NEW S \in SUBSET Requests
    PROVE  /\ IsFiniteSet(S) /\ Cardinality(S) \in Nat
           /\ \A T \in SUBSET S : Cardinality(T) <= Cardinality(S)
<1>1. IsFiniteSet(S)
  BY FS_Subset, GuideAssumption
<1> QED
  BY <1>1, FS_CardinalityType, FS_Subset

\* One more request counts one more.
LEMMA CountOneMore ==
    ASSUME NEW S \in SUBSET Requests, NEW r \in Requests
    PROVE  Cardinality(S \union {r}) = IF r \in S THEN Cardinality(S) ELSE Cardinality(S) + 1
  BY CountOfRequests, FS_AddElement

\* Where used rows are requests, the counts of them are natural numbers.
LEMMA UsesCounted ==
    ASSUME used \subseteq Requests, NEW m, NEW n
    PROVE  /\ UsesSince(m, n) \in Nat
           /\ Cardinality(LimitedUses(m, n)) \in Nat
<1>1. {q \in used : who[q] = m /\ made[q] >= n} \in SUBSET Requests
  OBVIOUS
<1>2. LimitedUses(m, n) \in SUBSET Requests
  BY DEF LimitedUses
<1> QED
  BY <1>1, <1>2, CountOfRequests DEF UsesSince

\* The initial state satisfies the inductive invariant.
LEMMA InitIInv == Init => IInv
<1> SUFFICES ASSUME Init PROVE IInv
  OBVIOUS
<1> USE GuideAssumption
<1>1. Cardinality(Requests) \in Nat
  BY CountOfRequests
<1>2. TypeOK
  BY <1>1 DEF Init, TypeOK
<1>3. CountStands /\ RequestsBegun /\ CommittedWithin /\ ChargedIffCommitted
  BY DEF Init, CountStands, RequestsBegun, CommittedWithin, ChargedIffCommitted, Committed
<1>4. LimitHeldApart
  <2>1. \A m, mon : LimitedUses(m, mon) = {}
    BY DEF Init, LimitedUses
  <2> QED
    BY <2>1, FS_EmptySet DEF LimitHeldApart
<1>5. PoolConserved
  <2>1. Cardinality(Admitted) \in Nat
    BY CountOfRequests DEF Admitted
  <2> QED
    BY <2>1 DEF Init, PoolConserved
<1> QED
  BY <1>2, <1>3, <1>4, <1>5 DEF IInv

\* A step of a request that has no use and records none leaves the counts, and
\* what was answered, as they were.
LEMMA UsesKept ==
    ASSUME IInv, NEW r \in Requests,
           pc[r] \notin Committed, pc'[r] \notin Committed \union {"commit"},
           \A q \in Requests \ {r} :
               /\ pc'[q] = pc[q] /\ who'[q] = who[q] /\ retro'[q] = retro[q]
               /\ limit'[q] = limit[q] /\ since'[q] = since[q]
               /\ final'[q] = final[q] /\ made'[q] = made[q],
           UNCHANGED <<retros, used, overlapped>>
    PROVE  CountStands' /\ CommittedWithin' /\ ChargedIffCommitted' /\ LimitHeldApart'
<1>1. r \notin used /\ used \subseteq Requests
  BY DEF IInv, TypeOK, ChargedIffCommitted
<1>2. \A q \in used : q # r /\ who'[q] = who[q] /\ made'[q] = made[q] /\ limit'[q] = limit[q]
  BY <1>1
<1>3. \A m, n : UsesSince(m, n)' = UsesSince(m, n)
  <2> TAKE m, n
  <2>1. {q \in used' : who'[q] = m /\ made'[q] >= n} = {q \in used : who[q] = m /\ made[q] >= n}
    BY <1>2
  <2> QED
    BY <2>1 DEF UsesSince
<1>4. \A m, n : LimitedUses(m, n)' = LimitedUses(m, n)
  BY <1>2 DEF LimitedUses
<1>5. CountStands'
  BY <1>3 DEF IInv, CountStands
<1>6. CommittedWithin' /\ ChargedIffCommitted'
  BY <1>1 DEF IInv, CommittedWithin, ChargedIffCommitted, Committed
<1>7. LimitHeldApart'
  BY <1>4 DEF IInv, LimitHeldApart
<1> QED
  BY <1>5, <1>6, <1>7

\* A bound that holds still holds with less on the left and more on the right.
LEMMA BoundKept ==
    ASSUME NEW c \in Int, NEW b \in Int, NEW a \in Int, NEW d \in Int, NEW e \in Int,
           NEW n \in Int, NEW k \in Int,
           a - b <= d - e, n <= k, c + d - e <= n
    PROVE  c + a - b <= k
  OBVIOUS

\* The pool is accounted for as long as no admitted request is forgotten and
\* no cell is taken.
LEMMA PoolKept ==
    ASSUME IInv, TypeOK', Admitted \subseteq Admitted',
           refills' - pool' <= refills - pool
    PROVE  PoolConserved'
<1>1. Cardinality(Admitted) \in Nat /\ Cardinality(Admitted') \in Nat
      /\ Cardinality(Admitted) <= Cardinality(Admitted')
  BY CountOfRequests DEF Admitted
<1>2. /\ PoolCells \in Int /\ pool \in Int /\ refills \in Int
      /\ pool' \in Int /\ refills' \in Int
  BY GuideAssumption DEF IInv, TypeOK
<1>3. PoolCells + refills - pool <= Cardinality(Admitted)
  BY DEF IInv, PoolConserved
<1>4. PoolCells + refills' - pool' <= Cardinality(Admitted')
  <2> DEFINE n == Cardinality(Admitted)
             k == Cardinality(Admitted')
  <2>1. n \in Int /\ k \in Int /\ n <= k /\ PoolCells + refills - pool <= n
    BY <1>1, <1>3
  <2> HIDE DEF n, k
  <2>2. PoolCells + refills' - pool' <= k
    BY <1>2, <2>1, BoundKept
  <2> QED
    BY <2>2 DEF k
<1> QED
  BY <1>4 DEF PoolConserved

\* A request is received, and refused by its member's limiter or not.
LEMMA ArriveIInv ==
    ASSUME IInv, NEW r \in Requests, NEW m \in Members, NEW e \in Endpoints, NEW x \in Retros,
           NEW verdict, NEW granted \in BOOLEAN, Arrive(r, m, e, x, verdict, granted)
    PROVE  IInv'
<1> USE DEF Arrive, PoolAtArrival, tableVars, clockVars
<1>1. TypeOK'
  BY DEF IInv, TypeOK, InFlight, Ended
<1>2. CountStands' /\ CommittedWithin' /\ ChargedIffCommitted' /\ LimitHeldApart'
  BY UsesKept DEF IInv, TypeOK, Committed
<1>3. RequestsBegun'
  BY DEF IInv, TypeOK, RequestsBegun
<1>4. Admitted \subseteq Admitted'
  BY DEF IInv, TypeOK, Admitted
<1>5. PoolConserved'
  BY <1>1, <1>4, PoolKept, GuideAssumption DEF IInv, TypeOK
<1> QED
  BY <1>1, <1>2, <1>3, <1>5 DEF IInv

\* A cell is taken by a request that is admitted with it.
LEMMA TakePoolCellIInv ==
    ASSUME IInv, NEW r \in Requests, TakePoolCell(r)
    PROVE  IInv'
<1> USE DEF TakePoolCell, Continue, tableVars, clockVars
<1>1. TypeOK'
  BY GuideAssumption DEF IInv, TypeOK, InFlight, Ended
<1>2. CountStands' /\ CommittedWithin' /\ ChargedIffCommitted' /\ LimitHeldApart'
  BY UsesKept DEF IInv, TypeOK, Committed
<1>3. RequestsBegun'
  BY DEF IInv, TypeOK, RequestsBegun
<1>4. PoolConserved'
  <2>1. CASE pool > 0
    <3> DEFINE n == Cardinality(Admitted)
               k == Cardinality(Admitted')
    <3>1. r \notin Admitted /\ Admitted' = Admitted \union {r}
      BY <2>1 DEF IInv, TypeOK, Admitted
    <3>2. n \in Nat /\ k = n + 1
      BY <3>1, CountOfRequests, CountOneMore DEF Admitted
    <3>3. PoolCells + refills - pool <= n
      BY DEF IInv, PoolConserved
    <3>4. /\ PoolCells \in Int /\ pool \in Int /\ refills \in Int
          /\ pool' = pool - 1 /\ refills' = refills
      BY <2>1, GuideAssumption DEF IInv, TypeOK
    <3> HIDE DEF n, k
    <3>5. PoolCells + refills' - pool' <= k
      BY <3>2, <3>3, <3>4
    <3> QED
      BY <3>5 DEF PoolConserved, k
  <2>2. CASE ~(pool > 0)
    <3>1. Admitted \subseteq Admitted'
      BY <2>2 DEF IInv, TypeOK, Admitted
    <3> QED
      BY <1>1, <2>2, <3>1, PoolKept, GuideAssumption DEF IInv, TypeOK
  <2> QED
    BY <2>1, <2>2
<1> QED
  BY <1>1, <1>2, <1>3, <1>4 DEF IInv

\* The checks before the call, the call, and whatever ends a request before its
\* transaction is committed.
LEMMA BeforeCountIInv ==
    ASSUME IInv, NEW r \in Requests,
           GuideCheck(r) \/ (Abort(r) /\ pc[r] # "kept") \/ \E a \in Answers : GuideCall(r, a)
    PROVE  IInv'
<1> USE DEF Continue, cellVars, tableVars, clockVars
<1>1. /\ pc[r] \in InFlight \ {"kept"}
      /\ \E next \in {"calling", "count", "failed"} :
            /\ pc' = [pc EXCEPT ![r] = next]
            /\ next = "calling" => since' = [since EXCEPT ![r] = month]
            /\ next = "count" => pc[r] = "calling" /\ since' = since
      /\ limit' \in [Requests -> {MonthlyLimit, None}]
      /\ since' \in [Requests -> 0..MaxMonth]
      /\ \A q \in Requests \ {r} : limit'[q] = limit[q] /\ since'[q] = since[q]
      /\ UNCHANGED <<who, endpoint, retro, final, pool, refills, retros, drafts, used, made,
                     month, paid, overlapped>>
  BY DEF IInv, TypeOK, InFlight, GuideCheck, GuideCall, Abort, PlanLimit
<1>2. TypeOK'
  BY <1>1, ZenonT(30) DEF IInv, TypeOK, InFlight, Ended
<1>3. CountStands' /\ CommittedWithin' /\ ChargedIffCommitted' /\ LimitHeldApart'
  BY <1>1, UsesKept DEF IInv, TypeOK, InFlight, Committed
<1>4. RequestsBegun'
  <2>1. month \in Int /\ month <= month
    BY GuideAssumption DEF IInv, TypeOK
  <2> QED
    BY <1>1, <2>1 DEF IInv, TypeOK, RequestsBegun, InFlight
<1>5. Admitted \subseteq Admitted'
  BY <1>1 DEF IInv, TypeOK, Admitted
<1>6. PoolConserved'
  BY <1>1, <1>2, <1>5, PoolKept, GuideAssumption DEF IInv, TypeOK
<1> QED
  BY <1>2, <1>3, <1>4, <1>6 DEF IInv

\* The transaction inserts its use and counts: until it commits nobody else
\* counts it, and a second open transaction of the member is an overlap.
LEMMA GuideCountIInv ==
    ASSUME IInv, NEW r \in Requests, GuideCount(r)
    PROVE  IInv'
<1> DEFINE before == {q \in used : who[q] = who[r] /\ made[q] >= since[r]}
<1> USE DEF GuideCount, Continue, cellVars, clockVars
<1>1. /\ r \notin used /\ used \subseteq Requests /\ before \in SUBSET Requests
      /\ pc[r] = "count" /\ pc'[r] \in {"commit", "failed"}
      /\ UNCHANGED <<who, endpoint, retro, limit, since, pool, refills, retros, drafts, used,
                     month, paid>>
      /\ \A q \in Requests \ {r} : pc'[q] = pc[q] /\ final'[q] = final[q] /\ made'[q] = made[q]
  BY DEF IInv, TypeOK, ChargedIffCommitted, Committed
<1>2. /\ UsesSince(who[r], since[r]) \in Nat
      /\ UsesSince(who[r], since[r]) + 1 <= Cardinality(Requests)
      /\ Cardinality(Requests) \in Nat
  <2>1. before \union {r} \in SUBSET Requests /\ r \notin before
    BY <1>1
  <2>2. Cardinality(before \union {r}) = Cardinality(before) + 1
    BY <1>1, <2>1, CountOneMore
  <2>3. Cardinality(before \union {r}) <= Cardinality(Requests)
    BY <2>1, CountOfRequests
  <2> QED
    BY <1>1, <2>2, <2>3, CountOfRequests DEF UsesSince
<1>3. TypeOK'
  <2>1. pc' \in [Requests -> {"idle"} \union InFlight \union Ended]
    BY DEF IInv, TypeOK, InFlight, Ended
  <2>2. final' \in [Requests -> 0..Cardinality(Requests)]
    BY <1>2 DEF IInv, TypeOK, CountAfter
  <2>3. made' \in [Requests -> 0..MaxMonth]
    BY DEF IInv, TypeOK
  <2>4. overlapped' \subseteq Members
    BY <1>1 DEF IInv, TypeOK, RequestsBegun
  <2> QED
    BY <1>1, <2>1, <2>2, <2>3, <2>4 DEF IInv, TypeOK
<1>4. CountStands'
  <2>1. CASE pc'[r] = "failed"
    BY <1>1, <2>1, UsesKept DEF IInv, TypeOK, Committed
  <2>2. CASE pc'[r] = "commit"
    <3>1. /\ retro[r] \in retros
          /\ final'[r] = UsesSince(who[r], since[r]) + 1
          /\ made'[r] = month
          /\ overlapped' = IF OpenTxns(who[r]) # {} THEN overlapped \union {who[r]} ELSE overlapped
      BY <2>2 DEF IInv, TypeOK, CountAfter
    <3>2. \A m, n : UsesSince(m, n)' = UsesSince(m, n)
      <4> TAKE m, n
      <4>1. \A q \in used : q \in Requests \ {r}
        BY <1>1
      <4>2. {q \in used' : who'[q] = m /\ made'[q] >= n}
              = {q \in used : who[q] = m /\ made[q] >= n}
        BY <1>1, <4>1
      <4> QED
        BY <4>2 DEF UsesSince
    <3>3. since[r] <= made'[r]
      BY <1>1, <3>1 DEF IInv, RequestsBegun
    <3>4. UsesSince(who[r], since[r]) + 1 <= UsesSince(who[r], since[r]) + 1
      BY <1>2
    <3>5. who[r] \notin overlapped' => \A q \in Requests : pc'[q] = "commit" /\ who[q] = who[r] => q = r
      BY <1>1, <3>1 DEF OpenTxns
    <3>6. \A q \in Requests \ {r} :
             pc[q] = "commit" /\ who[q] \notin overlapped' => who[q] \notin overlapped /\ who[q] # who[r]
      BY <3>1 DEF OpenTxns
    <3> SUFFICES ASSUME NEW q \in Requests, pc'[q] = "commit"
                 PROVE  /\ retro'[q] \in retros'
                        /\ since'[q] <= made'[q]
                        /\ who'[q] \notin overlapped' =>
                             /\ UsesSince(who[q], since[q]) + 1 <= final'[q]
                             /\ \A s \in Requests : pc'[s] = "commit" /\ who[s] = who[q] => s = q
      BY <1>1, <3>2 DEF CountStands
    <3>7. CASE q = r
      BY <1>1, <3>1, <3>3, <3>4, <3>5, <3>7
    <3>8. CASE q # r
      BY <1>1, <3>6, <3>8 DEF IInv, CountStands
    <3> QED
      BY <3>7, <3>8
  <2> QED
    BY <1>1, <2>1, <2>2
<1>5. RequestsBegun' /\ CommittedWithin' /\ ChargedIffCommitted'
  BY <1>1 DEF IInv, RequestsBegun, CommittedWithin, ChargedIffCommitted, Committed
<1>6. LimitHeldApart'
  <2>1. \A m, mon : LimitedUses(m, mon)' = LimitedUses(m, mon)
    BY <1>1 DEF LimitedUses
  <2>2. overlapped \subseteq overlapped'
    BY <1>1
  <2> QED
    BY <2>1, <2>2 DEF IInv, LimitHeldApart
<1>7. PoolConserved'
  <2>1. Admitted \subseteq Admitted'
    BY <1>1 DEF IInv, TypeOK, Admitted
  <2>2. refills' - pool' <= refills - pool
    BY <1>1, GuideAssumption DEF IInv, TypeOK
  <2> QED
    BY <1>3, <2>1, <2>2, PoolKept
<1> QED
  BY <1>3, <1>4, <1>5, <1>6, <1>7 DEF IInv

\* The transaction commits its use, or gives it up if the count was over the
\* limit: what the member has used by then is no more than was counted.
LEMMA GuideCommitIInv ==
    ASSUME IInv, NEW r \in Requests, GuideCommit(r)
    PROVE  IInv'
<1> USE DEF GuideCommit, Continue, cellVars, clockVars, Recorded
<1>1. /\ r \notin used /\ used \subseteq Requests /\ retro[r] \in retros
      /\ pc[r] = "commit" /\ pc' = [pc EXCEPT ![r] = IF OverLimit(r) THEN "over" ELSE "kept"]
      /\ used' = IF OverLimit(r) THEN used ELSE used \union {r}
      /\ UNCHANGED <<who, endpoint, retro, limit, since, final, pool, refills, retros, drafts,
                     made, month, paid, overlapped>>
  BY DEF IInv, TypeOK, ChargedIffCommitted, Committed, CountStands
<1>2. TypeOK'
  BY <1>1 DEF IInv, TypeOK, InFlight, Ended
<1>3. ASSUME OverLimit(r)
      PROVE  CountStands' /\ CommittedWithin' /\ ChargedIffCommitted' /\ LimitHeldApart'
  BY <1>1, <1>3, UsesKept DEF IInv, TypeOK, Committed
<1>4. ASSUME ~OverLimit(r)
      PROVE  CountStands' /\ CommittedWithin' /\ ChargedIffCommitted' /\ LimitHeldApart'
  <2>1. CountStands'
    <3> SUFFICES ASSUME NEW q \in Requests, pc'[q] = "commit", who[q] \notin overlapped
                 PROVE  UsesSince(who[q], since[q])' + 1 <= final[q]
      BY <1>1 DEF IInv, TypeOK, CountStands
    <3>1. q # r /\ pc[q] = "commit"
      BY <1>1, <1>4 DEF IInv, TypeOK
    <3>2. who[r] # who[q]
      BY <1>1, <3>1 DEF IInv, CountStands
    <3>3. {s \in used' : who'[s] = who[q] /\ made'[s] >= since[q]}
            = {s \in used : who[s] = who[q] /\ made[s] >= since[q]}
      BY <1>1, <3>2
    <3>4. UsesSince(who[q], since[q])' = UsesSince(who[q], since[q])
      BY <1>1, <3>3 DEF UsesSince
    <3> QED
      BY <3>1, <3>4 DEF IInv, CountStands
  <2>2. limit[r] # None => limit[r] = MonthlyLimit /\ final[r] <= MonthlyLimit
    <3>1. limit[r] \in {MonthlyLimit, None} /\ final[r] \in 0..Cardinality(Requests)
      BY DEF IInv, TypeOK
    <3>2. Cardinality(Requests) \in Nat /\ MonthlyLimit \in Nat
      BY CountOfRequests, GuideAssumption
    <3> QED
      BY <1>4, <3>1, <3>2 DEF OverLimit
  <2>3. CommittedWithin' /\ ChargedIffCommitted'
    BY <1>1, <1>4, <2>2 DEF IInv, TypeOK, CommittedWithin, ChargedIffCommitted, Committed
  <2>4. LimitHeldApart'
    <3> SUFFICES ASSUME NEW m \in Members \ overlapped, NEW mon \in 0..MaxMonth
                 PROVE  Cardinality(LimitedUses(m, mon)') <= MonthlyLimit
      BY <1>1 DEF LimitHeldApart
    <3>1. CASE who[r] = m /\ made[r] = mon /\ limit[r] # None
      <4> DEFINE counted == {q \in used : who[q] = m /\ made[q] >= since[r]}
      <4>1. /\ since[r] <= mon
            /\ UsesSince(m, since[r]) + 1 <= final[r] /\ final[r] <= MonthlyLimit
        BY <1>1, <2>2, <3>1 DEF IInv, CountStands
      <4>2. counted \in SUBSET Requests /\ r \notin counted
        BY <1>1
      <4>3. LimitedUses(m, mon)' \subseteq counted \union {r}
        BY <1>1, <4>1 DEF LimitedUses
      <4>4. Cardinality(counted \union {r}) = UsesSince(m, since[r]) + 1
        BY <4>2, CountOneMore DEF UsesSince
      <4>5. Cardinality(LimitedUses(m, mon)') <= Cardinality(counted \union {r})
        <5>1. counted \union {r} \in SUBSET Requests
          BY <4>2
        <5> QED
          BY <4>3, <5>1, CountOfRequests
      <4>6. /\ UsesSince(m, since[r]) \in Nat /\ Cardinality(LimitedUses(m, mon)') \in Nat
            /\ final[r] \in Nat /\ MonthlyLimit \in Nat
        <5>1. LimitedUses(m, mon)' \in SUBSET Requests
          BY <4>2, <4>3
        <5>2. Cardinality(Requests) \in Nat
          BY CountOfRequests
        <5>3. final[r] \in Nat /\ MonthlyLimit \in Nat
          BY <5>2, GuideAssumption DEF IInv, TypeOK
        <5> QED
          BY <1>1, <5>1, <5>3, UsesCounted, CountOfRequests
      <4> QED
        BY <4>1, <4>4, <4>5, <4>6
    <3>2. CASE ~(who[r] = m /\ made[r] = mon /\ limit[r] # None)
      <4>1. LimitedUses(m, mon)' = LimitedUses(m, mon)
        BY <1>1, <3>2 DEF LimitedUses
      <4> QED
        BY <4>1 DEF IInv, LimitHeldApart
    <3> QED
      BY <3>1, <3>2
  <2> QED
    BY <2>1, <2>3, <2>4
<1>5. RequestsBegun'
  BY <1>1 DEF IInv, TypeOK, RequestsBegun
<1>6. PoolConserved'
  <2>1. Admitted \subseteq Admitted'
    BY <1>1 DEF IInv, TypeOK, Admitted
  <2>2. refills' - pool' <= refills - pool
    BY <1>1, GuideAssumption DEF IInv, TypeOK
  <2> QED
    BY <1>2, <2>1, <2>2, PoolKept
<1> QED
  BY <1>2, <1>3, <1>4, <1>5, <1>6 DEF IInv

\* What follows the commit, the answer or the loss of it, leaves what was kept.
LEMMA AfterCommitIInv ==
    ASSUME IInv, NEW r \in Requests, GuideAnswer(r) \/ (Abort(r) /\ pc[r] = "kept")
    PROVE  IInv'
<1> USE DEF Continue, cellVars, tableVars, clockVars
<1>1. /\ pc[r] = "kept" /\ \E next \in {"answered", "cutoff"} : pc' = [pc EXCEPT ![r] = next]
      /\ UNCHANGED <<who, endpoint, retro, limit, since, final, pool, refills, retros, drafts,
                     used, made, month, paid, overlapped>>
  BY DEF GuideAnswer, Abort
<1>2. TypeOK'
  BY <1>1 DEF IInv, TypeOK, Ended
<1>3. \A q \in Requests :
         /\ pc'[q] \in Committed <=> pc[q] \in Committed
         /\ pc'[q] = "commit" <=> pc[q] = "commit"
  BY <1>1 DEF IInv, TypeOK, Committed
<1>4. CountStands'
  BY <1>1, <1>3 DEF IInv, CountStands, UsesSince
<1>5. RequestsBegun'
  BY <1>1 DEF IInv, TypeOK, RequestsBegun
<1>6. CommittedWithin' /\ ChargedIffCommitted'
  BY <1>1, <1>3 DEF IInv, CommittedWithin, ChargedIffCommitted
<1>7. LimitHeldApart'
  BY <1>1 DEF IInv, LimitHeldApart, LimitedUses
<1>8. PoolConserved'
  <2>1. Admitted \subseteq Admitted'
    BY <1>1 DEF IInv, TypeOK, Admitted
  <2>2. refills' - pool' <= refills - pool
    BY <1>1, GuideAssumption DEF IInv, TypeOK
  <2> QED
    BY <1>2, <2>1, <2>2, PoolKept
<1> QED
  BY <1>2, <1>4, <1>5, <1>6, <1>7, <1>8 DEF IInv

\* Refills, months, plans, submissions and deletions leave every request where
\* it is; a deletion takes uses away.
LEMMA EnvironmentIInv ==
    ASSUME IInv,
           \/ Refill \/ NextMonth
           \/ \E m \in Members : PlanChanges(m) \/ \E x \in Retros : Submit(m, x)
           \/ \E x \in Retros : DeleteRetro(x)
    PROVE  IInv'
<1> USE DEF requestVars, cellVars, tableVars, clockVars
<1>1. UNCHANGED <<pc, who, endpoint, retro, limit, since, final, made, overlapped>>
  BY DEF Refill, NextMonth, PlanChanges, Submit, DeleteRetro
<1>2. /\ PoolCells \in Nat /\ MaxRefills \in Nat /\ MaxMonth \in Nat
      /\ pool \in Int /\ refills \in Int /\ month \in Int
      /\ \A r \in Requests : since[r] \in Int
  BY GuideAssumption DEF IInv, TypeOK
<1>3. /\ pool' \in 0..PoolCells /\ refills' \in 0..MaxRefills /\ month' \in 0..MaxMonth
      /\ month <= month' /\ refills' - pool' <= refills - pool
  <2>1. /\ pool \in 0..PoolCells /\ refills \in 0..MaxRefills /\ month \in 0..MaxMonth
    BY DEF IInv, TypeOK
  <2>2. CASE Refill
    <3>1. /\ refills < MaxRefills /\ pool < PoolCells
          /\ pool' = pool + 1 /\ refills' = refills + 1 /\ month' = month
      BY <2>2 DEF Refill
    <3> QED
      BY ONLY <1>2, <2>1, <3>1
  <2>3. CASE NextMonth
    <3>1. month < MaxMonth /\ month' = month + 1 /\ pool' = pool /\ refills' = refills
      BY <2>3 DEF NextMonth
    <3> QED
      BY ONLY <1>2, <2>1, <3>1
  <2>4. CASE /\ ~Refill /\ ~NextMonth
    <3>1. pool' = pool /\ refills' = refills /\ month' = month
      BY <2>4 DEF PlanChanges, Submit, DeleteRetro
    <3> QED
      BY ONLY <1>2, <2>1, <3>1
  <2> QED
    BY <2>2, <2>3, <2>4
<1>4. /\ retros' \subseteq retros /\ drafts' \subseteq Members \X retros' /\ paid' \subseteq Members
      /\ used' = {r \in used : retro[r] \in retros'}
      /\ \A r \in Requests : pc[r] = "commit" /\ retro[r] \in retros => retro[r] \in retros'
  <2>1. ASSUME NEW x \in Retros, DeleteRetro(x)
        PROVE  drafts' \subseteq Members \X retros'
    BY <2>1 DEF DeleteRetro, IInv, TypeOK
  <2>2. \A r \in used : retro[r] \in retros
    BY DEF IInv, TypeOK, ChargedIffCommitted
  <2> QED
    BY <2>1, <2>2 DEF Refill, NextMonth, PlanChanges, Submit, DeleteRetro, IInv, TypeOK
<1>5. TypeOK'
  BY <1>1, <1>3, <1>4 DEF IInv, TypeOK
<1>6. used \subseteq Requests /\ used' \subseteq used
  BY <1>4 DEF IInv, TypeOK
<1>7. ASSUME NEW m, NEW n
      PROVE  /\ UsesSince(m, n)' <= UsesSince(m, n)
             /\ UsesSince(m, n)' \in Nat /\ UsesSince(m, n) \in Nat
  <2>1. {q \in used : who[q] = m /\ made[q] >= n} \in SUBSET Requests
        /\ {q \in used' : who'[q] = m /\ made'[q] >= n}
              \subseteq {q \in used : who[q] = m /\ made[q] >= n}
    BY <1>1, <1>6
  <2>2. {q \in used' : who'[q] = m /\ made'[q] >= n} \in SUBSET Requests
    BY <2>1
  <2> QED
    BY <2>1, <2>2, CountOfRequests DEF UsesSince
<1>8. CountStands'
  <2> SUFFICES ASSUME NEW r \in Requests, pc[r] = "commit", who[r] \notin overlapped
               PROVE  UsesSince(who[r], since[r])' + 1 <= final[r]
    BY <1>1, <1>4 DEF IInv, CountStands
  <2>1. UsesSince(who[r], since[r]) + 1 <= final[r] /\ final[r] \in Int
    <3>1. Cardinality(Requests) \in Nat
      BY CountOfRequests
    <3> QED
      BY <3>1 DEF IInv, TypeOK, CountStands
  <2> DEFINE a == UsesSince(who[r], since[r])'
             b == UsesSince(who[r], since[r])
  <2>2. a <= b /\ a \in Int /\ b \in Int
    BY <1>1, <1>7
  <2>3. b + 1 <= final[r]
    BY <2>1
  <2> HIDE DEF a, b
  <2>4. a + 1 <= final[r]
    BY <2>1, <2>2, <2>3
  <2> QED
    BY <2>4 DEF a
<1>9. RequestsBegun' /\ CommittedWithin' /\ ChargedIffCommitted'
  <2>1. RequestsBegun'
    BY <1>1, <1>2, <1>3 DEF IInv, RequestsBegun
  <2>2. CommittedWithin' /\ ChargedIffCommitted'
    BY <1>1, <1>4 DEF IInv, CommittedWithin, ChargedIffCommitted
  <2> QED
    BY <2>1, <2>2
<1>10. LimitHeldApart'
  <2> SUFFICES ASSUME NEW m \in Members \ overlapped, NEW mon \in 0..MaxMonth
               PROVE  Cardinality(LimitedUses(m, mon)') <= MonthlyLimit
    BY <1>1 DEF LimitHeldApart
  <2>1. LimitedUses(m, mon) \in SUBSET Requests /\ LimitedUses(m, mon)' \subseteq LimitedUses(m, mon)
    BY <1>1, <1>6 DEF LimitedUses
  <2>2. Cardinality(LimitedUses(m, mon)') <= Cardinality(LimitedUses(m, mon))
    BY <2>1, CountOfRequests
  <2>3. Cardinality(LimitedUses(m, mon)) <= MonthlyLimit
    BY DEF IInv, LimitHeldApart
  <2>4. /\ Cardinality(LimitedUses(m, mon)) \in Int /\ Cardinality(LimitedUses(m, mon)') \in Int
        /\ MonthlyLimit \in Int
    <3>1. LimitedUses(m, mon)' \in SUBSET Requests
      BY <2>1
    <3> QED
      BY <2>1, <3>1, CountOfRequests, GuideAssumption
  <2> QED
    BY <2>2, <2>3, <2>4
<1>11. PoolConserved'
  BY <1>1, <1>3, <1>5, PoolKept DEF Admitted
<1> QED
  BY <1>5, <1>8, <1>9, <1>10, <1>11 DEF IInv

\* Every step keeps the inductive invariant.
LEMMA StepIInv == IInv /\ [Next]_vars => IInv'
<1> SUFFICES ASSUME IInv, [Next]_vars PROVE IInv'
  OBVIOUS
<1>1. ASSUME NEW r \in Requests, Serve(r) \/ Abort(r) PROVE IInv'
  BY <1>1, TakePoolCellIInv, BeforeCountIInv, GuideCountIInv, GuideCommitIInv,
     AfterCommitIInv DEF Serve
<1>2. CASE UNCHANGED vars
  <2> USE <1>2 DEF vars, requestVars, cellVars, tableVars, clockVars
  <2>1. TypeOK' /\ RequestsBegun' /\ CommittedWithin' /\ ChargedIffCommitted'
    BY DEF IInv, TypeOK, RequestsBegun, CommittedWithin, ChargedIffCommitted
  <2>2. CountStands' /\ LimitHeldApart' /\ PoolConserved'
    BY DEF IInv, CountStands, UsesSince, LimitHeldApart, LimitedUses, PoolConserved, Admitted
  <2> QED
    BY <2>1, <2>2 DEF IInv
<1> QED
  BY <1>1, <1>2, ArriveIInv, EnvironmentIInv DEF Next

\* The inductive invariant holds throughout every behaviour.
THEOREM Invariance == Spec => []IInv
<1> QED
  BY InitIInv, StepIInv, PTL DEF Spec

\* A use is recorded for each request whose transaction was committed, answered
\* or cut off, and for no other.
THEOREM AlwaysChargedIffCommitted == Spec => []ChargedIffCommitted
<1>1. IInv => ChargedIffCommitted
  BY DEF IInv
<1> QED
  BY <1>1, Invariance, PTL

\* Transactions that do not overlap keep their member within the limit.
THEOREM LimitAlwaysHeldApart == Spec => []LimitHeldApart
<1>1. IInv => LimitHeldApart
  BY DEF IInv
<1> QED
  BY <1>1, Invariance, PTL

\* The pool of all AI calls loses cells to admitted requests only.
THEOREM PoolAlwaysConserved == Spec => []PoolConserved
<1>1. IInv => PoolConserved
  BY DEF IInv
<1> QED
  BY <1>1, Invariance, PTL

\* An answer reports a negative number of remaining uses only for a plan
\* without a limit.
THEOREM RemainingAlwaysHonest == Spec => []RemainingHonest
<1>1. IInv => RemainingHonest
  <2> SUFFICES ASSUME IInv, NEW r \in Requests, pc[r] = "answered"
               PROVE  Remaining(r) < 0 <=> limit[r] = None
    BY DEF RemainingHonest
  <2>1. limit[r] \in {MonthlyLimit, None} /\ final[r] \in Nat /\ MonthlyLimit \in Nat
        /\ MonthlyLimit # None
    <3>1. Cardinality(Requests) \in Nat
      BY CountOfRequests
    <3> QED
      BY <3>1, GuideAssumption DEF IInv, TypeOK
  <2>2. limit[r] = None \/ final[r] <= limit[r]
    BY DEF IInv, CommittedWithin, Committed
  <2> QED
    BY <2>1, <2>2 DEF Remaining
<1> QED
  BY <1>1, Invariance, PTL

=============================================================================
