-------------------------- MODULE AuthSessionProofs --------------------------
(***************************************************************************)
(* AuthSession's invariants hold for every set of accounts, nicknames and  *)
(* requests, and a spent token is never accepted again.                    *)
(***************************************************************************)
EXTENDS AuthSession, TLAPS

\* The initial state satisfies the inductive invariant.
LEMMA InitIInv == Init => IInv
<1> SUFFICES ASSUME Init PROVE IInv
  OBVIOUS
<1>1. TypeOK
  BY DEF Init, TypeOK
<1>2. MembersSignedUp /\ TokensIssued /\ SpentNotStored /\ TokensOfMembers
  BY DEF Init, MembersSignedUp, TokensIssued, SpentNotStored, TokensOfMembers
<1> QED
  BY <1>1, <1>2 DEF IInv

\* The first step of a login or a sign-up: it reads, and remembers what for.
LEMMA BeginIInv ==
    ASSUME IInv, NEW r \in Requests,
           \/ \E a \in Accounts : LoginUnknown(r, a)
           \/ \E m \in members : LoginRead(r, m)
           \/ \E a \in Accounts, n \in Nicknames : SignupCheck(r, a, n)
    PROVE  IInv'
<1> USE SessionAssumption DEF IInv
<1>1. /\ pc[r] = "idle"
      /\ \E next \in {"newcomer", "store", "create"} : pc' = [pc EXCEPT ![r] = next]
      /\ \A q \in Requests \ {r} : nickname'[q] = nickname[q] /\ subject'[q] = subject[q]
      /\ UNCHANGED <<carried, members, token, expired, dead>>
  BY DEF LoginUnknown, LoginRead, SignupCheck, Begin, memberVars, clockVars, TypeOK
<1>2. /\ account' \in [Requests -> Accounts \union {None}]
      /\ nickname' \in [Requests -> Nicknames \union {None}]
      /\ subject' \in [Requests -> Requests \union {None}]
  BY DEF LoginUnknown, LoginRead, SignupCheck, TypeOK
<1>3. TypeOK'
  <2>1. pc' \in [Requests -> {"idle"} \union InFlight \union Ended]
    BY <1>1 DEF TypeOK, InFlight, Ended
  <2>2. expired' \subseteq {q \in Requests : pc'[q] = "granted"}
    BY <1>1 DEF TypeOK
  <2> QED
    BY <1>1, <1>2, <2>1, <2>2 DEF TypeOK
<1>4. carried[r] = None /\ r \notin members /\ \A m \in Requests : token[m] # r /\ carried[m] # r
  BY <1>1 DEF TypeOK, TokensIssued, MembersSignedUp
<1>5. MembersSignedUp'
  BY <1>1, <1>4 DEF TypeOK, MembersSignedUp
<1>6. TokensIssued' /\ TokensOfMembers'
  BY <1>1, <1>4 DEF TypeOK, TokensIssued, TokensOfMembers
<1>7. SpentNotStored'
  BY <1>1, <1>4 DEF TypeOK, SpentNotStored
<1> QED
  BY <1>3, <1>5, <1>6, <1>7

\* The first step of a refresh or a logout, with a token that was issued.
LEMMA PresentIInv ==
    ASSUME IInv, NEW r \in Requests, NEW t \in Presentable, RefreshRead(r, t) \/ Logout(r, t)
    PROVE  IInv'
<1> USE SessionAssumption DEF IInv
<1>1. t \in Requests /\ pc[t] = "granted" /\ subject[t] \in members
  BY DEF Presentable, RefreshRead, Accepted, Logout
<1>2. /\ pc[r] = "idle" /\ t # r
      /\ \E next \in {"store", "clear", "loggedOut"} : pc' = [pc EXCEPT ![r] = next]
      /\ carried' = [carried EXCEPT ![r] = t]
      /\ subject' = [subject EXCEPT ![r] = subject[t]]
      /\ UNCHANGED <<nickname, members, expired, dead>>
  BY <1>1 DEF RefreshRead, Logout, Begin, AfterRead, memberVars, clockVars
<1>3. /\ token' \in [Requests -> Requests \union {None}]
      /\ \A m \in Requests : token'[m] \in {token[m], None}
      /\ pc'[r] = "loggedOut" => token'[subject[t]] = None
  BY <1>1 DEF RefreshRead, Logout, LogoutLeaves, AfterRead, Begin, memberVars, TypeOK
<1>4. TypeOK'
  <2>1. account' \in [Requests -> Accounts \union {None}]
    BY <1>1 DEF RefreshRead, Logout, TypeOK
  <2>2. pc' \in [Requests -> {"idle"} \union InFlight \union Ended]
    BY <1>2 DEF TypeOK, InFlight, Ended
  <2>3. carried' \in [Requests -> Requests \union {None}]
        /\ subject' \in [Requests -> Requests \union {None}]
    BY <1>1, <1>2 DEF TypeOK
  <2>4. expired' \subseteq {q \in Requests : pc'[q] = "granted"} /\ dead' \subseteq expired'
    BY <1>2 DEF TypeOK
  <2> QED
    BY <1>2, <1>3, <2>1, <2>2, <2>3, <2>4 DEF TypeOK, InFlight, Ended
<1>5. r \notin members /\ \A m \in Requests : token[m] # r /\ carried[m] # r
  BY <1>2 DEF TypeOK, TokensIssued, MembersSignedUp
<1>6. MembersSignedUp'
  BY <1>2, <1>5 DEF TypeOK, MembersSignedUp
<1>7. TokensIssued'
  BY <1>1, <1>2, <1>3, <1>5 DEF TypeOK, TokensIssued
<1>8. TokensOfMembers'
  BY <1>2, <1>3, <1>5 DEF TypeOK, TokensOfMembers
<1>9. SpentNotStored'
  <2> SUFFICES ASSUME NEW q \in Requests, carried'[q] # None, pc'[q] \in {"granted", "loggedOut"}
               PROVE  token'[subject'[q]] # carried'[q]
    BY DEF SpentNotStored
  <2>1. CASE q = r
    BY <1>1, <1>2, <1>3, <2>1 DEF TypeOK
  <2>2. CASE q # r
    <3>1. carried[q] # None /\ token[subject[q]] # carried[q] /\ subject'[q] = subject[q]
          /\ subject[q] \in Requests
      BY <1>2, <2>2 DEF TypeOK, SpentNotStored, TokensIssued
    <3>2. token'[subject[q]] = token[subject[q]] \/ token'[subject[q]] = None
      BY <1>1, <3>1 DEF RefreshRead, Logout, LogoutLeaves, memberVars, TypeOK
    <3> QED
      BY <1>2, <2>2, <3>1, <3>2 DEF TypeOK
  <2> QED
    BY <2>1, <2>2
<1> QED
  BY <1>4, <1>6, <1>7, <1>8, <1>9

\* A request that ends without having changed anything.
LEMMA FailIInv ==
    ASSUME IInv, NEW r \in Requests, pc[r] \in InFlight, Continue(r, "failed"),
           UNCHANGED <<subject, memberVars, clockVars>>
    PROVE  IInv'
<1> USE SessionAssumption DEF IInv, Continue, memberVars, clockVars
<1>1. TypeOK'
  BY DEF TypeOK, InFlight, Ended
<1>2. MembersSignedUp'
  BY DEF TypeOK, MembersSignedUp
<1>3. TokensIssued' /\ TokensOfMembers' /\ SpentNotStored'
  BY DEF TypeOK, InFlight, TokensIssued, TokensOfMembers, SpentNotStored
<1> QED
  BY <1>1, <1>2, <1>3

\* signup inserts a member, or is refused by the index.
LEMMA SignupInsertIInv ==
    ASSUME IInv, NEW r \in Requests, SignupInsert(r)
    PROVE  IInv'
<1> USE SessionAssumption DEF IInv
<1>1. CASE Insertable(r)
  <2> USE <1>1 DEF SignupInsert, Continue, clockVars
  <2>1. TypeOK'
    BY DEF TypeOK, InFlight
  <2>2. r \notin members /\ \A m \in Requests : token[m] # r /\ carried[m] # r
    BY DEF TypeOK, TokensIssued, MembersSignedUp
  <2>3. MembersSignedUp'
    BY DEF TypeOK, MembersSignedUp
  <2>4. carried[r] = None
    BY DEF TypeOK, TokensIssued
  <2> QED
    BY <2>1, <2>2, <2>3, <2>4 DEF TypeOK, TokensIssued, TokensOfMembers, SpentNotStored
<1>2. CASE ~Insertable(r)
  BY <1>2, FailIInv DEF SignupInsert, InFlight, memberVars
<1> QED
  BY <1>1, <1>2

\* A refresh or a login stores a token of its own, in the row of its member.
LEMMA StoreTokenIInv ==
    ASSUME IInv, NEW r \in Requests, StoreToken(r)
    PROVE  IInv'
<1> USE SessionAssumption DEF IInv
<1>1. CASE Storable(r)
  <2> USE <1>1 DEF StoreToken, Continue, Storable, clockVars
  <2>1. TypeOK'
    BY DEF TypeOK, InFlight, Ended
  <2>2. MembersSignedUp'
    BY DEF TypeOK, MembersSignedUp
  <2>3. \A q \in Requests : carried[q] # None => carried[q] # r
    BY DEF TypeOK, TokensIssued
  <2>4. TokensIssued'
    BY <2>3 DEF TypeOK, TokensIssued
  <2>5. TokensOfMembers'
    BY DEF TypeOK, TokensOfMembers
  <2>6. SpentNotStored'
    BY <2>3 DEF TypeOK, SpentNotStored, TokensIssued
  <2> QED
    BY <2>1, <2>2, <2>4, <2>5, <2>6
<1>2. CASE ~Storable(r)
  BY <1>2, FailIInv DEF StoreToken, InFlight, memberVars
<1> QED
  BY <1>1, <1>2

\* The clearing of a token, and a withdrawal, only take tokens away.
LEMMA ClearIInv ==
    ASSUME IInv,
           \/ \E r \in Requests : ClearExpired(r)
           \/ \E m \in members : Withdraw(m)
    PROVE  IInv'
<1> USE SessionAssumption DEF IInv
<1>1. ASSUME NEW r \in Requests, ClearExpired(r) PROVE IInv'
  <2> USE <1>1 DEF ClearExpired, Continue, clockVars
  <2>1. TypeOK'
    BY DEF TypeOK, InFlight, Ended
  <2>2. MembersSignedUp'
    BY DEF TypeOK, MembersSignedUp
  <2>3. TokensIssued' /\ TokensOfMembers' /\ SpentNotStored'
    BY DEF TypeOK, TokensIssued, TokensOfMembers, SpentNotStored
  <2> QED
    BY <2>1, <2>2, <2>3
<1>2. ASSUME NEW m \in members, Withdraw(m) PROVE IInv'
  <2> USE <1>2 DEF Withdraw, requestVars, clockVars
  <2>1. TypeOK'
    BY DEF TypeOK
  <2>2. MembersSignedUp'
    BY DEF MembersSignedUp
  <2>3. TokensIssued' /\ TokensOfMembers' /\ SpentNotStored'
    BY DEF TypeOK, TokensIssued, TokensOfMembers, SpentNotStored
  <2> QED
    BY <2>1, <2>2, <2>3
<1> QED
  BY <1>1, <1>2

\* Every step keeps the inductive invariant.
LEMMA StepIInv == IInv /\ [Next]_vars => IInv'
<1> SUFFICES ASSUME IInv, [Next]_vars PROVE IInv'
  OBVIOUS
<1>1. ASSUME NEW r \in Requests, Receive(r) PROVE IInv'
  BY <1>1, BeginIInv, PresentIInv DEF Receive
<1>2. ASSUME NEW r \in Requests, Serve(r) PROVE IInv'
  BY <1>2, SignupInsertIInv, StoreTokenIInv, ClearIInv DEF Serve
<1>3. ASSUME NEW r \in Requests, Abort(r) PROVE IInv'
  BY <1>3, FailIInv DEF Abort
<1>4. ASSUME NEW r \in Requests, Expire(r) PROVE IInv'
  BY <1>4 DEF Expire, requestVars, memberVars, IInv, TypeOK, MembersSignedUp, TokensIssued,
     SpentNotStored, TokensOfMembers
<1>5. CASE UNCHANGED vars
  BY <1>5 DEF vars, requestVars, memberVars, clockVars, IInv, TypeOK, MembersSignedUp,
     TokensIssued, SpentNotStored, TokensOfMembers
<1> QED
  BY <1>1, <1>2, <1>3, <1>4, <1>5, ClearIInv DEF Next

\* The inductive invariant holds throughout every behaviour.
THEOREM Invariance == Spec => []IInv
<1> QED
  BY InitIInv, StepIInv, PTL DEF Spec

\* A stored token belongs to a member that exists.
THEOREM TokensAlwaysOfMembers == Spec => []TokensOfMembers
<1>1. IInv => TokensOfMembers
  BY DEF IInv
<1> QED
  BY <1>1, Invariance, PTL

\* A token is accepted only while it is stored, and a spent one never is.
LEMMA StepSpentRefused ==
    ASSUME IInv, Next, NEW r \in Requests, NEW q \in Requests,
           pc[r] = "idle", pc'[r] \in {"store", "clear"},
           carried[q] # None, carried[q] = carried'[r]
    PROVE  pc[q] \notin {"granted", "loggedOut"}
<1> USE SessionAssumption DEF IInv
<1>1. carried[r] = None
  BY DEF TypeOK, TokensIssued
<1>2. carried'[r] # carried[r]
  BY <1>1
<1>3. \E t \in Presentable : RefreshRead(r, t)
  <2>1. ASSUME NEW s \in Requests, Receive(s) PROVE \E t \in Presentable : RefreshRead(r, t)
    <3>1. PICK t \in Presentable : RefreshRead(s, t) \/ Logout(s, t)
      BY <1>2, <2>1 DEF Receive, LoginUnknown, LoginRead, SignupCheck
    <3>2. s = r
      BY <1>2, <3>1 DEF RefreshRead, Logout, TypeOK
    <3>3. ~Logout(r, t)
      BY DEF Logout, Begin, TypeOK
    <3> QED
      BY <3>1, <3>2, <3>3
  <2>2. ASSUME NEW s \in Requests, Serve(s) \/ Abort(s) \/ Expire(s) PROVE FALSE
    BY <1>2, <2>2 DEF Serve, SignupInsert, ClearExpired, StoreToken, Abort, Expire, Continue,
       requestVars
  <2>3. ASSUME NEW m \in members, Withdraw(m) PROVE FALSE
    BY <1>2, <2>3 DEF Withdraw, requestVars
  <2> QED
    BY <2>1, <2>2, <2>3 DEF Next
<1>4. PICK t \in Presentable : RefreshRead(r, t)
  BY <1>3
<1>5. carried[q] = t /\ token[subject[t]] = t
  BY <1>4 DEF RefreshRead, Accepted, TypeOK
<1>6. subject[q] = subject[t]
  BY <1>5 DEF TokensIssued
<1> QED
  BY <1>5, <1>6 DEF SpentNotStored

\* A token that was exchanged, or with which a logout was made, is refused.
THEOREM SpentTokensAlwaysRefused == Spec => SpentTokensRefused
<1>1. IInv /\ [Next]_vars =>
        [\A r, q \in Requests :
            pc[r] = "idle" /\ pc'[r] \in {"store", "clear"}
              /\ carried[q] # None /\ carried[q] = carried'[r]
                => pc[q] \notin {"granted", "loggedOut"}]_vars
  BY StepSpentRefused
<1> QED
  BY <1>1, Invariance, PTL DEF Spec, SpentTokensRefused

=============================================================================
