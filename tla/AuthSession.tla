---------------------------- MODULE AuthSession ----------------------------
(***************************************************************************)
(* Sign-up and sessions (codes/server/src/domain/auth/service.rs, and      *)
(* withdraw of domain/member/service.rs).                                  *)
(*                                                                         *)
(* A member's row holds one refresh token.  It is written by an UPDATE     *)
(* that does not look at what it replaces, after reads that take no lock:  *)
(* between the two any other request may run.                              *)
(*                                                                         *)
(* A request is served once.  The member a sign-up inserts and the refresh *)
(* token a request issues (each has a jti of its own) are named by the     *)
(* request; whoever got a token may present it again at any time, a        *)
(* browser that has replaced the cookie or not.                            *)
(***************************************************************************)
EXTENDS Naturals, FiniteSets

CONSTANTS
    Accounts,     \* social accounts: an email and its provider
    Nicknames,
    Requests,     \* requests that may be served
    NicknameIndexed, \* nickname is UNIQUE: the table was created with the column
    None

ASSUME SessionAssumption ==
    /\ NicknameIndexed \in BOOLEAN
    /\ None \notin Accounts \union Nicknames \union Requests

VARIABLES
    pc,        \* where each request is
    account,   \* the social account it is about
    nickname,  \* the nickname a sign-up asks for
    carried,   \* the refresh token it presents
    subject,   \* the member it is about
    members,   \* rows of the table member
    token,     \* member.refresh_token
    expired,   \* tokens past refresh_token_expires_at
    dead       \* tokens whose JWT is refused: past exp and its leeway

requestVars == <<pc, account, nickname, carried, subject>>
memberVars == <<members, token>>
clockVars == <<expired, dead>>
vars == <<requestVars, memberVars, clockVars>>

InFlight == {"create", "store", "clear"}
Ended == {"newcomer", "granted", "loggedOut", "failed"}

TypeOK ==
    /\ pc \in [Requests -> {"idle"} \union InFlight \union Ended]
    /\ account \in [Requests -> Accounts \union {None}]
    /\ nickname \in [Requests -> Nicknames \union {None}]
    /\ carried \in [Requests -> Requests \union {None}]
    /\ subject \in [Requests -> Requests \union {None}]
    /\ members \subseteq Requests
    /\ token \in [Requests -> Requests \union {None}]
    /\ expired \subseteq {r \in Requests : pc[r] = "granted"}
    /\ dead \subseteq expired

Init ==
    /\ pc = [r \in Requests |-> "idle"]
    /\ account = [r \in Requests |-> None]
    /\ nickname = [r \in Requests |-> None]
    /\ carried = [r \in Requests |-> None]
    /\ subject = [r \in Requests |-> None]
    /\ members = {}
    /\ token = [r \in Requests |-> None]
    /\ expired = {}
    /\ dead = {}

-----------------------------------------------------------------------------

\* Tokens a client has and whose JWT decode_token accepts.
Presentable == {r \in Requests \ dead : pc[r] = "granted"}

Begin(r, next) ==
    /\ pc[r] = "idle"
    /\ pc' = [pc EXCEPT ![r] = next]

Continue(r, next) ==
    /\ pc' = [pc EXCEPT ![r] = next]
    /\ UNCHANGED <<account, nickname, carried>>

Taken(n) == \E m \in members : nickname[m] = n

(***************************************************************************)
(* social_login and login_by_email                                         *)
(***************************************************************************)

\* A member logs in, by the social account or by the email alone.
LoginRead(r, m) ==
    /\ m \in members
    /\ Begin(r, "store")
    /\ account' = [account EXCEPT ![r] = account[m]]
    /\ subject' = [subject EXCEPT ![r] = m]
    /\ UNCHANGED <<nickname, carried, memberVars, clockVars>>

\* An account without a member gets a sign-up token.
LoginUnknown(r, a) ==
    /\ \A m \in members : account[m] # a
    /\ Begin(r, "newcomer")
    /\ account' = [account EXCEPT ![r] = a]
    /\ UNCHANGED <<nickname, carried, subject, memberVars, clockVars>>

(***************************************************************************)
(* signup                                                                  *)
(***************************************************************************)

\* A sign-up token may be used as often as one likes until it expires.
SignupCheck(r, a, n) ==
    /\ \E q \in Requests : pc[q] = "newcomer" /\ account[q] = a
    /\ ~Taken(n)
    /\ Begin(r, "create")
    /\ account' = [account EXCEPT ![r] = a]
    /\ nickname' = [nickname EXCEPT ![r] = n]
    /\ UNCHANGED <<carried, subject, memberVars, clockVars>>

\* The unique constraint on nickname, which apply_migrations does not give to a
\* table that had no such column; there is none on the email.
Insertable(r) == NicknameIndexed => ~Taken(nickname[r])

SignupInsert(r) ==
    /\ pc[r] = "create"
    /\ IF Insertable(r)
       THEN /\ members' = members \union {r}
            /\ subject' = [subject EXCEPT ![r] = r]
            /\ Continue(r, "store")
       ELSE /\ Continue(r, "failed")
            /\ UNCHANGED <<members, subject>>
    /\ UNCHANGED <<token, clockVars>>

(***************************************************************************)
(* refresh_token                                                           *)
(***************************************************************************)

\* The member is still there and this is its token.
Accepted(t) == subject[t] \in members /\ token[subject[t]] = t

\* A token that has expired is cleared, another one replaced.
AfterRead(t) == IF t \in expired THEN "clear" ELSE "store"

RefreshRead(r, t) ==
    /\ t \in Presentable
    /\ Accepted(t)
    /\ Begin(r, AfterRead(t))
    /\ account' = [account EXCEPT ![r] = account[t]]
    /\ carried' = [carried EXCEPT ![r] = t]
    /\ subject' = [subject EXCEPT ![r] = subject[t]]
    /\ UNCHANGED <<nickname, memberVars, clockVars>>

\* clear_refresh_token; the request fails whatever becomes of it.
ClearExpired(r) ==
    /\ pc[r] = "clear"
    /\ token' = [token EXCEPT ![subject[r]] = None]
    /\ Continue(r, "failed")
    /\ UNCHANGED <<subject, members, clockVars>>

\* Mutant: the UPDATE inserts a row that is not there.
Storable_Upsert(r) == TRUE

\* An UPDATE that finds no row is an error.
Storable(r) == subject[r] \in members

\* store_refresh_token, the last step of a login, a sign-up and a refresh.
StoreToken(r) ==
    /\ pc[r] = "store"
    /\ IF Storable(r)
       THEN /\ token' = [token EXCEPT ![subject[r]] = r]
            /\ Continue(r, "granted")
       ELSE /\ Continue(r, "failed")
            /\ UNCHANGED token
    /\ UNCHANGED <<subject, members, clockVars>>

(***************************************************************************)
(* logout                                                                  *)
(***************************************************************************)

\* Mutant: only the cookies are cleared.
LogoutLeaves_Token(m) == token[m]

\* What logout leaves in the member's row.
LogoutLeaves(m) == None

\* The token presented need only be one of the member's.
Logout(r, t) ==
    /\ t \in Presentable
    /\ subject[t] \in members
    /\ Begin(r, "loggedOut")
    /\ token' = [token EXCEPT ![subject[t]] = LogoutLeaves(subject[t])]
    /\ carried' = [carried EXCEPT ![r] = t]
    /\ subject' = [subject EXCEPT ![r] = subject[t]]
    /\ UNCHANGED <<account, nickname, members, clockVars>>

-----------------------------------------------------------------------------

\* MemberService::withdraw.
Withdraw(m) ==
    /\ m \in members
    /\ members' = members \ {m}
    /\ token' = [token EXCEPT ![m] = None]
    /\ UNCHANGED <<requestVars, clockVars>>

\* The time stored with the token passes; then, some seconds later, the one
\* in its JWT with the leeway jsonwebtoken allows.
Expire(t) ==
    /\ pc[t] = "granted"
    /\ IF t \in expired
       THEN dead' = dead \union {t} /\ UNCHANGED expired
       ELSE expired' = expired \union {t} /\ UNCHANGED dead
    /\ clockVars' # clockVars
    /\ UNCHANGED <<requestVars, memberVars>>

\* A database error, the client hung up, the process stopped.
Abort(r) ==
    /\ pc[r] \in InFlight
    /\ Continue(r, "failed")
    /\ UNCHANGED <<subject, memberVars, clockVars>>

Serve(r) == SignupInsert(r) \/ ClearExpired(r) \/ StoreToken(r)

Receive(r) ==
    \/ \E a \in Accounts : LoginUnknown(r, a)
    \/ \E m \in members : LoginRead(r, m)
    \/ \E a \in Accounts, n \in Nicknames : SignupCheck(r, a, n)
    \/ \E t \in Presentable : RefreshRead(r, t) \/ Logout(r, t)

Next ==
    \/ \E r \in Requests : Receive(r) \/ Serve(r) \/ Abort(r) \/ Expire(r)
    \/ \E m \in members : Withdraw(m)

Spec == Init /\ [][Next]_vars

-----------------------------------------------------------------------------
(***************************************************************************)
(* Properties                                                              *)
(***************************************************************************)

\* No session outlives its member: a login or a refresh that read the member
\* before a withdrawal does not leave a token behind, and a stored token was
\* issued to the member who has it (store_refresh_token).
TokensOfMembers ==
    \A m \in Requests :
        token[m] # None => m \in members /\ subject[token[m]] = m

\* A refresh token that has been exchanged, or with which a logout was made, is
\* not accepted again, in whatever order the requests that were on their way
\* have stored and cleared tokens since (refresh_token steps 4 and 6, logout
\* step 4).  Two requests that were accepted with it before are another matter.
SpentTokensRefused ==
    [][\A r, q \in Requests :
          pc[r] = "idle" /\ pc'[r] \in {"store", "clear"}
            /\ carried[q] # None /\ carried[q] = carried'[r]
              => pc[q] \notin {"granted", "loggedOut"}]_vars

\* The inductive invariant.  A member is inserted by its sign-up, which goes on
\* to store a token.
MembersSignedUp == \A m \in members : pc[m] \in {"store", "granted", "failed"}

\* A token that is stored or was presented has been issued, so its subject does
\* not change; whoever presented it acts for that subject.
TokensIssued ==
    /\ \A m \in Requests : token[m] # None => pc[token[m]] = "granted"
    /\ \A q \in Requests :
         carried[q] # None =>
             /\ pc[q] \notin {"idle", "create"}
             /\ pc[carried[q]] = "granted"
             /\ subject[q] # None /\ subject[q] = subject[carried[q]]

\* A token that was exchanged, or with which a logout was made, is not stored.
SpentNotStored ==
    \A q \in Requests :
        carried[q] # None /\ pc[q] \in {"granted", "loggedOut"}
            => token[subject[q]] # carried[q]

IInv ==
    /\ TypeOK
    /\ MembersSignedUp
    /\ TokensIssued
    /\ SpentNotStored
    /\ TokensOfMembers

=============================================================================
