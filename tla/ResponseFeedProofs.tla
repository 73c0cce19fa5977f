-------------------------- MODULE ResponseFeedProofs --------------------------
(***************************************************************************)
(* Likes add up and pages are complete, for any members, requests, readers *)
(* and answers, and every size of a page.                                  *)
(***************************************************************************)
EXTENDS ResponseFeed, TLAPS, FiniteSetTheorems, WellFoundedInduction

(***************************************************************************)
(* Pages                                                                   *)
(***************************************************************************)

\* The rows from one on.
From(i, s) == {j \in s : j >= i}

LEMMA FromFinite ==
    ASSUME NEW s \in SUBSET Nat, IsFiniteSet(s), NEW i \in Nat
    PROVE  /\ IsFiniteSet(From(i, s)) /\ Cardinality(From(i, s)) \in Nat
           /\ Cardinality(From(i, s)) <= Cardinality(s)
<1>1. From(i, s) \in SUBSET s
  BY DEF From
<1> HIDE DEF From
<1>2. IsFiniteSet(From(i, s)) /\ Cardinality(From(i, s)) <= Cardinality(s)
  BY <1>1, FS_Subset
<1> QED
  BY <1>2, FS_CardinalityType

LEMMA HasLeast ==
    ASSUME NEW s \in SUBSET Nat, s # {}
    PROVE  \E i \in s : \A j \in s : i <= j
<1>1. PICK i \in s : \A j \in s : ~(<<j, i>> \in OpToRel(<, Nat))
  BY NatLessThanWellFounded, WFMin
<1>2. \A j \in s : ~(j < i)
  BY <1>1 DEF OpToRel
<1> QED
  BY <1>2

\* A bounded set of ids has a greatest one.
LEMMA HasGreatest ==
    ASSUME NEW s \in SUBSET Nat, s # {}, NEW n \in Nat, \A i \in s : i <= n
    PROVE  \E i \in s : \A j \in s : j <= i
<1> DEFINE t == {n - i : i \in s}
<1>1. t \in SUBSET Nat /\ t # {}
  <2>1. \A i \in s : n - i \in Nat
    OBVIOUS
  <2> QED
    BY <2>1
<1>2. PICK k \in t : \A m \in t : k <= m
  <2> HIDE DEF t
  <2> QED
    BY <1>1, HasLeast
<1>3. PICK i \in s : k = n - i
  OBVIOUS
<1>4. \A j \in s : n - i <= n - j
  BY <1>2, <1>3
<1> QED
  BY <1>3, <1>4

LEMMA LeastFound ==
    ASSUME NEW s \in SUBSET Nat, s # {}
    PROVE  Min(s) \in s /\ \A i \in s : Min(s) <= i
<1>1. \E i \in s : \A j \in s : i <= j
  BY HasLeast
<1> QED
  BY <1>1 DEF Min

\* What Greatest selects lies above what it leaves out.
LEMMA GreatestAbove ==
    ASSUME NEW s \in SUBSET Nat, IsFiniteSet(s), NEW n \in Nat
    PROVE  \A i \in Greatest(n, s), j \in s \ Greatest(n, s) : j < i
<1> SUFFICES ASSUME NEW i \in Greatest(n, s), NEW j \in s \ Greatest(n, s), ~(j < i)
             PROVE  FALSE
  OBVIOUS
<1> i \in Nat /\ j \in Nat /\ j >= i
  BY DEF Greatest
<1>1. i \in s /\ Cardinality(From(i, s)) <= n
  BY DEF Greatest, From
<1>2. From(j, s) \in SUBSET From(i, s)
  <2>1. \A k \in s : k \in Nat /\ (k >= j => k >= i)
    OBVIOUS
  <2> QED
    BY <2>1 DEF From
<1>3. Cardinality(From(j, s)) <= Cardinality(From(i, s))
  <2> IsFiniteSet(From(i, s))
    BY <1>1, FromFinite
  <2> HIDE DEF From
  <2> QED
    BY <1>2, FS_Subset
<1>4. Cardinality(From(j, s)) \in Nat /\ Cardinality(From(i, s)) \in Nat
  BY <1>1, FromFinite
<1>5. Cardinality(From(j, s)) <= n
  BY <1>1, <1>3, <1>4
<1> QED
  BY <1>5 DEF Greatest, From

\* Of a page and one more the page is what Greatest selects at once.
LEMMA GreatestOfMore ==
    ASSUME NEW s \in SUBSET Nat, IsFiniteSet(s), NEW n \in Nat
    PROVE  Greatest(n, Greatest(n + 1, s)) = Greatest(n, s)
<1> DEFINE f == Greatest(n + 1, s)
<1>1. f \subseteq s
  BY DEF Greatest
<1>2. ASSUME NEW i \in f PROVE From(i, f) = From(i, s)
  <2>1. \A j \in s : j >= i => j \in f
    <3> HIDE DEF f
    <3>1. \A j \in s \ f : j < i
      BY GreatestAbove DEF f
    <3> QED
      BY <1>1, <1>2, <3>1
  <2> HIDE DEF f
  <2> QED
    BY <1>1, <2>1 DEF From
<1>3. ASSUME NEW i \in s, Cardinality(From(i, s)) <= n PROVE i \in f
  BY <1>3, FromFinite DEF Greatest, From
<1>4. Greatest(n, f) = {i \in f : Cardinality(From(i, f)) <= n}
      /\ Greatest(n, s) = {i \in s : Cardinality(From(i, s)) <= n}
  BY DEF Greatest, From
<1> HIDE DEF f
<1>5. Greatest(n, f) = Greatest(n, s)
  BY <1>1, <1>2, <1>3, <1>4
<1> QED
  BY <1>5 DEF f

\* A page of at least one row is not empty unless there is nothing to show.
LEMMA GreatestNotEmpty ==
    ASSUME NEW s \in SUBSET Nat, IsFiniteSet(s), s # {}, NEW k \in Nat, \A i \in s : i <= k,
           NEW n \in Nat, n >= 1
    PROVE  Greatest(n, s) # {}
<1>1. PICK i \in s : \A j \in s : j <= i
  BY HasGreatest
<1>2. From(i, s) = {i}
  <2>1. \A j \in s : j >= i <=> j = i
    <3>1. i \in Nat /\ \A j \in s : j \in Nat
      OBVIOUS
    <3> QED
      BY <1>1, <3>1
  <2> QED
    BY <1>1, <2>1 DEF From
<1>3. Cardinality(From(i, s)) = 1
  BY <1>2, FS_Singleton
<1>4. i \in Greatest(n, s)
  BY <1>3 DEF Greatest, From
<1> QED
  BY <1>4

\* With no more than a page fetched, everything is.
LEMMA GreatestIsAll ==
    ASSUME NEW s \in SUBSET Nat, IsFiniteSet(s), NEW k \in Nat, \A i \in s : i <= k,
           NEW n \in Nat, Cardinality(Greatest(n + 1, s)) <= n
    PROVE  Greatest(n, s) = s
<1> DEFINE f == Greatest(n + 1, s)
<1>1. f \in SUBSET s /\ f \in SUBSET Nat
  BY DEF Greatest
<1>2. IsFiniteSet(f) /\ Cardinality(f) \in Nat /\ Cardinality(f) <= n
  <2>1. Cardinality(f) <= n
    OBVIOUS
  <2> HIDE DEF f
  <2> QED
    BY <1>1, <2>1, FS_Subset, FS_CardinalityType
<1>3. f = s
  <2> SUFFICES ASSUME s \ f # {} PROVE FALSE
    BY <1>1
  <2>1. PICK b \in s \ f : \A j \in s \ f : j <= b
    <3> HIDE DEF f
    <3> QED
      BY HasGreatest
  <2>2. From(b, s) \subseteq f \union {b}
    <3>1. \A j \in s : j \in Nat /\ (j >= b => j \in f \/ j = b)
      <4> HIDE DEF f
      <4>1. b \in Nat /\ \A j \in s : j \in Nat
        BY <2>1
      <4> QED
        BY <2>1, <4>1
    <3> HIDE DEF f
    <3> QED
      BY <3>1 DEF From
  <2>3. IsFiniteSet(f \union {b}) /\ Cardinality(f \union {b}) <= n + 1
    <3> HIDE DEF f
    <3>1. b \notin f
      BY <2>1
    <3>2. IsFiniteSet(f \union {b}) /\ Cardinality(f \union {b}) = Cardinality(f) + 1
      BY <1>2, <3>1, FS_AddElement
    <3> QED
      BY <1>2, <3>2
  <2>4. Cardinality(From(b, s)) <= Cardinality(f \union {b})
    <3> DEFINE g == f \union {b}
    <3>1. From(b, s) \in SUBSET g /\ IsFiniteSet(g)
      BY <2>2, <2>3
    <3> HIDE DEF g, From
    <3>2. Cardinality(From(b, s)) <= Cardinality(g)
      BY <3>1, FS_Subset
    <3> QED
      BY <3>2 DEF g
  <2>5. Cardinality(From(b, s)) \in Nat /\ Cardinality(f \union {b}) \in Nat
    <3>1. Cardinality(From(b, s)) \in Nat
      BY FromFinite
    <3> QED
      BY <2>3, <3>1, FS_CardinalityType
  <2>6. Cardinality(From(b, s)) <= n + 1
    BY <2>3, <2>4, <2>5
  <2> QED
    BY <2>1, <2>6 DEF Greatest, From
<1>4. \A i \in s : Cardinality(From(i, s)) <= n
  <2> TAKE i \in s
  <2>1. Cardinality(From(i, s)) \in Nat /\ Cardinality(From(i, s)) <= Cardinality(s)
    BY FromFinite
  <2>2. Cardinality(s) \in Nat /\ Cardinality(s) <= n
    BY <1>2, <1>3
  <2> QED
    BY <2>1, <2>2
<1> QED
  BY <1>4 DEF Greatest, From

\* What a page shows, and the cursor it leaves.
LEMMA PageShown ==
    ASSUME NEW s \in SUBSET Nat, NEW k \in Nat, \A i \in s : i <= k, NEW n \in Nat, n >= 1
    PROVE  LET fetched == Greatest(n + 1, s)
               shown == Greatest(n, fetched)
           IN  /\ shown \subseteq s
               /\ Cardinality(fetched) > n =>
                    /\ Min(shown) \in shown /\ \A i \in shown : Min(shown) <= i
                    /\ \A i \in s \ shown : i < Min(shown)
               /\ ~(Cardinality(fetched) > n) => shown = s
<1> DEFINE fetched == Greatest(n + 1, s)
           shown == Greatest(n, fetched)
<1>1. IsFiniteSet(s)
  BY FS_BoundedSetOfNaturals
<1>2. shown = Greatest(n, s) /\ shown \subseteq s /\ shown \in SUBSET Nat
  <2>1. shown = Greatest(n, s)
    BY <1>1, GreatestOfMore
  <2> QED
    BY <2>1 DEF Greatest
<1>3. IsFiniteSet(fetched) /\ Cardinality(fetched) \in Nat
  <2>1. fetched \in SUBSET s
    BY DEF Greatest
  <2> HIDE DEF fetched
  <2> QED
    BY <1>1, <2>1, FS_Subset, FS_CardinalityType
<1>4. ASSUME Cardinality(fetched) > n
      PROVE  /\ Min(shown) \in shown /\ \A i \in shown : Min(shown) <= i
             /\ \A i \in s \ shown : i < Min(shown)
  <2>1. s # {}
    <3>1. fetched # {}
      <4> HIDE DEF fetched
      <4> QED
        BY <1>3, <1>4, FS_EmptySet
    <3> QED
      BY <3>1 DEF Greatest
  <2>2. shown # {}
    BY <1>1, <1>2, <2>1, GreatestNotEmpty
  <2>3. \A i \in shown, j \in s \ shown : j < i
    BY <1>1, <1>2, GreatestAbove
  <2> HIDE DEF shown
  <2>4. Min(shown) \in shown /\ \A i \in shown : Min(shown) <= i
    BY <1>2, <2>2, LeastFound
  <2> QED
    BY <2>3, <2>4
<1>5. ASSUME ~(Cardinality(fetched) > n) PROVE shown = s
  <2>1. Cardinality(fetched) <= n
    BY <1>3, <1>5
  <2> QED
    BY <1>1, <1>2, <2>1, GreatestIsAll
<1> HIDE DEF fetched, shown
<1>6. /\ shown \subseteq s
      /\ Cardinality(fetched) > n =>
           /\ Min(shown) \in shown /\ \A i \in shown : Min(shown) <= i
           /\ \A i \in s \ shown : i < Min(shown)
      /\ ~(Cardinality(fetched) > n) => shown = s
  BY <1>2, <1>4, <1>5
<1> QED
  BY <1>6 DEF fetched, shown

-----------------------------------------------------------------------------
(***************************************************************************)
(* Likes                                                                   *)
(***************************************************************************)

SocialTypeOK ==
    /\ pc \in [Requests -> {"idle"} \union InFlight \union Ended]
    /\ who \in [Requests -> Members \union {None}]
    /\ answer \in [Requests -> AnswerIds \union {None}]
    /\ read \in [Requests -> SUBSET Requests]
    /\ total \in [Requests -> 0..Cardinality(Requests)]
    /\ comment \in [Requests -> CommentIds \union {None}]
    /\ answers \subseteq AnswerIds
    /\ filled \subseteq answers
    /\ edits \in 0..MaxEdits
    /\ deleted \in BOOLEAN
    /\ likes \subseteq Requests
    /\ lock \in [AnswerIds -> Requests \union {None}]
    /\ comments \subseteq CommentIds
    /\ withdrawn \subseteq Members

\* Everything but the readers.
SocialInv ==
    /\ SocialTypeOK
    /\ RequestsInPlace
    /\ LocksHeld
    /\ LikesInPlace
    /\ ReadCurrent
    /\ LikesAddUp

\* The toggles of a member's like of an answer that were committed so.
Committed(result, m, x) == {r \in Requests : pc[r] = result /\ who[r] = m /\ answer[r] = x}

AddsUp(m, x) ==
    /\ Cardinality(LikesOf(m, x)) <= 1
    /\ Cardinality(LikesOf(m, x)) =
          Cardinality(Committed("liked", m, x)) - Cardinality(Committed("unliked", m, x))

LEMMA AllAddUp ==
    /\ LikesAddUp <=> \A m \in Members \ withdrawn, x \in answers : AddsUp(m, x)
    /\ LikesAddUp' <=> \A m \in Members \ withdrawn', x \in answers' : AddsUp(m, x)'
BY DEF LikesAddUp, AddsUp, Committed

LEMMA CommittedFinite ==
    ASSUME NEW result, NEW m, NEW x
    PROVE  /\ IsFiniteSet(Committed(result, m, x))
           /\ Cardinality(Committed(result, m, x)) \in Nat
<1>1. Committed(result, m, x) \in SUBSET Requests /\ IsFiniteSet(Requests)
  BY FeedAssumption DEF Committed
<1>2. IsFiniteSet(Committed(result, m, x))
  <2> HIDE DEF Committed
  <2> QED
    BY <1>1, FS_Subset
<1> QED
  BY <1>2, FS_CardinalityType

\* The other requests stay as they are.
OthersStay(r) ==
    \A q \in Requests \ {r} :
        /\ pc'[q] = pc[q] /\ who'[q] = who[q] /\ answer'[q] = answer[q] /\ read'[q] = read[q]

\* A step of a request that answers no toggle leaves the likes as they are.
LEMMA QuietRequest ==
    ASSUME SocialInv, NEW r \in Requests, OthersStay(r), pc[r] \notin {"liked", "unliked"},
           pc'[r] \notin {"liked", "unliked"}, UNCHANGED <<likes, withdrawn, answers>>
    PROVE  /\ LikesInPlace' /\ LikesAddUp'
           /\ \A x \in AnswerIds : LikesOn(x)' = LikesOn(x)
           /\ \A q \in Requests \ {r} : pc'[q] = "write" => UpToDate(q)'
<1>1. r \notin likes /\ \A q \in likes : q \in Requests \ {r}
  BY DEF SocialInv, SocialTypeOK, LikesInPlace
<1>2. \A x : LikesOn(x)' = LikesOn(x)
  BY <1>1 DEF LikesOn, OthersStay
<1>3. \A m, x : LikesOf(m, x)' = LikesOf(m, x)
  BY <1>1, <1>2 DEF LikesOf, LikesOn, OthersStay
<1>4. \A m, x : /\ Committed("liked", m, x)' = Committed("liked", m, x)
                /\ Committed("unliked", m, x)' = Committed("unliked", m, x)
  BY DEF Committed, OthersStay
<1>5. LikesAddUp'
  <2>1. \A m \in Members \ withdrawn, x \in answers : AddsUp(m, x)'
    BY <1>3, <1>4, AllAddUp DEF SocialInv, AddsUp
  <2> QED
    BY <2>1, AllAddUp
<1>6. LikesInPlace'
  BY <1>1 DEF SocialInv, LikesInPlace, OneEach, OthersStay
<1>7. ASSUME NEW q \in Requests \ {r}, pc'[q] = "write" PROVE UpToDate(q)'
  <2>1. UpToDate(q) /\ \A y \in read[q] : y \in Requests \ {r}
    BY <1>7 DEF SocialInv, ReadCurrent, UpToDate, OthersStay, SocialTypeOK
  <2> QED
    BY <1>2, <2>1 DEF UpToDate, OneEach, OthersStay
<1> QED
  BY <1>2, <1>5, <1>6, <1>7

LEMMA BeginKeeps ==
    ASSUME SocialInv, NEW r \in Requests, NEW m \in Members, NEW x \in answers,
           NEW next \in {"toggle", "insert"}, Begin(r, m, x, next)
    PROVE  SocialInv'
<1> USE FeedAssumption
<1>1. /\ pc[r] = "idle" /\ x \in AnswerIds /\ ~deleted
      /\ pc' = [pc EXCEPT ![r] = next] /\ who' = [who EXCEPT ![r] = m]
      /\ answer' = [answer EXCEPT ![r] = x]
      /\ UNCHANGED <<read, total, comment, answerVars, socialVars>>
  BY DEF Begin, SocialInv, SocialTypeOK, RequestsInPlace
<1>2. SocialTypeOK'
  BY <1>1 DEF SocialInv, SocialTypeOK, InFlight, answerVars, socialVars
<1>3. /\ OthersStay(r) /\ pc'[r] = next /\ who'[r] = m /\ answer'[r] = x
      /\ UNCHANGED <<comment, answers, deleted, likes, lock, withdrawn>>
  BY <1>1 DEF OthersStay, SocialInv, SocialTypeOK, answerVars, socialVars
<1>4. RequestsInPlace'
  BY <1>1, <1>3 DEF SocialInv, RequestsInPlace, OthersStay
<1>5. LocksHeld'
  BY <1>1, <1>3 DEF SocialInv, SocialTypeOK, LocksHeld, OthersStay
<1>6. LikesInPlace' /\ LikesAddUp' /\ ReadCurrent'
  BY <1>1, <1>3, QuietRequest DEF ReadCurrent
<1> QED
  BY <1>2, <1>4, <1>5, <1>6 DEF SocialInv

LEMMA ToggleLockKeeps ==
    ASSUME SocialInv, NEW r \in Requests, ToggleLock(r)
    PROVE  SocialInv'
<1> USE FeedAssumption
<1>1. PICK x \in AnswerIds : /\ x = answer[r] /\ pc[r] = "toggle" /\ lock[x] = None
                             /\ r # None /\ x # None
  BY DEF ToggleLock, Free, SocialInv, RequestsInPlace, AnswerIds
<1>2. UNCHANGED <<who, answer, read, total, comment, answers, filled, edits, deleted, likes,
                  comments, withdrawn>>
  BY DEF ToggleLock, Continue, answerVars
<1>3. \/ /\ x \in answers /\ lock' = [lock EXCEPT ![x] = r]
         /\ pc' = [pc EXCEPT ![r] = "read"]
      \/ lock' = lock /\ pc' = [pc EXCEPT ![r] = "failed"]
  BY <1>1 DEF ToggleLock, Continue
<1>4. SocialTypeOK'
  BY <1>2, <1>3 DEF SocialInv, SocialTypeOK, InFlight, Ended
<1>5. /\ OthersStay(r) /\ pc'[r] \in {"read", "failed"}
      /\ \A y \in AnswerIds \ {x} : lock'[y] = lock[y]
      /\ pc'[r] = "read" => lock'[x] = r /\ x \in answers
      /\ pc'[r] = "failed" => lock'[x] = None
  BY <1>1, <1>2, <1>3 DEF OthersStay, SocialInv, SocialTypeOK
<1>6. RequestsInPlace'
  <2>1. comment[r] = None
    BY <1>1 DEF SocialInv, RequestsInPlace
  <2> QED
    BY <1>1, <1>2, <1>5, <2>1 DEF SocialInv, RequestsInPlace, OthersStay
<1>7. LocksHeld'
  <2>1. \A q \in Requests \ {r} : pc[q] \in {"read", "write"} => answer[q] \in AnswerIds \ {x}
    BY <1>1 DEF SocialInv, LocksHeld, SocialTypeOK
  <2>2. \A y \in AnswerIds \ {x} : lock[y] # r /\ lock[y] \in Requests \union {None}
    BY <1>1 DEF SocialInv, LocksHeld, SocialTypeOK
  <2> QED
    BY <1>1, <1>2, <1>5, <2>1, <2>2 DEF SocialInv, LocksHeld, OthersStay
<1>8. LikesInPlace' /\ LikesAddUp' /\ ReadCurrent'
  BY <1>1, <1>2, <1>5, QuietRequest DEF ReadCurrent
<1> QED
  BY <1>4, <1>6, <1>7, <1>8 DEF SocialInv

LEMMA ToggleReadKeeps ==
    ASSUME SocialInv, NEW r \in Requests, ToggleRead(r)
    PROVE  SocialInv'
<1> USE FeedAssumption
<1>1. /\ pc[r] = "read" /\ pc' = [pc EXCEPT ![r] = "write"]
      /\ read' = [read EXCEPT ![r] = LikesOn(answer[r])]
      /\ UNCHANGED <<who, answer, total, comment, answers, filled, edits, deleted, likes, lock,
                     comments, withdrawn>>
  BY DEF ToggleRead, Continue, answerVars, socialVars
<1>2. SocialTypeOK'
  <2>1. LikesOn(answer[r]) \in SUBSET Requests
    BY DEF LikesOn, SocialInv, SocialTypeOK
  <2> QED
    BY <1>1, <2>1 DEF SocialInv, SocialTypeOK, InFlight
<1>3. OthersStay(r) /\ pc'[r] = "write" /\ read'[r] = LikesOn(answer[r])
  BY <1>1 DEF OthersStay, SocialInv, SocialTypeOK
<1>4. RequestsInPlace'
  BY <1>1, <1>3 DEF SocialInv, RequestsInPlace, OthersStay
<1>5. LocksHeld'
  BY <1>1, <1>3 DEF SocialInv, SocialTypeOK, LocksHeld, OthersStay
<1>6. LikesInPlace' /\ LikesAddUp' /\ \A q \in Requests \ {r} : pc'[q] = "write" => UpToDate(q)'
  BY <1>1, <1>3, QuietRequest
<1>7. UpToDate(r)'
  <2>1. answer[r] \in AnswerIds /\ LikesOn(answer[r])' = LikesOn(answer[r])
    BY <1>1, <1>3, QuietRequest DEF SocialInv, RequestsInPlace
  <2>2. \A q \in LikesOn(answer[r]) : q \in likes /\ q \in Requests \ {r} /\ answer[q] = answer[r]
    BY <1>1 DEF LikesOn, SocialInv, LikesInPlace, SocialTypeOK
  <2>3. \A q \in LikesOn(answer[r]) : pc'[q] = "liked"
    BY <1>3, <2>2 DEF SocialInv, LikesInPlace, OthersStay
  <2>4. OneEach(read[r])'
    BY <1>1, <1>3, <2>2 DEF SocialInv, LikesInPlace, OneEach
  <2> QED
    BY <1>1, <1>3, <2>1, <2>2, <2>3, <2>4 DEF UpToDate
<1> QED
  BY <1>2, <1>4, <1>5, <1>6, <1>7 DEF SocialInv, ReadCurrent

\* What a toggle that is about to write has read.
LEMMA ToggleSees ==
    ASSUME SocialInv, NEW r \in Requests, pc[r] = "write"
    PROVE  \E m \in Members, x \in AnswerIds :
             /\ m = who[r] /\ x = answer[r] /\ x \in answers /\ lock[x] = r
             /\ LikesOn(x) \subseteq read[r] /\ read[r] \in SUBSET Requests /\ r \notin read[r]
             /\ \A q \in read[r] \ LikesOn(x) : who[q] \in withdrawn
             /\ \A q \in read[r] : pc[q] = "liked" /\ answer[q] = x
             /\ OneEach(read[r])
             /\ Own(r) = {} => LikesOf(m, x) = {}
             /\ Own(r) # {} /\ m \notin withdrawn => LikesOf(m, x) = Own(r) /\ \E q : Own(r) = {q}
             /\ \A q \in Requests \ {r} : pc[q] \in {"read", "write"} => answer[q] # x
<1>1. PICK m \in Members, x \in AnswerIds :
        m = who[r] /\ x = answer[r] /\ x \in answers /\ lock[x] = r
  BY DEF SocialInv, RequestsInPlace, LocksHeld
<1>2. /\ LikesOn(x) \subseteq read[r] /\ read[r] \in SUBSET Requests /\ r \notin read[r]
      /\ \A q \in read[r] \ LikesOn(x) : who[q] \in withdrawn
      /\ \A q \in read[r] : pc[q] = "liked" /\ answer[q] = x
      /\ OneEach(read[r])
  BY <1>1 DEF SocialInv, SocialTypeOK, ReadCurrent, UpToDate
<1>3. Own(r) = {} => LikesOf(m, x) = {}
  BY <1>1, <1>2 DEF Own, LikesOf
<1>4. Own(r) # {} /\ m \notin withdrawn => LikesOf(m, x) = Own(r) /\ \E q : Own(r) = {q}
  <2>1. ASSUME m \notin withdrawn PROVE LikesOf(m, x) = Own(r)
    BY <1>1, <1>2, <2>1 DEF Own, LikesOf
  <2>2. \A q, y \in Own(r) : q = y
    BY <1>2 DEF Own, OneEach
  <2> QED
    BY <2>1, <2>2
<1>5. \A q \in Requests \ {r} : pc[q] \in {"read", "write"} => answer[q] # x
  BY <1>1 DEF SocialInv, LocksHeld
<1> QED
  BY <1>1, <1>2, <1>3, <1>4, <1>5

\* A like that is added or removed changes what one member likes about one answer.
LEMMA LikeCounted ==
    ASSUME SocialInv, NEW r \in Requests, pc[r] = "write", OthersStay(r),
           UNCHANGED <<who, answer, withdrawn, answers>>,
           \/ /\ pc'[r] = "liked" /\ Own(r) = {} /\ who[r] \notin withdrawn
              /\ likes' = likes \union {r}
           \/ /\ pc'[r] = "unliked" /\ Own(r) # {}
              /\ likes' = likes \ LikesOf(who[r], answer[r])
    PROVE  LikesAddUp'
<1>1. PICK m \in Members, x \in AnswerIds :
        /\ m = who[r] /\ x = answer[r] /\ x \in answers
        /\ Own(r) = {} => LikesOf(m, x) = {}
        /\ Own(r) # {} /\ m \notin withdrawn => LikesOf(m, x) = Own(r) /\ \E q : Own(r) = {q}
  BY ToggleSees
<1> SUFFICES ASSUME NEW n \in Members \ withdrawn, NEW y \in answers
             PROVE  AddsUp(n, y)'
  BY AllAddUp
<1> DEFINE A == Committed("liked", n, y)
           B == Committed("unliked", n, y)
<1>2. AddsUp(n, y)
  BY AllAddUp DEF SocialInv
<1>3. /\ IsFiniteSet(A) /\ IsFiniteSet(B) /\ Cardinality(A) \in Nat /\ Cardinality(B) \in Nat
  BY CommittedFinite
<1>4. r \notin A /\ r \notin B
  BY DEF Committed
<1>5. CASE n # m \/ y # x
  <2>1. A' = A /\ B' = B /\ LikesOf(n, y)' = LikesOf(n, y)
    BY <1>1, <1>5 DEF Committed, OthersStay, LikesOf, LikesOn
  <2> QED
    BY <1>2, <2>1 DEF AddsUp
<1>6. CASE n = m /\ y = x /\ pc'[r] = "liked"
  <2>1. A' = A \union {r} /\ B' = B
    BY <1>1, <1>6 DEF Committed, OthersStay
  <2>2. LikesOf(n, y) = {} /\ LikesOf(n, y)' = {r}
    <3>1. likes' = likes \union {r} /\ LikesOf(n, y) = {}
      BY <1>1, <1>6
    <3> QED
      BY <1>1, <1>6, <3>1 DEF LikesOf, LikesOn
  <2>3. Cardinality(A') = Cardinality(A) + 1
    <3> HIDE DEF A
    <3> QED
      BY <1>3, <1>4, <2>1, FS_AddElement
  <2>4. Cardinality(LikesOf(n, y)) = 0 /\ Cardinality(LikesOf(n, y)') = 1
    BY <2>2, FS_EmptySet, FS_Singleton
  <2> HIDE DEF A, B
  <2>5. Cardinality(LikesOf(n, y)') = Cardinality(A') - Cardinality(B')
    <3>1. Cardinality(LikesOf(n, y)) = Cardinality(A) - Cardinality(B)
      BY <1>2 DEF AddsUp, A, B
    <3> QED
      BY <1>3, <2>1, <2>3, <2>4, <3>1
  <2> QED
    BY <2>4, <2>5 DEF AddsUp, A, B
<1>7. CASE n = m /\ y = x /\ pc'[r] = "unliked"
  <2>1. A' = A /\ B' = B \union {r}
    BY <1>1, <1>7 DEF Committed, OthersStay
  <2>2. (\E q : LikesOf(n, y) = {q}) /\ LikesOf(n, y)' = {}
    <3>1. likes' = likes \ LikesOf(n, y) /\ \E q : LikesOf(n, y) = {q}
      BY <1>1, <1>7
    <3> QED
      BY <3>1 DEF LikesOf, LikesOn
  <2>3. Cardinality(B') = Cardinality(B) + 1
    <3> HIDE DEF B
    <3> QED
      BY <1>3, <1>4, <2>1, FS_AddElement
  <2>4. Cardinality(LikesOf(n, y)) = 1 /\ Cardinality(LikesOf(n, y)') = 0
    BY <2>2, FS_EmptySet, FS_Singleton
  <2> HIDE DEF A, B
  <2>5. Cardinality(LikesOf(n, y)') = Cardinality(A') - Cardinality(B')
    <3>1. Cardinality(LikesOf(n, y)) = Cardinality(A) - Cardinality(B)
      BY <1>2 DEF AddsUp, A, B
    <3> QED
      BY <1>3, <2>1, <2>3, <2>4, <3>1
  <2> QED
    BY <2>4, <2>5 DEF AddsUp, A, B
<1> QED
  BY <1>5, <1>6, <1>7

LEMMA UnlockKeeps ==
    ASSUME SocialInv, NEW r \in Requests, Unlock(r), OthersStay(r), pc'[r] \notin {"read", "write"},
           UNCHANGED <<answer, answers>>
    PROVE  LocksHeld' /\ lock' \in [AnswerIds -> Requests \union {None}]
<1>1. \A y \in AnswerIds : lock'[y] = IF lock[y] = r THEN None ELSE lock[y]
  BY DEF Unlock
<1>2. \A q \in Requests \ {r} : pc[q] \in {"read", "write"} => answer[q] \in AnswerIds
  BY DEF SocialInv, RequestsInPlace
<1>3. \A y \in AnswerIds : lock[y] \in Requests \union {None}
  BY DEF SocialInv, SocialTypeOK
<1>4. lock' \in [AnswerIds -> Requests \union {None}]
  BY <1>3 DEF Unlock
<1>5. LocksHeld'
  BY <1>1, <1>2, <1>3 DEF SocialInv, LocksHeld, OthersStay
<1> QED
  BY <1>4, <1>5

LEMMA ToggleWriteKeeps ==
    ASSUME SocialInv, NEW r \in Requests, ToggleWrite(r)
    PROVE  SocialInv'
<1> USE FeedAssumption
<1>1. /\ pc[r] = "write" /\ Unlock(r)
      /\ UNCHANGED <<who, answer, read, comment, answers, filled, edits, deleted, comments, withdrawn>>
  BY DEF ToggleWrite, Continue, answerVars
<1>2. PICK m \in Members, x \in AnswerIds :
        /\ m = who[r] /\ x = answer[r] /\ x \in answers /\ lock[x] = r
        /\ LikesOn(x) \subseteq read[r] /\ read[r] \in SUBSET Requests /\ r \notin read[r]
        /\ Own(r) = {} => LikesOf(m, x) = {}
        /\ \A q \in Requests \ {r} : pc[q] \in {"read", "write"} => answer[q] # x
  BY <1>1, ToggleSees
<1>3. \/ /\ pc' = [pc EXCEPT ![r] = "liked"] /\ Own(r) = {} /\ m \notin withdrawn
         /\ likes' = likes \union {r} /\ total' = [total EXCEPT ![r] = TotalAfter(r)]
      \/ /\ pc' = [pc EXCEPT ![r] = "unliked"] /\ Own(r) # {}
         /\ likes' = likes \ LikesOf(m, x) /\ total' = [total EXCEPT ![r] = TotalAfter(r)]
      \/ pc' = [pc EXCEPT ![r] = "failed"] /\ UNCHANGED <<likes, total>>
  BY <1>2 DEF ToggleWrite, Continue, Insertable
<1>4. OthersStay(r) /\ pc'[r] \in {"liked", "unliked", "failed"}
  BY <1>1, <1>3 DEF OthersStay, SocialInv, SocialTypeOK
<1>5. LocksHeld' /\ lock' \in [AnswerIds -> Requests \union {None}]
  BY <1>1, <1>4, UnlockKeeps
<1>6. RequestsInPlace'
  <2>1. comment[r] = None
    BY <1>1 DEF SocialInv, RequestsInPlace
  <2> QED
    BY <1>1, <1>4, <2>1 DEF SocialInv, RequestsInPlace, OthersStay
<1>7. TotalAfter(r) \in 0..Cardinality(Requests)
  <2>1. read[r] \in SUBSET Requests /\ read[r] \union {r} \in SUBSET Requests
        /\ read[r] \ Own(r) \in SUBSET Requests
    BY <1>2
  <2>2. /\ IsFiniteSet(read[r]) /\ Cardinality(read[r]) \in Nat
        /\ Cardinality(read[r] \union {r}) = Cardinality(read[r]) + 1
    <3> DEFINE d == read[r]
    <3>1. d \in SUBSET Requests /\ r \notin d
      BY <1>2
    <3> HIDE DEF d
    <3>2. IsFiniteSet(d)
      BY <3>1, FS_Subset
    <3>3. Cardinality(d) \in Nat /\ Cardinality(d \union {r}) = Cardinality(d) + 1
      BY <3>1, <3>2, FS_AddElement, FS_CardinalityType
    <3> QED
      BY <3>2, <3>3 DEF d
  <2>3. Cardinality(read[r] \union {r}) <= Cardinality(Requests)
    BY <2>1, FS_Subset
  <2>4. Cardinality(read[r] \ Own(r)) \in Nat /\ Cardinality(read[r] \ Own(r)) <= Cardinality(Requests)
    <3> DEFINE rest == read[r] \ Own(r)
    <3>1. rest \in SUBSET Requests
      BY <2>1
    <3> HIDE DEF rest
    <3>2. Cardinality(rest) \in Nat /\ Cardinality(rest) <= Cardinality(Requests)
      BY <3>1, FS_Subset, FS_CardinalityType
    <3> QED
      BY <3>2 DEF rest
  <2>5. Cardinality(Requests) \in Nat
    BY FS_CardinalityType
  <2> QED
    BY <2>2, <2>3, <2>4, <2>5 DEF TotalAfter
<1>8. SocialTypeOK'
  BY <1>1, <1>3, <1>5, <1>7 DEF SocialInv, SocialTypeOK, Ended
<1>9. CASE pc'[r] = "failed"
  <2>1. UNCHANGED <<likes, withdrawn, answers>>
    BY <1>1, <1>3, <1>9 DEF SocialInv, SocialTypeOK
  <2>2. LikesInPlace' /\ LikesAddUp' /\ ReadCurrent'
    BY <1>1, <1>4, <1>9, <2>1, QuietRequest DEF ReadCurrent
  <2> QED
    BY <1>5, <1>6, <1>8, <2>2 DEF SocialInv
<1>10. CASE pc'[r] \in {"liked", "unliked"}
  <2>1. \/ pc'[r] = "liked" /\ Own(r) = {} /\ m \notin withdrawn /\ likes' = likes \union {r}
        \/ pc'[r] = "unliked" /\ Own(r) # {} /\ likes' = likes \ LikesOf(m, x)
    BY <1>3, <1>10 DEF SocialInv, SocialTypeOK
  <2>2. LikesAddUp'
    BY <1>1, <1>2, <1>4, <2>1, LikeCounted
  <2>3. r \notin likes /\ \A q \in likes : q \in Requests \ {r} /\ pc'[q] = "liked"
    BY <1>1, <1>4 DEF SocialInv, SocialTypeOK, LikesInPlace, OthersStay
  <2>4. LikesInPlace'
    <3>1. CASE likes' \subseteq likes
      BY <1>1, <2>3, <3>1 DEF SocialInv, LikesInPlace, OneEach
    <3>2. CASE pc'[r] = "liked" /\ m \notin withdrawn /\ LikesOf(m, x) = {} /\ likes' = likes \union {r}
      <4>1. \A q \in likes : ~(who[q] = m /\ answer[q] = x)
        BY <3>2 DEF LikesOf, LikesOn
      <4> QED
        BY <1>1, <1>2, <2>3, <3>2, <4>1 DEF SocialInv, LikesInPlace, OneEach
    <3> QED
      BY <1>2, <2>1, <3>1, <3>2
  <2>5. ASSUME NEW q \in Requests, pc'[q] = "write" PROVE UpToDate(q)'
    <3>1. /\ q # r /\ UpToDate(q) /\ pc[q] = "write" /\ answer[q] # x
          /\ \A y \in read[q] : y \in Requests \ {r}
      BY <1>1, <1>2, <1>4, <1>10, <2>5 DEF SocialInv, ReadCurrent, UpToDate, OthersStay, SocialTypeOK
    <3>2. LikesOn(answer[q])' = LikesOn(answer[q])
      BY <1>1, <1>2, <2>1, <3>1 DEF LikesOn, LikesOf
    <3> QED
      BY <1>1, <1>4, <3>1, <3>2 DEF UpToDate, OneEach, OthersStay
  <2> QED
    BY <1>5, <1>6, <1>8, <2>2, <2>4, <2>5 DEF SocialInv, ReadCurrent
<1> QED
  BY <1>4, <1>9, <1>10

LEMMA CommentInsertKeeps ==
    ASSUME SocialInv, NEW r \in Requests, CommentInsert(r)
    PROVE  SocialInv'
<1> USE FeedAssumption
<1>1. /\ pc[r] = "insert" /\ comment[r] = None
      /\ UNCHANGED <<who, answer, read, total, answers, filled, edits, deleted, likes, lock,
                     comments, withdrawn>>
  BY DEF CommentInsert, Continue, answerVars, socialVars, SocialInv, RequestsInPlace
<1>2. \/ comment' = [comment EXCEPT ![r] = NextComment] /\ pc' = [pc EXCEPT ![r] = "commit"]
      \/ comment' = comment /\ pc' = [pc EXCEPT ![r] = "failed"]
  BY DEF CommentInsert, Continue
<1>3. NextComment \in CommentIds
  <2> DEFINE given == {q \in Requests : comment[q] # None}
  <2>1. given \in SUBSET Requests /\ given \union {r} \in SUBSET Requests /\ r \notin given
    BY <1>1
  <2>2. IsFiniteSet(given) /\ NextComment = Cardinality(given) + 1
    <3>1. NextComment = Cardinality(given) + 1
      BY DEF NextComment
    <3> HIDE DEF given
    <3> QED
      BY <2>1, <3>1, FS_Subset
  <2> HIDE DEF given
  <2>3. Cardinality(given) \in Nat /\ Cardinality(given \union {r}) = Cardinality(given) + 1
    BY <2>1, <2>2, FS_CardinalityType, FS_AddElement
  <2>4. Cardinality(given \union {r}) <= Cardinality(Requests)
    <3> DEFINE g == given \union {r}
    <3>1. g \in SUBSET Requests
      BY <2>1
    <3> HIDE DEF g
    <3>2. Cardinality(g) <= Cardinality(Requests)
      BY <3>1, FS_Subset
    <3> QED
      BY <3>2 DEF g
  <2>5. Cardinality(Requests) \in Nat
    BY FS_CardinalityType
  <2> QED
    BY <2>2, <2>3, <2>4, <2>5 DEF CommentIds
<1>4. SocialTypeOK'
  BY <1>1, <1>2, <1>3 DEF SocialInv, SocialTypeOK, InFlight, Ended
<1>5. OthersStay(r) /\ pc'[r] \in {"commit", "failed"} /\ \A q \in Requests \ {r} : comment'[q] = comment[q]
  BY <1>1, <1>2 DEF OthersStay, SocialInv, SocialTypeOK
<1>6. RequestsInPlace'
  <2>1. pc'[r] = "commit" => comment'[r] # None
    BY <1>1, <1>2, <1>3 DEF SocialInv, SocialTypeOK, CommentIds
  <2> QED
    BY <1>1, <1>5, <2>1 DEF SocialInv, RequestsInPlace, OthersStay
<1>7. LocksHeld'
  BY <1>1, <1>5 DEF SocialInv, SocialTypeOK, LocksHeld, OthersStay
<1>8. LikesInPlace' /\ LikesAddUp' /\ ReadCurrent'
  BY <1>1, <1>5, QuietRequest DEF ReadCurrent
<1> QED
  BY <1>4, <1>6, <1>7, <1>8 DEF SocialInv

LEMMA CommentCommitKeeps ==
    ASSUME SocialInv, NEW r \in Requests, CommentCommit(r)
    PROVE  SocialInv'
<1> USE FeedAssumption
<1>1. /\ pc[r] = "commit" /\ pc' = [pc EXCEPT ![r] = "commented"]
      /\ comments' = comments \union {comment[r]}
      /\ UNCHANGED <<who, answer, read, total, comment, answers, filled, edits, deleted, likes, lock,
                     withdrawn>>
  BY DEF CommentCommit, Continue, answerVars
<1>2. OthersStay(r) /\ pc'[r] = "commented"
  BY <1>1 DEF OthersStay, SocialInv, SocialTypeOK
<1>3. comment[r] \in CommentIds
  BY <1>1 DEF SocialInv, RequestsInPlace, SocialTypeOK
<1>4. SocialTypeOK'
  BY <1>1, <1>3 DEF SocialInv, SocialTypeOK, Ended
<1>5. RequestsInPlace'
  BY <1>1, <1>2 DEF SocialInv, RequestsInPlace, OthersStay
<1>6. LocksHeld'
  BY <1>1, <1>2 DEF SocialInv, SocialTypeOK, LocksHeld, OthersStay
<1>7. LikesInPlace' /\ LikesAddUp' /\ ReadCurrent'
  BY <1>1, <1>2, QuietRequest DEF ReadCurrent
<1> QED
  BY <1>4, <1>5, <1>6, <1>7 DEF SocialInv

LEMMA AbortKeeps ==
    ASSUME SocialInv, NEW r \in Requests, Abort(r)
    PROVE  SocialInv'
<1> USE FeedAssumption
<1>1. /\ pc[r] \in InFlight /\ pc' = [pc EXCEPT ![r] = "failed"] /\ Unlock(r)
      /\ UNCHANGED <<who, answer, read, total, comment, answers, filled, edits, deleted, likes,
                     comments, withdrawn>>
  BY DEF Abort, Continue, answerVars
<1>2. OthersStay(r) /\ pc'[r] = "failed"
  BY <1>1 DEF OthersStay, SocialInv, SocialTypeOK
<1>3. LocksHeld' /\ lock' \in [AnswerIds -> Requests \union {None}]
  BY <1>1, <1>2, UnlockKeeps
<1>4. SocialTypeOK'
  BY <1>1, <1>3 DEF SocialInv, SocialTypeOK, Ended
<1>5. RequestsInPlace'
  BY <1>1, <1>2 DEF SocialInv, RequestsInPlace, OthersStay, InFlight
<1>6. LikesInPlace' /\ LikesAddUp' /\ ReadCurrent'
  BY <1>1, <1>2, QuietRequest DEF ReadCurrent, InFlight
<1> QED
  BY <1>3, <1>4, <1>5, <1>6 DEF SocialInv

\* A new answer has no likes yet, and nobody has asked for one.
LEMMA AddAnswerKeeps ==
    ASSUME SocialInv, NEW x \in AnswerIds, AddAnswer(x)
    PROVE  SocialInv'
<1> USE FeedAssumption
<1>1. /\ x \notin answers /\ ~deleted /\ answers' = answers \union {x}
      /\ UNCHANGED <<pc, who, answer, read, total, comment, filled, edits, deleted, likes, lock,
                     comments, withdrawn>>
  BY DEF AddAnswer, requestVars, socialVars
<1>2. SocialTypeOK' /\ RequestsInPlace' /\ LocksHeld' /\ LikesInPlace' /\ ReadCurrent'
  <2>1. SocialTypeOK'
    BY <1>1 DEF SocialInv, SocialTypeOK
  <2>2. RequestsInPlace' /\ LocksHeld'
    BY <1>1 DEF SocialInv, RequestsInPlace, LocksHeld
  <2>3. LikesInPlace' /\ ReadCurrent'
    BY <1>1 DEF SocialInv, LikesInPlace, ReadCurrent, UpToDate, OneEach, LikesOn
  <2> QED
    BY <2>1, <2>2, <2>3
<1>3. LikesAddUp'
  <2> SUFFICES ASSUME NEW m \in Members \ withdrawn, NEW y \in answers'
               PROVE  AddsUp(m, y)'
    BY <1>1, AllAddUp
  <2>1. /\ LikesOf(m, y)' = LikesOf(m, y)
        /\ Committed("liked", m, y)' = Committed("liked", m, y)
        /\ Committed("unliked", m, y)' = Committed("unliked", m, y)
    BY <1>1 DEF LikesOf, LikesOn, Committed
  <2>2. CASE y # x
    BY <1>1, <2>1, <2>2, AllAddUp DEF SocialInv, AddsUp
  <2>3. CASE y = x
    <3>1. \A r \in Requests : pc[r] # "idle" => answer[r] # x
      BY <1>1 DEF SocialInv, RequestsInPlace
    <3>2. /\ LikesOf(m, y) = {}
          /\ Committed("liked", m, y) = {} /\ Committed("unliked", m, y) = {}
      BY <2>3, <3>1 DEF LikesOf, LikesOn, Committed, SocialInv, SocialTypeOK, LikesInPlace
    <3> QED
      BY <2>1, <3>2, FS_EmptySet DEF AddsUp
  <2> QED
    BY <2>2, <2>3
<1> QED
  BY <1>2, <1>3 DEF SocialInv

LEMMA EditKeeps ==
    ASSUME SocialInv, NEW x \in AnswerIds, Edit(x)
    PROVE  SocialInv'
<1> USE FeedAssumption
<1>1. /\ x \in answers /\ edits < MaxEdits /\ edits' = edits + 1
      /\ filled' = IF x \in filled THEN filled \ {x} ELSE filled \union {x}
      /\ UNCHANGED <<pc, who, answer, read, total, comment, answers, deleted, likes, lock,
                     comments, withdrawn>>
  BY DEF Edit, requestVars, socialVars
<1>2. SocialTypeOK'
  BY <1>1 DEF SocialInv, SocialTypeOK
<1>3. RequestsInPlace' /\ LocksHeld'
  BY <1>1 DEF SocialInv, RequestsInPlace, LocksHeld
<1>4. LikesInPlace' /\ ReadCurrent' /\ LikesAddUp'
  BY <1>1 DEF SocialInv, LikesInPlace, ReadCurrent, UpToDate, OneEach, LikesOn, LikesOf, LikesAddUp
<1> QED
  BY <1>2, <1>3, <1>4 DEF SocialInv

LEMMA DeleteRetroKeeps ==
    ASSUME SocialInv, DeleteRetro
    PROVE  SocialInv'
<1> USE FeedAssumption
<1>1. /\ \A x \in AnswerIds : lock[x] = None
      /\ deleted' = TRUE /\ answers' = {} /\ filled' = {} /\ likes' = {} /\ comments' = {}
      /\ UNCHANGED <<pc, who, answer, read, total, comment, edits, lock, withdrawn>>
  BY DEF DeleteRetro, requestVars
<1>2. SocialTypeOK'
  BY <1>1 DEF SocialInv, SocialTypeOK
<1>3. \A r \in Requests : pc[r] \notin {"read", "write"}
  BY <1>1 DEF SocialInv, LocksHeld, RequestsInPlace
<1>4. RequestsInPlace' /\ LocksHeld'
  BY <1>1, <1>3 DEF SocialInv, RequestsInPlace, LocksHeld
<1>5. LikesInPlace' /\ ReadCurrent' /\ LikesAddUp'
  BY <1>1, <1>3 DEF SocialInv, LikesInPlace, ReadCurrent, OneEach, LikesAddUp
<1> QED
  BY <1>2, <1>4, <1>5 DEF SocialInv

\* The likes of a member go with it; what a toggle has read of them is accounted for.
LEMMA WithdrawKeeps ==
    ASSUME SocialInv, NEW m \in Members, Withdraw(m)
    PROVE  SocialInv'
<1> USE FeedAssumption
<1>1. /\ withdrawn' = withdrawn \union {m} /\ likes' = {q \in likes : who[q] # m}
      /\ comments' \subseteq comments
      /\ UNCHANGED <<pc, who, answer, read, total, comment, answers, filled, edits, deleted, lock>>
  BY DEF Withdraw, requestVars, answerVars
<1>2. SocialTypeOK'
  BY <1>1 DEF SocialInv, SocialTypeOK
<1>3. RequestsInPlace' /\ LocksHeld'
  BY <1>1 DEF SocialInv, RequestsInPlace, LocksHeld
<1>4. LikesInPlace'
  <2>1. IsFiniteSet(withdrawn')
    BY <1>1, FS_AddElement DEF SocialInv, LikesInPlace
  <2> QED
    BY <1>1, <2>1 DEF SocialInv, LikesInPlace, OneEach
<1>5. ReadCurrent'
  BY <1>1 DEF SocialInv, ReadCurrent, UpToDate, OneEach, LikesOn
<1>6. LikesAddUp'
  <2> SUFFICES ASSUME NEW n \in Members \ withdrawn', NEW x \in answers
               PROVE  AddsUp(n, x)'
    BY <1>1, AllAddUp
  <2>1. AddsUp(n, x) /\ n # m
    BY <1>1, AllAddUp DEF SocialInv
  <2>2. LikesOf(n, x)' = LikesOf(n, x)
    BY <1>1, <2>1 DEF LikesOf, LikesOn
  <2> QED
    BY <1>1, <2>1, <2>2 DEF AddsUp, Committed
<1> QED
  BY <1>2, <1>3, <1>4, <1>5, <1>6 DEF SocialInv

LEMMA SocialUnchanged ==
    ASSUME SocialInv, UNCHANGED <<requestVars, answerVars, socialVars>>
    PROVE  SocialInv'
<1> USE DEF requestVars, answerVars, socialVars
<1>1. SocialTypeOK' /\ RequestsInPlace' /\ LocksHeld'
  BY DEF SocialInv, SocialTypeOK, RequestsInPlace, LocksHeld
<1>2. LikesInPlace' /\ ReadCurrent' /\ LikesAddUp'
  BY DEF SocialInv, LikesInPlace, ReadCurrent, UpToDate, OneEach, LikesOn, LikesOf, LikesAddUp
<1> QED
  BY <1>1, <1>2 DEF SocialInv

\* Every step of a reader leaves everything else alone.
Read ==
    \E p \in Readers :
        \/ \E x \in answers \union {None} : Open(p, x)
        \/ ListComments(p) \/ ListResponses(p) \/ ListResponsesPage(p)

LEMMA SocialStep ==
    ASSUME SocialInv, [Next]_vars
    PROVE  SocialInv'
<1>1. CASE UNCHANGED vars
  BY <1>1, SocialUnchanged DEF vars
<1>2. CASE \E r \in Requests, m \in Members, x \in answers : ToggleCheck(r, m, x) \/ CommentCheck(r, m, x)
  BY <1>2, BeginKeeps DEF ToggleCheck, CommentCheck
<1>3. CASE \E r \in Requests : Serve(r) \/ Abort(r)
  BY <1>3, ToggleLockKeeps, ToggleReadKeeps, ToggleWriteKeeps, CommentInsertKeeps,
     CommentCommitKeeps, AbortKeeps DEF Serve
<1>4. CASE Read
  <2>1. UNCHANGED <<requestVars, answerVars, socialVars>>
    BY <1>4 DEF Read, Open, ListComments, ListResponses, ListResponsesPage
  <2> QED
    BY <2>1, SocialUnchanged
<1>5. CASE \E x \in AnswerIds : AddAnswer(x) \/ Edit(x)
  BY <1>5, AddAnswerKeeps, EditKeeps
<1>6. CASE (\E m \in Members : Withdraw(m)) \/ DeleteRetro
  BY <1>6, WithdrawKeeps, DeleteRetroKeeps
<1> QED
  BY <1>1, <1>2, <1>3, <1>4, <1>5, <1>6 DEF Next, Step, Read

-----------------------------------------------------------------------------
(***************************************************************************)
(* Totals                                                                  *)
(***************************************************************************)

\* Of the likes of an answer those left over are of as many members.
LEMMA LeftOver ==
    ASSUME SocialInv, NEW a \in SUBSET Requests, NEW b \in SUBSET a, NEW x,
           \A q \in a : answer[q] = x, OneEach(a), \A q \in a \ b : who[q] \in withdrawn
    PROVE  Cardinality(a) - Cardinality(b) \in 0..Cardinality(withdrawn)
<1>1. /\ IsFiniteSet(a) /\ IsFiniteSet(withdrawn) /\ IsFiniteSet(a \ b)
      /\ Cardinality(a \ b) = Cardinality(a) - Cardinality(b)
  <2>1. IsFiniteSet(a) /\ IsFiniteSet(withdrawn)
    BY FeedAssumption, FS_Subset DEF SocialInv, LikesInPlace
  <2>2. IsFiniteSet(a \ b) /\ Cardinality(a \ b) = Cardinality(a) - Cardinality(a \intersect b)
    BY <2>1, FS_Difference
  <2>3. a \intersect b = b
    OBVIOUS
  <2> QED
    BY <2>1, <2>2, <2>3
<1>2. Cardinality(a \ b) \in Nat /\ Cardinality(withdrawn) \in Nat
  BY <1>1, FS_CardinalityType
<1>3. ~(Cardinality(withdrawn) < Cardinality(a \ b))
  <2> SUFFICES ASSUME Cardinality(withdrawn) < Cardinality(a \ b) PROVE FALSE
    OBVIOUS
  <2> DEFINE d == a \ b
             f == [q \in d |-> who[q]]
  <2>1. f \in [d -> withdrawn]
    OBVIOUS
  <2>2. \E q, r \in d : q # r /\ f[q] = f[r]
    <3> HIDE DEF d, f
    <3> QED
      BY <1>1, <2>1, FS_PigeonHole DEF d
  <2>3. \E q, r \in d : q # r /\ who[q] = who[r]
    BY <2>2
  <2> QED
    BY <2>3 DEF OneEach
<1> QED
  BY <1>1, <1>2, <1>3

LEMMA TotalIsHonest ==
    ASSUME SocialInv, NEW r \in Requests, ToggleWrite(r), pc'[r] \in {"liked", "unliked"}
    PROVE  total'[r] - Cardinality(LikesOn(answer[r])') \in 0..Cardinality(withdrawn)
<1> DEFINE x == answer[r]
           m == who[r]
           before == LikesOn(x)
           seen == read[r]
<1>1. /\ before \subseteq seen /\ seen \in SUBSET Requests /\ r \notin seen
      /\ \A q \in seen \ before : who[q] \in withdrawn
      /\ \A q \in seen : answer[q] = x
      /\ OneEach(seen)
  BY ToggleSees DEF ToggleWrite
<1>2. /\ UNCHANGED <<who, answer>> /\ total'[r] = TotalAfter(r)
      /\ \/ Own(r) = {} /\ likes' = likes \union {r}
         \/ Own(r) # {} /\ likes' = likes \ LikesOf(m, x)
  BY DEF ToggleWrite, Continue, SocialInv, SocialTypeOK
<1>3. CASE Own(r) = {} /\ likes' = likes \union {r}
  <2>1. LikesOn(answer[r])' = before \union {r}
    BY <1>2, <1>3 DEF LikesOn
  <2>2. total'[r] = Cardinality(seen) + 1
    BY <1>2, <1>3 DEF TotalAfter
  <2> HIDE DEF x, m, before, seen
  <2>3. IsFiniteSet(seen) /\ IsFiniteSet(before) /\ r \notin before
    BY <1>1, FeedAssumption, FS_Subset
  <2>4. Cardinality(before \union {r}) = Cardinality(before) + 1
    BY <2>3, FS_AddElement
  <2>5. Cardinality(seen) - Cardinality(before) \in 0..Cardinality(withdrawn)
    BY <1>1, LeftOver
  <2>6. Cardinality(seen) \in Nat /\ Cardinality(before) \in Nat
    BY <2>3, FS_CardinalityType
  <2>7. (Cardinality(seen) + 1) - (Cardinality(before) + 1) = Cardinality(seen) - Cardinality(before)
    BY <2>6
  <2> QED
    BY <2>1, <2>2, <2>4, <2>5, <2>7
<1>4. CASE Own(r) # {} /\ likes' = likes \ LikesOf(m, x)
  <2> DEFINE rest == seen \ Own(r)
             after == before \ LikesOf(m, x)
  <2>1. LikesOn(answer[r])' = after
    BY <1>2, <1>4 DEF LikesOn
  <2>2. total'[r] = Cardinality(rest)
    BY <1>2, <1>4 DEF TotalAfter
  <2>3. /\ rest \in SUBSET Requests /\ after \in SUBSET rest
        /\ \A q \in rest : answer[q] = x
        /\ \A q \in rest \ after : who[q] \in withdrawn
        /\ OneEach(rest)
    BY <1>1 DEF Own, LikesOf, OneEach
  <2> HIDE DEF x, m, before, seen, rest, after
  <2>4. Cardinality(rest) - Cardinality(after) \in 0..Cardinality(withdrawn)
    BY <2>3, LeftOver
  <2> QED
    BY <2>1, <2>2, <2>4
<1> QED
  BY <1>2, <1>3, <1>4

\* Only its own write answers a toggle.
LEMMA CommittedByWrite ==
    ASSUME SocialInv, [Next]_vars, NEW r \in Requests, pc[r] = "write", pc'[r] \in {"liked", "unliked"}
    PROVE  ToggleWrite(r)
<1> SUFFICES ASSUME ~ToggleWrite(r) PROVE pc'[r] \notin {"liked", "unliked"}
  OBVIOUS
<1>1. /\ \A q \in Requests : pc[q] \in {"idle"} \union InFlight \union Ended
      /\ pc = [q \in Requests |-> pc[q]]
  BY DEF SocialInv, SocialTypeOK
<1>2. CASE UNCHANGED pc
  BY <1>2
<1>3. CASE \E q \in Requests : pc[q] # "write" /\ \E s : pc' = [pc EXCEPT ![q] = s]
  BY <1>1, <1>3
<1>4. CASE \E q \in Requests : pc' = [pc EXCEPT ![q] = "failed"]
  BY <1>1, <1>4
<1>5. CASE \E q \in Requests : ToggleWrite(q)
  <2>1. \E q \in Requests \ {r} : \E s : pc' = [pc EXCEPT ![q] = s]
    BY <1>5 DEF ToggleWrite, Continue
  <2> QED
    BY <1>1, <2>1
<1>6. ASSUME NEW q \in Requests, Serve(q), ~ToggleWrite(q)
      PROVE  pc[q] # "write" /\ \E s : pc' = [pc EXCEPT ![q] = s]
  BY <1>6 DEF Serve, ToggleLock, ToggleRead, CommentInsert, CommentCommit, Continue
<1>7. ASSUME NEW q \in Requests, Abort(q) PROVE pc' = [pc EXCEPT ![q] = "failed"]
  BY <1>7 DEF Abort, Continue
<1>8. ASSUME NEW q \in Requests, NEW m \in Members, NEW x \in answers,
             ToggleCheck(q, m, x) \/ CommentCheck(q, m, x)
      PROVE  pc[q] # "write" /\ \E s : pc' = [pc EXCEPT ![q] = s]
  BY <1>8 DEF ToggleCheck, CommentCheck, Begin
<1>9. CASE UNCHANGED vars \/ Read \/ DeleteRetro \/ (\E x \in AnswerIds : AddAnswer(x) \/ Edit(x))
           \/ \E m \in Members : Withdraw(m)
  BY <1>2, <1>9 DEF vars, requestVars, Read, Open, ListComments, ListResponses, ListResponsesPage,
     DeleteRetro, AddAnswer, Edit, Withdraw
<1> QED
  BY <1>3, <1>4, <1>5, <1>6, <1>7, <1>8, <1>9 DEF Next, Step, Read

-----------------------------------------------------------------------------
(***************************************************************************)
(* Readers                                                                 *)
(***************************************************************************)

ReaderTypeOK ==
    /\ at \in [Readers -> {"idle", "fetch", "paging", "end"}]
    /\ list \in [Readers -> AnswerIds \union {None}]
    /\ cursor \in [Readers -> Ids \union {None}]
    /\ {valid, page, got, lasting} \subseteq [Readers -> SUBSET Ids]

ReaderInv == ReaderTypeOK /\ PagesInOrder /\ PagesDisjoint /\ PagesComplete

\* The same of one reader.
TypedReader(p) ==
    /\ at[p] \in {"idle", "fetch", "paging", "end"}
    /\ list[p] \in AnswerIds \union {None}
    /\ cursor[p] \in Ids \union {None}
    /\ {valid[p], page[p], got[p], lasting[p]} \subseteq SUBSET Ids

Shown(p) == page[p] \union got[p]

InOrder(p) ==
    /\ at[p] = "idle" => cursor[p] = None
    /\ at[p] # "end" /\ cursor[p] = None => Shown(p) = {}
    /\ at[p] # "end" /\ cursor[p] # None =>
          /\ \A i \in Shown(p) : i >= cursor[p]
          /\ \A i \in lasting[p] \ Shown(p) : i < cursor[p]
    /\ at[p] # "idle" => lasting[p] \subseteq Present(list[p])
    /\ at[p] = "fetch" => list[p] = None /\ lasting[p] \subseteq valid[p]
    /\ page[p] \intersect got[p] = {}
    /\ at[p] = "end" => lasting[p] \subseteq Shown(p)

ReaderOK(p) == TypedReader(p) /\ InOrder(p)

\* The variables of readers are functions.
Maps ==
    /\ at = [p \in Readers |-> at[p]] /\ list = [p \in Readers |-> list[p]]
    /\ cursor = [p \in Readers |-> cursor[p]] /\ valid = [p \in Readers |-> valid[p]]
    /\ page = [p \in Readers |-> page[p]] /\ got = [p \in Readers |-> got[p]]
    /\ lasting = [p \in Readers |-> lasting[p]]

LEMMA EachReader ==
    /\ ReaderInv => Maps /\ \A p \in Readers : ReaderOK(p)
    /\ Maps' /\ (\A p \in Readers : ReaderOK(p)') => ReaderInv'
<1>1. ReaderTypeOK => Maps /\ \A p \in Readers : TypedReader(p)
  BY DEF ReaderTypeOK, Maps, TypedReader
<1>2. Maps' /\ (\A p \in Readers : TypedReader(p)') => ReaderTypeOK'
  BY DEF ReaderTypeOK, Maps, TypedReader
<1>3. PagesInOrder /\ PagesDisjoint /\ PagesComplete <=> \A p \in Readers : InOrder(p)
  BY DEF PagesInOrder, PagesDisjoint, PagesComplete, InOrder, Shown
<1>4. PagesInOrder' /\ PagesDisjoint' /\ PagesComplete' <=> \A p \in Readers : InOrder(p)'
  BY DEF PagesInOrder, PagesDisjoint, PagesComplete, InOrder, Shown
<1> QED
  BY <1>1, <1>2, <1>3, <1>4 DEF ReaderInv, ReaderOK

LEMMA PresentIds ==
    /\ SocialTypeOK => \A x : Present(x) \subseteq Ids
    /\ SocialTypeOK' => \A x : Present(x)' \subseteq Ids
BY DEF SocialTypeOK, Present, CommentsOn, Ids

LEMMA Kept ==
    ASSUME KeepTrack
    PROVE  /\ lasting' = [p \in Readers |-> lasting'[p]]
           /\ \A p \in Readers :
                /\ at'[p] = "idle" => lasting'[p] = {}
                /\ at[p] = "idle" /\ at'[p] # "idle" => lasting'[p] = Present(list[p])'
                /\ at[p] # "idle" /\ at'[p] # "idle" =>
                      lasting'[p] = lasting[p] \intersect Present(list[p])'
BY DEF KeepTrack

\* What a step does not show a reader can only take from what lasts.
LEMMA QuietReader ==
    ASSUME SocialTypeOK', KeepTrack, NEW p \in Readers, ReaderOK(p),
           at'[p] = at[p], list'[p] = list[p], cursor'[p] = cursor[p],
           valid'[p] = valid[p], page'[p] = page[p], got'[p] = got[p]
    PROVE  ReaderOK(p)'
<1>1. /\ at[p] = "idle" => lasting'[p] = {}
      /\ at[p] # "idle" => lasting'[p] = lasting[p] \intersect Present(list[p])'
  BY Kept
<1>2. TypedReader(p)'
  BY <1>1 DEF ReaderOK, TypedReader
<1>3. Shown(p)' = Shown(p)
  BY DEF Shown
<1>4. lasting'[p] \subseteq lasting[p] /\ (at[p] # "idle" => lasting'[p] \subseteq Present(list[p])')
  BY <1>1
<1>5. InOrder(p)'
  BY <1>3, <1>4 DEF ReaderOK, InOrder
<1> QED
  BY <1>2, <1>5 DEF ReaderOK

\* A page of the rows s, among which is whatever lasts.
LEMMA PageTurned ==
    ASSUME SocialTypeOK', KeepTrack, Maps, NEW p \in Readers, ReaderOK(p),
           at[p] \in {"paging", "fetch"}, NEW s \in SUBSET Ids, lasting[p] \subseteq s,
           TurnPage(p, s), UNCHANGED <<list, valid>>
    PROVE  ReaderOK(p)'
<1> DEFINE rows == Before(s, cursor[p])
           fetched == Greatest(PageSize + 1, rows)
           shown == Greatest(PageSize, fetched)
           hasNext == Cardinality(fetched) > PageSize
<1>1. /\ page'[p] = shown /\ got'[p] = Shown(p)
      /\ cursor'[p] = IF hasNext THEN Min(shown) ELSE None
      /\ at'[p] = IF hasNext THEN "paging" ELSE "end"
      /\ list'[p] = list[p] /\ valid'[p] = valid[p]
  BY DEF TurnPage, CursorAfter, Maps, Shown
<1>2. /\ shown \subseteq rows
      /\ hasNext => /\ Min(shown) \in shown /\ \A i \in shown : Min(shown) <= i
                    /\ \A i \in rows \ shown : i < Min(shown)
      /\ ~hasNext => shown = rows
  <2> DEFINE k == MaxAnswers + Cardinality(Requests)
  <2>1. Cardinality(Requests) \in Nat
    BY FeedAssumption, FS_CardinalityType
  <2>2. k \in Nat /\ \A i \in rows : i \in Nat /\ i <= k
    BY <2>1, FeedAssumption DEF Before, Ids, AnswerIds, CommentIds
  <2>3. PageSize \in Nat /\ PageSize >= 1
    BY FeedAssumption
  <2> HIDE DEF rows, k
  <2>4. rows \in SUBSET Nat
    BY <2>2
  <2> QED
    BY <2>2, <2>3, <2>4, PageShown
<1> HIDE DEF shown, hasNext, fetched
<1>3. /\ rows \subseteq Ids /\ rows \subseteq s
      /\ \A i \in rows : cursor[p] # None => i < cursor[p]
      /\ \A i \in s \ rows : cursor[p] # None /\ ~(i < cursor[p])
  BY DEF Before
<1> HIDE DEF rows
<1>4. Ids \subseteq Nat /\ None \notin Ids
  BY FeedAssumption DEF Ids, AnswerIds, CommentIds
<1>5. /\ lasting'[p] \subseteq lasting[p] /\ lasting'[p] \subseteq Present(list[p])'
      /\ at'[p] \notin {"idle", "fetch"}
  <2>1. at[p] # "idle" /\ at'[p] # "idle" /\ at'[p] # "fetch"
    BY <1>1
  <2> QED
    BY <2>1, Kept
<1>6. Shown(p) \in SUBSET Ids /\ Shown(p)' = shown \union Shown(p)
  BY <1>1 DEF Shown, ReaderOK, TypedReader
<1>7. TypedReader(p)'
  BY <1>1, <1>2, <1>3, <1>5, <1>6 DEF ReaderOK, TypedReader
<1>8. /\ cursor[p] = None => Shown(p) = {}
      /\ cursor[p] # None => /\ cursor[p] \in Ids
                             /\ \A i \in Shown(p) : i >= cursor[p]
                             /\ \A i \in lasting[p] \ Shown(p) : i < cursor[p]
  BY DEF ReaderOK, TypedReader, InOrder
<1>9. shown \intersect Shown(p) = {}
  <2>1. CASE cursor[p] = None
    BY <1>8, <2>1
  <2>2. CASE cursor[p] # None
    <3>1. \A i \in shown : i \in Nat /\ i < cursor[p]
      BY <1>2, <1>3, <1>4, <2>2
    <3>2. \A i \in Shown(p) : i \in Nat /\ i >= cursor[p] /\ cursor[p] \in Nat
      BY <1>4, <1>6, <1>8, <2>2
    <3>3. \A i \in shown : i \notin Shown(p)
      BY <3>1, <3>2
    <3> QED
      BY <3>3
  <2> QED
    BY <2>1, <2>2
<1>10. \A i \in lasting[p] \ Shown(p) : i \in rows
  BY <1>3, <1>8
<1>11. CASE hasNext
  <2>1. /\ cursor'[p] = Min(shown) /\ Min(shown) \in rows /\ Min(shown) # None /\ at'[p] = "paging"
    BY <1>1, <1>2, <1>3, <1>4, <1>11
  <2>2. \A i \in Shown(p) : i >= Min(shown)
    <3> SUFFICES ASSUME NEW i \in Shown(p) PROVE i >= Min(shown)
      OBVIOUS
    <3>1. cursor[p] # None /\ cursor[p] \in Nat /\ i \in Nat /\ i >= cursor[p]
      BY <1>4, <1>6, <1>8
    <3>2. Min(shown) \in Nat /\ Min(shown) < cursor[p]
      BY <1>3, <1>4, <2>1, <3>1
    <3> QED
      BY <3>1, <3>2
  <2>3. \A i \in shown : i >= Min(shown)
    <3>1. \A i \in shown : i \in Nat /\ Min(shown) \in Nat /\ Min(shown) <= i
      BY <1>2, <1>3, <1>4, <1>11
    <3> QED
      BY <3>1
  <2>4. \A i \in lasting'[p] \ Shown(p)' : i < Min(shown)
    BY <1>2, <1>5, <1>6, <1>10, <1>11
  <2>5. InOrder(p)'
    BY <1>1, <1>5, <1>6, <1>9, <2>1, <2>2, <2>3, <2>4 DEF InOrder
  <2> QED
    BY <1>7, <2>5 DEF ReaderOK
<1>12. CASE ~hasNext
  <2>1. at'[p] = "end" /\ lasting'[p] \subseteq Shown(p)'
    BY <1>1, <1>2, <1>5, <1>6, <1>10, <1>12
  <2>2. InOrder(p)'
    BY <1>1, <1>5, <1>9, <2>1 DEF InOrder
  <2> QED
    BY <1>7, <2>2 DEF ReaderOK
<1> QED
  BY <1>11, <1>12

\* A step of one reader.
ReadBy(p) ==
    \/ \E x \in answers \union {None} : Open(p, x)
    \/ ListComments(p) \/ ListResponses(p) \/ ListResponsesPage(p)

LEMMA OneReads ==
    ASSUME SocialTypeOK, SocialTypeOK', KeepTrack, Maps, NEW p \in Readers, ReaderOK(p), ReadBy(p)
    PROVE  ReaderOK(p)'
<1>1. None \notin answers /\ answers \subseteq AnswerIds /\ filled \subseteq answers
      /\ AnswerIds \subseteq Ids
  <2>1. answers \subseteq AnswerIds /\ filled \subseteq answers
    BY DEF SocialTypeOK
  <2>2. AnswerIds \subseteq Int /\ None \notin Int
    BY FeedAssumption DEF AnswerIds
  <2>3. AnswerIds \subseteq Ids
    BY DEF Ids
  <2> QED
    BY <2>1, <2>2, <2>3
<1>2. ASSUME NEW x \in answers \union {None}, Open(p, x) PROVE ReaderOK(p)'
  <2>1. /\ at[p] = "idle" /\ at'[p] = "paging" /\ list'[p] = x /\ cursor'[p] = None
        /\ cursor[p] = None /\ valid'[p] = valid[p] /\ page'[p] = page[p] /\ got'[p] = got[p]
        /\ Shown(p) = {}
    BY <1>2 DEF Open, Maps, ReaderOK, InOrder
  <2>2. lasting'[p] = Present(list[p])' /\ lasting'[p] \subseteq Ids
    BY <2>1, Kept, PresentIds
  <2>3. TypedReader(p)'
    BY <1>1, <2>1, <2>2 DEF ReaderOK, TypedReader
  <2>4. Shown(p)' = {} /\ page'[p] \intersect got'[p] = {}
    BY <2>1 DEF Shown
  <2>5. InOrder(p)'
    BY <2>1, <2>2, <2>4 DEF InOrder
  <2> QED
    BY <2>3, <2>5 DEF ReaderOK
<1>3. ASSUME ListComments(p) PROVE ReaderOK(p)'
  <2> DEFINE s == CommentsOn(list[p])
  <2>1. at[p] = "paging" /\ TurnPage(p, s) /\ UNCHANGED <<list, valid>>
    BY <1>3 DEF ListComments
  <2>2. Present(list[p]) = s
    BY <1>1, <1>3 DEF ListComments, Present
  <2>3. s \in SUBSET Ids /\ lasting[p] \subseteq s
    BY <2>1, <2>2, PresentIds DEF ReaderOK, InOrder
  <2> HIDE DEF s
  <2> QED
    BY <2>1, <2>3, PageTurned
<1>4. ASSUME ListResponses(p) PROVE ReaderOK(p)'
  <2>1. /\ at[p] = "paging" /\ list[p] = None /\ at'[p] = "fetch" /\ valid'[p] = filled
        /\ list'[p] = list[p] /\ cursor'[p] = cursor[p] /\ page'[p] = page[p] /\ got'[p] = got[p]
        /\ filled' = filled
    BY <1>4 DEF ListResponses, Maps, answerVars
  <2>2. lasting'[p] = lasting[p] \intersect Present(list[p])' /\ Present(list[p])' = filled
    BY <2>1, Kept DEF Present
  <2>3. TypedReader(p)'
    BY <1>1, <2>1, <2>2 DEF ReaderOK, TypedReader
  <2>4. Shown(p)' = Shown(p)
    BY <2>1 DEF Shown
  <2>5. lasting'[p] \subseteq lasting[p] /\ lasting'[p] \subseteq Present(list[p])'
        /\ lasting'[p] \subseteq valid'[p]
    BY <2>1, <2>2
  <2>6. InOrder(p)'
    BY <2>1, <2>4, <2>5 DEF ReaderOK, InOrder
  <2> QED
    BY <2>3, <2>6 DEF ReaderOK
<1>5. ASSUME ListResponsesPage(p) PROVE ReaderOK(p)'
  <2> DEFINE s == valid[p] \intersect answers
  <2>1. at[p] = "fetch" /\ TurnPage(p, s) /\ UNCHANGED <<list, valid>>
    BY <1>5 DEF ListResponsesPage
  <2>2. s \in SUBSET Ids /\ lasting[p] \subseteq s
    BY <1>1, <2>1 DEF ReaderOK, InOrder, Present
  <2> HIDE DEF s
  <2> QED
    BY <2>1, <2>2, PageTurned
<1> QED
  BY <1>2, <1>3, <1>4, <1>5 DEF ReadBy

\* A reader's step is its own.
LEMMA OthersUnread ==
    ASSUME Maps, NEW p \in Readers, ReadBy(p)
    PROVE  /\ lasting' = [q \in Readers |-> lasting'[q]] => Maps'
           /\ \A q \in Readers \ {p} :
                /\ at'[q] = at[q] /\ list'[q] = list[q] /\ cursor'[q] = cursor[q]
                /\ valid'[q] = valid[q] /\ page'[q] = page[q] /\ got'[q] = got[q]
<1>1. ASSUME NEW x, Open(p, x)
      PROVE  /\ at' = [at EXCEPT ![p] = at'[p]] /\ list' = [list EXCEPT ![p] = list'[p]]
             /\ UNCHANGED <<cursor, valid, page, got>>
  BY <1>1 DEF Open, Maps
<1>2. ASSUME NEW s, TurnPage(p, s)
      PROVE  /\ at' = [at EXCEPT ![p] = at'[p]] /\ cursor' = [cursor EXCEPT ![p] = cursor'[p]]
             /\ page' = [page EXCEPT ![p] = page'[p]] /\ got' = [got EXCEPT ![p] = got'[p]]
  BY <1>2 DEF TurnPage, Maps
<1>3. /\ at' = [at EXCEPT ![p] = at'[p]] /\ list' = [list EXCEPT ![p] = list'[p]]
      /\ cursor' = [cursor EXCEPT ![p] = cursor'[p]] /\ valid' = [valid EXCEPT ![p] = valid'[p]]
      /\ page' = [page EXCEPT ![p] = page'[p]] /\ got' = [got EXCEPT ![p] = got'[p]]
  <2>1. CASE \E x : Open(p, x)
    BY <1>1, <2>1 DEF Maps
  <2>2. CASE ListComments(p) \/ ListResponsesPage(p)
    BY <1>2, <2>2 DEF ListComments, ListResponsesPage, Maps
  <2>3. CASE ListResponses(p)
    BY <2>3 DEF ListResponses, Maps
  <2> QED
    BY <2>1, <2>2, <2>3 DEF ReadBy
<1> QED
  BY <1>3 DEF Maps

LEMMA ReaderStep ==
    ASSUME SocialInv, SocialInv', ReaderInv, [Next]_vars
    PROVE  ReaderInv'
<1> USE EachReader
<1>1. Maps /\ SocialTypeOK /\ SocialTypeOK' /\ \A p \in Readers : ReaderOK(p)
  BY DEF SocialInv
<1>2. CASE UNCHANGED vars
  <2>1. SocialTypeOK /\ UNCHANGED <<at, list, cursor, valid, page, got, lasting, filled, comments,
                                    comment, answer>>
    BY <1>1, <1>2 DEF vars, requestVars, answerVars, socialVars, readerVars
  <2>2. \A x : Present(x)' = Present(x)
    BY <2>1 DEF Present, CommentsOn
  <2>3. Maps' /\ \A p \in Readers : TypedReader(p)'
    BY <1>1, <2>1 DEF Maps, ReaderOK, TypedReader
  <2>4. \A p \in Readers : InOrder(p)'
    BY <1>1, <2>1, <2>2 DEF ReaderOK, InOrder, Shown
  <2> QED
    BY <2>3, <2>4 DEF ReaderOK
<1>3. CASE KeepTrack /\ UNCHANGED readerVars
  <2>1. Maps'
    BY <1>1, <1>3, Kept DEF Maps, readerVars
  <2>2. \A p \in Readers : ReaderOK(p)'
    BY <1>1, <1>3, QuietReader DEF readerVars
  <2> QED
    BY <2>1, <2>2
<1>4. ASSUME KeepTrack, NEW p \in Readers, ReadBy(p) PROVE ReaderInv'
  <2>1. Maps' /\ \A q \in Readers \ {p} :
                /\ at'[q] = at[q] /\ list'[q] = list[q] /\ cursor'[q] = cursor[q]
                /\ valid'[q] = valid[q] /\ page'[q] = page[q] /\ got'[q] = got[q]
    BY <1>1, <1>4, Kept, OthersUnread
  <2>2. ReaderOK(p)'
    BY <1>1, <1>4, OneReads
  <2>3. \A q \in Readers \ {p} : ReaderOK(q)'
    BY <1>1, <1>4, <2>1, QuietReader
  <2> QED
    BY <2>1, <2>2, <2>3
<1>5. ASSUME Step, ~UNCHANGED readerVars PROVE \E p \in Readers : ReadBy(p)
  <2>1. CASE \E r \in Requests, m \in Members, x \in answers : ToggleCheck(r, m, x) \/ CommentCheck(r, m, x)
    BY <1>5, <2>1 DEF ToggleCheck, CommentCheck, Begin
  <2>2. CASE \E r \in Requests : Serve(r) \/ Abort(r)
    BY <1>5, <2>2 DEF Serve, ToggleLock, ToggleRead, ToggleWrite, CommentInsert, CommentCommit, Abort
  <2>3. CASE (\E x \in AnswerIds : AddAnswer(x) \/ Edit(x)) \/ (\E m \in Members : Withdraw(m)) \/ DeleteRetro
    BY <1>5, <2>3 DEF AddAnswer, Edit, Withdraw, DeleteRetro
  <2> QED
    BY <1>5, <2>1, <2>2, <2>3 DEF Step, ReadBy
<1> QED
  BY <1>2, <1>3, <1>4, <1>5 DEF Next

-----------------------------------------------------------------------------
(***************************************************************************)
(* Theorems                                                                *)
(***************************************************************************)

LEMMA InvParts == IInv <=> SocialInv /\ ReaderInv
<1>1. TypeOK <=> SocialTypeOK /\ ReaderTypeOK
  BY DEF TypeOK, SocialTypeOK, ReaderTypeOK
<1> QED
  BY <1>1 DEF IInv, SocialInv, ReaderInv

LEMMA InitHolds == Init => IInv
<1> SUFFICES ASSUME Init PROVE SocialInv /\ ReaderInv
  BY InvParts
<1>1. SocialTypeOK
  <2>1. 0 \in 0..Cardinality(Requests)
    BY FeedAssumption, FS_CardinalityType
  <2>2. 0 \in 0..MaxEdits
    BY FeedAssumption
  <2> QED
    BY <2>1, <2>2 DEF Init, SocialTypeOK
<1>2. RequestsInPlace /\ LocksHeld /\ ReadCurrent /\ LikesAddUp
  BY DEF Init, RequestsInPlace, LocksHeld, ReadCurrent, LikesAddUp
<1>3. LikesInPlace
  BY FS_EmptySet DEF Init, LikesInPlace, OneEach
<1>4. ReaderInv
  BY DEF Init, ReaderInv, ReaderTypeOK, PagesInOrder, PagesDisjoint, PagesComplete
<1> QED
  BY <1>1, <1>2, <1>3, <1>4 DEF SocialInv

LEMMA StepHolds == IInv /\ [Next]_vars => IInv'
<1> SUFFICES ASSUME IInv, [Next]_vars PROVE SocialInv' /\ ReaderInv'
  <2>1. TypeOK' <=> SocialTypeOK' /\ ReaderTypeOK'
    BY DEF TypeOK, SocialTypeOK, ReaderTypeOK
  <2> QED
    BY <2>1 DEF IInv, SocialInv, ReaderInv
<1>1. SocialInv /\ ReaderInv
  BY InvParts
<1>2. SocialInv'
  BY <1>1, SocialStep
<1> QED
  BY <1>1, <1>2, ReaderStep

\* The inductive invariant holds of every behaviour: what is locked, what has
\* been read and what a cursor separates (toggle_like, list_responses).
THEOREM Invariance == Spec => []IInv
BY InitHolds, StepHolds, PTL DEF Spec

\* A member's like of an answer is there exactly when one more of its toggles
\* was committed as a like than as the removal of one, and never twice.
THEOREM AlwaysLikesAddUp == Spec => []LikesAddUp
<1>1. IInv => LikesAddUp
  BY DEF IInv
<1> QED
  BY <1>1, Invariance, PTL

\* No id is on two pages of a list, whatever happens between them.
THEOREM AlwaysPagesDisjoint == Spec => []PagesDisjoint
<1>1. IInv => PagesDisjoint
  BY DEF IInv
<1> QED
  BY <1>1, Invariance, PTL

\* At the end of a list a reader has seen whatever was in it all along.
THEOREM AlwaysPagesComplete == Spec => []PagesComplete
<1>1. IInv => PagesComplete
  BY DEF IInv
<1> QED
  BY <1>1, Invariance, PTL

\* The total a toggle reports is the number of likes it leaves, but for those
\* of members who withdrew since it read them.
THEOREM AlwaysTotalHonest == Spec => TotalHonest
<1> DEFINE Honest == \A r \in Requests :
                        pc[r] = "write" /\ pc'[r] \in {"liked", "unliked"}
                          => total'[r] - Cardinality(LikesOn(answer[r])') \in 0..Cardinality(withdrawn)
<1>1. ASSUME IInv, [Next]_vars PROVE Honest
  <2>1. SocialInv
    BY <1>1, InvParts
  <2> QED
    BY <1>1, <2>1, CommittedByWrite, TotalIsHonest
<1>2. IInv /\ [Next]_vars => [Honest]_vars
  BY <1>1
<1> QED
  BY <1>2, Invariance, PTL DEF Spec, TotalHonest

=============================================================================
