------------------------- MODULE EventTriggerProofs -------------------------
(***************************************************************************)
(* What raises and what stops events.  The rate limiter of TriggerFilter   *)
(* keeps its limits for every number of callers, every limit, every window *)
(* and every delay; the tables events are looked up in agree, whatever the *)
(* users and the environment are; LogWatcher misses and repeats no error   *)
(* for every number of lines, days and truncations and every window.       *)
(***************************************************************************)
EXTENDS TriggerFilter, LogWatcher, TLAPS, FiniteSetTheorems, SequenceTheorems, WellFoundedInduction

\* The smallest of some numbers.
LEMMA Smallest ==
    ASSUME NEW T \in SUBSET Nat, T # {}
    PROVE  \E x \in T : \A y \in T : x <= y
<1>1. PICK x \in T : \A y \in T : ~(<<y, x>> \in OpToRel(<, Nat))
  BY NatLessThanWellFounded, WFMin
<1>2. \A y \in T : ~(y < x)
  BY <1>1 DEF OpToRel
<1> QED
  BY <1>2

\* An interval of k numbers.
LEMMA IntervalSize ==
    ASSUME NEW m \in Int, NEW k \in Nat, k > 0
    PROVE  IsFiniteSet(m..(m + k - 1)) /\ Cardinality(m..(m + k - 1)) = k
<1>1. m + k - 1 \in Int /\ m <= m + k - 1 /\ (m + k - 1) - m + 1 = k
  OBVIOUS
<1> DEFINE last == m + k - 1
<1> HIDE DEF last
<1>2. last \in Int /\ m <= last /\ last - m + 1 = k
  BY <1>1 DEF last
<1>3. IsFiniteSet(m..last) /\ Cardinality(m..last) = k
  BY <1>2, FS_Interval
<1> QED
  BY <1>3 DEF last

\* The times in a queue, as functions.
LEMMA SeqOfTimes ==
    ASSUME LimiterAssumption, NEW s \in Seq(Times)
    PROVE  /\ Len(s) \in Nat /\ DOMAIN s = 1..Len(s)
           /\ \A i \in 1..Len(s) : s[i] \in Times /\ s[i] \in Nat
<1>1. Len(s) \in Nat /\ s \in [1..Len(s) -> Times] /\ DOMAIN s = 1..Len(s)
  BY LenProperties
<1>2. Times \subseteq Nat
  BY DEF Times, LimiterAssumption
<1> QED
  BY <1>1, <1>2

\* An entry that has expired is a window old.
LEMMA ExpiredIsOld ==
    ASSUME LimiterAssumption, NEW a \in Actions, NEW instant \in Nat, NEW time \in Nat
    PROVE  Expired(a, instant, time) <=> time + Window[a] <= instant \/ Window[a] = 0
<1>1. Window[a] \in Nat
  BY DEF LimiterAssumption
<1> QED
  BY <1>1 DEF Expired, Elapsed

\* The cleanup drops d entries from the front, all of them expired, and stops
\* at one that is not.
LEMMA CleanedSuffix ==
    ASSUME LimiterAssumption, TypeOK, NEW a \in Actions, NEW instant \in Times
    PROVE  \E d \in 0..Len(windows[a]) :
              /\ Cleaned(a, instant) \in Seq(Times)
              /\ Len(Cleaned(a, instant)) = Len(windows[a]) - d
              /\ \A i \in 1..(Len(windows[a]) - d) : Cleaned(a, instant)[i] = windows[a][d + i]
              /\ \A i \in 1..d : Expired(a, instant, windows[a][i])
              /\ d < Len(windows[a]) => ~Expired(a, instant, windows[a][d + 1])
<1> DEFINE w == windows[a]
           n == Len(w)
           kept == {i \in DOMAIN w : ~Expired(a, instant, w[i])}
<1>1. w \in Seq(Times) /\ n \in Nat /\ DOMAIN w = 1..n /\ \A i \in 1..n : w[i] \in Times
  BY LenProperties DEF TypeOK
<1>2. CASE kept = {}
  <2>1. Cleaned(a, instant) = <<>>
    BY <1>2 DEF Cleaned
  <2>2. <<>> \in Seq(Times) /\ Len(<<>>) = 0
    BY EmptySeq
  <2>3. \A i \in 1..n : Expired(a, instant, w[i])
    BY <1>1, <1>2
  <2> WITNESS n \in 0..Len(windows[a])
  <2> QED
    BY <1>1, <2>1, <2>2, <2>3
<1>3. CASE kept # {}
  <2>1. PICK x \in kept : \A j \in kept : x <= j
    <3>1. kept \in SUBSET Nat
      BY <1>1
    <3> QED
      BY <1>3, <3>1, Smallest
  <2> DEFINE m == CHOOSE i \in kept : \A j \in kept : i <= j
  <2>2. m \in kept /\ \A j \in kept : m <= j
    BY <2>1
  <2>3. Cleaned(a, instant) = SubSeq(w, m, n)
    BY <1>3 DEF Cleaned
  <2> HIDE DEF m
  <2>4. m \in 1..n /\ ~Expired(a, instant, w[m]) /\ \A i \in 1..n : i < m => Expired(a, instant, w[i])
    <3>1. m \in 1..n /\ ~Expired(a, instant, w[m])
      BY <1>1, <2>2
    <3>2. ASSUME NEW i \in 1..n, i < m
          PROVE  Expired(a, instant, w[i])
      <4> HIDE DEF w, n
      <4>1. i \in Int /\ m \in Int /\ ~(m <= i)
        BY <1>1, <3>1, <3>2
      <4>2. i \notin kept
        BY <2>2, <4>1
      <4> QED
        BY <1>1, <4>2
    <3> HIDE DEF kept, w, n
    <3> QED
      BY <3>1, <3>2
  <2>5. /\ SubSeq(w, m, n) \in Seq(Times)
        /\ Len(SubSeq(w, m, n)) = n - m + 1
        /\ \A i \in 1..(n - m + 1) : SubSeq(w, m, n)[i] = w[m + i - 1]
    <3>1. m \in Int /\ n \in Int /\ m <= n /\ \A i \in m..n : w[i] \in Times
      BY <1>1, <2>4
    <3> HIDE DEF w, n
    <3> QED
      BY <3>1, SubSeqProperties
  <2> HIDE DEF w, n
  <2>6. m - 1 \in 0..n /\ n - (m - 1) = n - m + 1 /\ (m - 1) + 1 = m
    BY <1>1, <2>4
  <2>7. \A i \in 1..(n - (m - 1)) : SubSeq(w, m, n)[i] = w[(m - 1) + i]
    <3> TAKE i \in 1..(n - (m - 1))
    <3>1. i \in 1..(n - m + 1) /\ m + i - 1 = (m - 1) + i
      BY <1>1, <2>4
    <3> QED
      BY <2>5, <3>1
  <2>8. \A i \in 1..(m - 1) : Expired(a, instant, w[i])
    BY <1>1, <2>4
  <2>9. \E d \in 0..n :
              /\ Cleaned(a, instant) \in Seq(Times)
              /\ Len(Cleaned(a, instant)) = n - d
              /\ \A i \in 1..(n - d) : Cleaned(a, instant)[i] = w[d + i]
              /\ \A i \in 1..d : Expired(a, instant, w[i])
              /\ d < n => ~Expired(a, instant, w[d + 1])
    <3> m - 1 \in 0..n
      BY <2>6
    <3> WITNESS m - 1 \in 0..n
    <3> QED
      BY <2>3, <2>4, <2>5, <2>6, <2>7, <2>8
  <2> QED
    BY <2>9 DEF w, n
<1> QED
  BY <1>2, <1>3

-----------------------------------------------------------------------------

THEOREM LimiterInit == LimiterAssumption /\ Init => IInv
<1> SUFFICES ASSUME LimiterAssumption, Init PROVE IInv
  OBVIOUS
<1> USE DEF Init, LimiterAssumption, Times
<1>1. /\ \A a \in Actions : windows[a] = <<>> /\ granted[a] = <<>>
      /\ Len(<<>>) = 0 /\ DOMAIN <<>> = {} /\ <<>> \in Seq(Times)
  BY EmptySeq, LenProperties
<1>2. TypeOK
  <2>1. Cardinality({}) = 0
    BY FS_EmptySet
  <2> QED
    BY <1>1, <2>1 DEF TypeOK
<1>3. ReadingsRecent
  BY DEF ReadingsRecent
<1>4. GrantedInOrder
  BY <1>1 DEF GrantedInOrder
<1>5. QueueOfLastGrants
  BY <1>1 DEF QueueOfLastGrants, Dropped
<1>6. GrantsApart
  BY <1>1 DEF GrantsApart
<1> QED
  BY <1>2, <1>3, <1>4, <1>5, <1>6 DEF IInv

\* A call under the mutex.
LEMMA AcquireKeeps ==
    ASSUME LimiterAssumption, IInv, NEW c \in Callers, Acquire(c)
    PROVE  IInv'
<1> PICK call \in calls[c] :
        LET a == call.action
        IN  /\ IF HasRoom(a, call.now)
               THEN /\ windows' = [windows EXCEPT ![a] = Append(Cleaned(a, call.now), call.now)]
                    /\ granted' = [granted EXCEPT ![a] = Append(granted[a], clock)]
               ELSE /\ windows' = [windows EXCEPT ![a] = Cleaned(a, call.now)]
                    /\ UNCHANGED granted
            /\ calls' = [calls EXCEPT ![c] = {}]
            /\ UNCHANGED clock
  BY DEF Acquire
<1> DEFINE a == call.action
           instant == call.now
           w == windows[a]
           n == Len(w)
           g == granted[a]
           L == Len(g)
           left == Cleaned(a, instant)
<1>1. /\ a \in Actions /\ instant \in Times /\ clock \in Times
      /\ instant <= clock /\ clock <= instant + MaxDelay
      /\ MaxDelay \in Nat /\ Limit[a] \in Nat /\ Window[a] \in Nat /\ Times \subseteq Nat
  BY DEF IInv, TypeOK, ReadingsRecent, LimiterAssumption, Times
<1>2. /\ w \in Seq(Times) /\ n \in Nat /\ DOMAIN w = 1..n /\ \A i \in 1..n : w[i] \in Times
      /\ g \in Seq(Times) /\ L \in Nat /\ DOMAIN g = 1..L /\ \A i \in 1..L : g[i] \in Times
      /\ n <= Limit[a]
  BY <1>1, LenProperties DEF IInv, TypeOK
<1>3. PICK d \in 0..n :
              /\ left \in Seq(Times)
              /\ Len(left) = n - d
              /\ \A i \in 1..(n - d) : left[i] = w[d + i]
              /\ \A i \in 1..d : Expired(a, instant, w[i])
              /\ d < n => ~Expired(a, instant, w[d + 1])
  BY <1>1, CleanedSuffix DEF IInv
<1>4. /\ L - n >= 0
      /\ \A i \in 1..n : w[i] <= g[L - n + i] /\ g[L - n + i] <= w[i] + MaxDelay
      /\ \A k \in 1..(L - n) : g[k] + Window[a] <= clock + MaxDelay
      /\ \A i \in 1..L : g[i] <= clock
      /\ \A i, j \in 1..L : i <= j => g[i] <= g[j]
      /\ \A i, j \in 1..L : i + Limit[a] <= j => g[i] + Window[a] <= g[j] + MaxDelay
  BY <1>1, <1>2 DEF IInv, QueueOfLastGrants, Dropped, GrantedInOrder, GrantsApart
\* The other actions keep what they had.
<1>6. /\ calls' = [calls EXCEPT ![c] = {}] /\ clock' = clock
      /\ windows' \in [Actions -> Seq(Times)] /\ granted' \in [Actions -> Seq(Times)]
      /\ \A b \in Actions \ {a} : windows'[b] = windows[b] /\ granted'[b] = granted[b]
  <2>1. Append(left, instant) \in Seq(Times) /\ Append(g, clock) \in Seq(Times)
    BY <1>1, <1>2, <1>3, AppendProperties
  <2>2. windows \in [Actions -> Seq(Times)] /\ granted \in [Actions -> Seq(Times)]
    BY DEF IInv, TypeOK
  <2> HIDE DEF left, instant, g
  <2>3. \/ windows' = [windows EXCEPT ![a] = left] /\ granted' = granted
        \/ /\ windows' = [windows EXCEPT ![a] = Append(left, instant)]
           /\ granted' = [granted EXCEPT ![a] = Append(g, clock)]
    BY DEF left, instant, g
  <2>4. calls' = [calls EXCEPT ![c] = {}] /\ clock' = clock
    OBVIOUS
  <2>5. windows' \in [Actions -> Seq(Times)]
    BY <1>1, <1>3, <2>1, <2>2, <2>3
  <2>6. granted' \in [Actions -> Seq(Times)]
    BY <1>1, <2>1, <2>2, <2>3
  <2>7. \A b \in Actions \ {a} : windows'[b] = windows[b] /\ granted'[b] = granted[b]
    BY <2>2, <2>3
  <2> QED
    BY <2>4, <2>5, <2>6, <2>7
\* What the action itself has now: refused, or allowed.
<1>7. \/ /\ windows'[a] = left /\ granted'[a] = g
      \/ /\ n - d < Limit[a]
         /\ windows'[a] = Append(left, instant) /\ granted'[a] = Append(g, clock)
  BY <1>1, <1>3 DEF IInv, TypeOK, HasRoom
<1>8. /\ Append(left, instant) \in Seq(Times) /\ Len(Append(left, instant)) = n - d + 1
      /\ \A i \in 1..(n - d) : Append(left, instant)[i] = w[d + i]
      /\ Append(left, instant)[n - d + 1] = instant
      /\ Append(g, clock) \in Seq(Times) /\ Len(Append(g, clock)) = L + 1
      /\ \A i \in 1..L : Append(g, clock)[i] = g[i]
      /\ Append(g, clock)[L + 1] = clock
  <2>1. /\ Append(g, clock) \in Seq(Times) /\ Len(Append(g, clock)) = L + 1
        /\ \A i \in 1..L : Append(g, clock)[i] = g[i]
        /\ Append(g, clock)[L + 1] = clock
    <3> HIDE DEF g
    <3> QED
      BY <1>1, <1>2, AppendProperties
  <2>2. /\ Append(left, instant) \in Seq(Times) /\ Len(Append(left, instant)) = Len(left) + 1
        /\ \A i \in 1..Len(left) : Append(left, instant)[i] = left[i]
        /\ Append(left, instant)[Len(left) + 1] = instant
    <3>1. left \in Seq(Times) /\ instant \in Times
      BY <1>1, <1>3
    <3> HIDE DEF left, instant
    <3> QED
      BY <3>1, AppendProperties
  <2> HIDE DEF left, instant, n, w, g
  <2> QED
    BY <1>3, <2>1, <2>2
<1>9. \A b \in Actions : /\ windows'[b] \in Seq(Times) /\ granted'[b] \in Seq(Times)
                         /\ DOMAIN windows'[b] = 1..Len(windows'[b]) /\ Len(windows'[b]) \in Nat
                         /\ DOMAIN granted'[b] = 1..Len(granted'[b]) /\ Len(granted'[b]) \in Nat
  BY <1>6, LenProperties
<1> HIDE DEF a, instant, w, n, g, L, left
\* What leaves the queue is nearly a window old.
<1>5. \A k \in 1..(L - n + d) : g[k] + Window[a] <= clock + MaxDelay
  <2> TAKE k \in 1..(L - n + d)
  <2>1. CASE k <= L - n
    BY <1>2, <1>3, <1>4, <2>1
  <2>2. CASE k > L - n
    <3>1. k - (L - n) \in 1..d /\ k - (L - n) \in 1..n /\ L - n + (k - (L - n)) = k /\ k \in 1..L
      BY <1>2, <1>3, <1>4, <2>2
    <3>2. Expired(a, instant, w[k - (L - n)])
      BY <1>3, <3>1
    <3>3. g[k] <= w[k - (L - n)] + MaxDelay /\ g[k] <= clock
      BY <1>4, <3>1
    <3>4. w[k - (L - n)] \in Nat /\ g[k] \in Nat /\ instant \in Nat /\ clock \in Nat
      BY <1>1, <1>2, <3>1
    <3>5. w[k - (L - n)] + Window[a] <= instant \/ Window[a] = 0
      BY <1>1, <3>2, <3>4, ExpiredIsOld
    <3> QED
      BY <1>1, <3>3, <3>4, <3>5, SMTT(30)
  <2> QED
    BY <1>2, <1>3, <2>1, <2>2
<1>10. TypeOK'
  <2>1. \A b \in Actions : Len(windows'[b]) <= Limit[b]
    <3> TAKE b \in Actions
    <3>1. CASE b = a
      <4>1. Len(left) = n - d /\ Len(Append(left, instant)) = n - d + 1
        BY <1>3, <1>8
      <4>2. n \in Nat /\ d \in Nat /\ Limit[a] \in Nat /\ n <= Limit[a]
        BY <1>1, <1>2, <1>3
      <4>3. n - d <= Limit[a] /\ (n - d < Limit[a] => n - d + 1 <= Limit[a])
        BY <4>2
      <4>4. Len(windows'[a]) <= Limit[a]
        BY <1>7, <4>1, <4>3
      <4> QED
        BY <3>1, <4>4
    <3>2. CASE b # a
      BY <1>6, <3>2 DEF IInv, TypeOK
    <3> QED
      BY <3>1, <3>2
  <2>2. /\ calls' \in [Callers -> SUBSET [now : Times, action : Actions]]
        /\ \A b \in Callers : Cardinality(calls'[b]) <= 1
    <3>1. Cardinality({}) = 0
      BY FS_EmptySet
    <3> QED
      BY <1>6, <3>1 DEF IInv, TypeOK
  <2> QED
    BY <1>1, <1>6, <2>1, <2>2 DEF TypeOK
<1>11. ReadingsRecent'
  BY <1>6 DEF IInv, TypeOK, ReadingsRecent
<1>12. /\ \A i \in DOMAIN granted'[a] : granted'[a][i] <= clock
       /\ \A i, j \in DOMAIN granted'[a] : i <= j => granted'[a][i] <= granted'[a][j]
  <2>1. CASE granted'[a] = g
    BY <1>2, <1>4, <2>1
  <2>2. CASE granted'[a] = Append(g, clock)
    <3>1. DOMAIN granted'[a] = 1..(L + 1)
      BY <1>1, <1>8, <1>9, <2>2
    <3>2. \A i \in 1..(L + 1) : i \in 1..L \/ i = L + 1
      BY <1>2
    <3>3. /\ clock \in Nat /\ granted'[a][L + 1] = clock
          /\ \A i \in 1..L : granted'[a][i] = g[i] /\ g[i] <= clock
      BY <1>1, <1>4, <1>8, <2>2
    <3>4. ASSUME NEW i \in 1..(L + 1)
          PROVE  granted'[a][i] <= clock
      BY <3>2, <3>3
    <3>5. ASSUME NEW i \in 1..(L + 1), NEW j \in 1..(L + 1), i <= j
          PROVE  granted'[a][i] <= granted'[a][j]
      <4>1. CASE j \in 1..L
        <5>1. i \in 1..L
          BY <1>2, <3>5, <4>1
        <5> QED
          BY <1>4, <3>3, <3>5, <4>1, <5>1
      <4>2. CASE j = L + 1
        BY <3>3, <3>4, <4>2
      <4> QED
        BY <3>2, <4>1, <4>2
    <3> QED
      BY <3>1, <3>4, <3>5
  <2> QED
    BY <1>7, <2>1, <2>2
<1>13. GrantedInOrder'
  <2> SUFFICES ASSUME NEW b \in Actions
               PROVE  /\ \A i \in DOMAIN granted'[b] : granted'[b][i] <= clock
                      /\ \A i, j \in DOMAIN granted'[b] : i <= j => granted'[b][i] <= granted'[b][j]
    BY <1>6 DEF GrantedInOrder
  <2>1. CASE b = a
    BY <1>12, <2>1
  <2>2. CASE b # a
    BY <1>6, <2>2 DEF IInv, GrantedInOrder
  <2> QED
    BY <2>1, <2>2
<1>14. /\ Len(granted'[a]) - Len(windows'[a]) = L - n + d
       /\ \A i \in 1..Len(windows'[a]) :
             /\ windows'[a][i] <= granted'[a][L - n + d + i]
             /\ granted'[a][L - n + d + i] <= windows'[a][i] + MaxDelay
       /\ \A k \in 1..(L - n + d) : granted'[a][k] + Window[a] <= clock + MaxDelay
  <2>1. \A i \in 1..(n - d) : /\ w[d + i] <= g[L - n + d + i]
                              /\ g[L - n + d + i] <= w[d + i] + MaxDelay
                              /\ L - n + d + i \in 1..L
    <3> TAKE i \in 1..(n - d)
    <3>1. d + i \in 1..n /\ L - n + (d + i) = L - n + d + i /\ L - n + d + i \in 1..L
      BY <1>2, <1>3, <1>4
    <3>2. w[d + i] <= g[L - n + (d + i)] /\ g[L - n + (d + i)] <= w[d + i] + MaxDelay
      BY <1>4, <3>1
    <3> QED
      BY <3>1, <3>2
  <2>2. \A k \in 1..(L - n + d) : k \in 1..L
    BY <1>2, <1>3, <1>4
  <2>3. CASE windows'[a] = left /\ granted'[a] = g
    <3>1. L - (n - d) = L - n + d
      BY <1>2, <1>3
    <3>2. Len(windows'[a]) = n - d /\ Len(granted'[a]) = L
      BY <1>3, <2>3 DEF L
    <3>3. \A i \in 1..(n - d) : windows'[a][i] = w[d + i]
      BY <1>3, <2>3
    <3> QED
      BY <1>5, <2>1, <2>3, <3>1, <3>2, <3>3
  <2>4. CASE windows'[a] = Append(left, instant) /\ granted'[a] = Append(g, clock)
    <3>1. \A i \in 1..(n - d + 1) : i \in 1..(n - d) \/ i = n - d + 1
      BY <1>2, <1>3
    <3>2. L - n + d + (n - d + 1) = L + 1 /\ (L + 1) - (n - d + 1) = L - n + d
      <4>1. L \in Int /\ n \in Int /\ d \in Int
        BY <1>2, <1>3
      <4> QED
        BY <4>1
    <3>3. Len(windows'[a]) = n - d + 1 /\ Len(granted'[a]) = L + 1
      BY <1>8, <2>4
    <3>4. \A i \in 1..(n - d + 1) :
             /\ windows'[a][i] <= granted'[a][L - n + d + i]
             /\ granted'[a][L - n + d + i] <= windows'[a][i] + MaxDelay
      <4> TAKE i \in 1..(n - d + 1)
      <4>1. CASE i \in 1..(n - d)
        <5>1. windows'[a][i] = w[d + i] /\ granted'[a][L - n + d + i] = g[L - n + d + i]
          BY <1>8, <2>1, <2>4, <4>1
        <5> QED
          BY <2>1, <4>1, <5>1
      <4>2. CASE i = n - d + 1
        <5>1. windows'[a][i] = instant /\ granted'[a][L - n + d + i] = clock
          BY <1>8, <2>4, <3>2, <4>2
        <5> QED
          BY <1>1, <5>1
      <4> QED
        BY <3>1, <4>1, <4>2
    <3>5. \A k \in 1..(L - n + d) : granted'[a][k] + Window[a] <= clock + MaxDelay
      BY <1>5, <1>8, <2>2, <2>4
    <3> QED
      BY <3>2, <3>3, <3>4, <3>5
  <2> QED
    BY <1>7, <2>3, <2>4
<1>15. QueueOfLastGrants'
  <2>1. \A b \in Actions \ {a} : Len(granted'[b]) - Len(windows'[b]) = Len(granted[b]) - Len(windows[b])
    BY <1>6
  <2>2. \A b \in Actions :
          /\ Len(granted'[b]) - Len(windows'[b]) >= 0
          /\ \A i \in DOMAIN windows'[b] :
               /\ windows'[b][i] <= granted'[b][Len(granted'[b]) - Len(windows'[b]) + i]
               /\ granted'[b][Len(granted'[b]) - Len(windows'[b]) + i] <= windows'[b][i] + MaxDelay
          /\ \A k \in 1..(Len(granted'[b]) - Len(windows'[b])) :
                granted'[b][k] + Window[b] <= clock + MaxDelay
    <3> TAKE b \in Actions
    <3>1. CASE b = a
      <4>1. L - n + d >= 0
        BY <1>2, <1>3, <1>4
      <4> QED
        BY <1>9, <1>14, <3>1, <4>1
    <3>2. CASE b # a
      BY <1>6, <2>1, <3>2 DEF IInv, QueueOfLastGrants, Dropped
    <3> QED
      BY <3>1, <3>2
  <2> QED
    BY <1>6, <2>2 DEF QueueOfLastGrants, Dropped
<1>16. \A i, j \in DOMAIN granted'[a] :
          i + Limit[a] <= j => granted'[a][i] + Window[a] <= granted'[a][j] + MaxDelay
  <2>1. CASE granted'[a] = g
    BY <1>2, <1>4, <2>1
  <2>2. CASE n - d < Limit[a] /\ granted'[a] = Append(g, clock)
    <3>1. DOMAIN granted'[a] = 1..(L + 1)
      BY <1>1, <1>8, <1>9, <2>2
    <3> SUFFICES ASSUME NEW i \in 1..(L + 1), NEW j \in 1..(L + 1), i + Limit[a] <= j
                 PROVE  granted'[a][i] + Window[a] <= granted'[a][j] + MaxDelay
      BY <3>1
    <3>2. Limit[a] > 0
      BY <1>1, <1>2, <1>3, <2>2
    <3>3. i \in 1..L
      BY <1>1, <1>2, <3>2
    <3>4. CASE j \in 1..L
      BY <1>4, <1>8, <2>2, <3>3, <3>4
    <3>5. CASE j = L + 1
      <4>1. i \in 1..(L - n + d)
        BY <1>1, <1>2, <1>3, <2>2, <3>3, <3>5
      <4> QED
        BY <1>5, <1>8, <2>2, <3>3, <3>5, <4>1
    <3> QED
      BY <1>2, <3>4, <3>5
  <2> QED
    BY <1>7, <2>1, <2>2
<1>17. GrantsApart'
  BY <1>6, <1>16 DEF IInv, GrantsApart
<1> QED
  BY <1>10, <1>11, <1>13, <1>15, <1>17 DEF IInv

THEOREM LimiterInvariance == Spec => []IInv
<1>1. ASSUME IInv, [Next]_vars
      PROVE  IInv'
  <2> USE LimiterAssumption
  <2>1. ASSUME NEW c \in Callers, NEW a \in Actions, ReadClock(c, a)
        PROVE  IInv'
    <3>1. TypeOK'
      <4>1. Cardinality({[now |-> clock, action |-> a]}) = 1
        BY FS_Singleton
      <4> QED
        BY <1>1, <2>1, <4>1 DEF IInv, TypeOK, ReadClock
    <3>2. ReadingsRecent'
      BY <1>1, <2>1 DEF IInv, TypeOK, ReadingsRecent, ReadClock, LimiterAssumption, Times
    <3> QED
      BY <1>1, <2>1, <3>1, <3>2
         DEF IInv, ReadClock, GrantedInOrder, QueueOfLastGrants, Dropped, GrantsApart
  <2>2. ASSUME NEW c \in Callers, Acquire(c)
        PROVE  IInv'
    BY <1>1, <2>2, AcquireKeeps
  <2>3. CASE Reset
    <3>1. /\ \A a \in Actions : windows'[a] = <<>> /\ granted'[a] = <<>>
          /\ Len(<<>>) = 0 /\ DOMAIN <<>> = {} /\ <<>> \in Seq(Times)
      BY <2>3, EmptySeq DEF Reset
    <3>2. TypeOK'
      BY <1>1, <2>3, <3>1 DEF IInv, TypeOK, Reset, LimiterAssumption
    <3>3. ReadingsRecent'
      BY <1>1, <2>3 DEF IInv, ReadingsRecent, Reset
    <3>4. GrantedInOrder' /\ GrantsApart'
      BY <3>1 DEF GrantedInOrder, GrantsApart
    <3>5. QueueOfLastGrants'
      BY <3>1 DEF QueueOfLastGrants, Dropped
    <3> QED
      BY <3>2, <3>3, <3>4, <3>5 DEF IInv
  <2>4. CASE Tick
    <3> USE <2>4 DEF Tick
    <3>1. TypeOK' /\ clock \in Nat /\ clock' = clock + 1
      BY <1>1 DEF IInv, TypeOK, LimiterAssumption, Times
    <3>2. ReadingsRecent'
      BY <1>1 DEF IInv, TypeOK, ReadingsRecent, LimiterAssumption, Times
    <3>3. \A a \in Actions : /\ \A i \in DOMAIN granted[a] : granted[a][i] \in Nat
                             /\ DOMAIN granted[a] = 1..Len(granted[a]) /\ Len(granted[a]) \in Nat
                             /\ Len(windows[a]) \in Nat
      <4> TAKE a \in Actions
      <4>1. granted[a] \in Seq(Times) /\ windows[a] \in Seq(Times)
        BY <1>1 DEF IInv, TypeOK
      <4> QED
        BY <4>1, SeqOfTimes
    <3>4. GrantedInOrder' /\ GrantsApart'
      BY <1>1, <3>1, <3>3 DEF IInv, GrantedInOrder, GrantsApart
    <3>5. QueueOfLastGrants'
      <4> SUFFICES ASSUME NEW a \in Actions, NEW k \in 1..Dropped(a)
                   PROVE  granted[a][k] + Window[a] <= clock + 1 + MaxDelay
        BY <1>1, <3>1 DEF IInv, QueueOfLastGrants, Dropped
      <4>1. granted[a][k] + Window[a] <= clock + MaxDelay
        BY <1>1 DEF IInv, QueueOfLastGrants
      <4>2. granted[a][k] \in Nat /\ Window[a] \in Nat /\ MaxDelay \in Nat
        BY <3>3 DEF Dropped, LimiterAssumption
      <4> QED
        BY <3>1, <4>1, <4>2
    <3> QED
      BY <3>1, <3>2, <3>4, <3>5 DEF IInv
  <2>5. CASE UNCHANGED vars
    BY <1>1, <2>5 DEF vars, IInv, TypeOK, ReadingsRecent, GrantedInOrder, QueueOfLastGrants,
                      Dropped, GrantsApart
  <2> QED
    BY <1>1, <2>1, <2>2, <2>3, <2>4, <2>5 DEF Next
<1>2. Init => IInv
  BY LimiterInit, LimiterAssumption
<1> QED
  BY <1>1, <1>2, PTL DEF Spec

-----------------------------------------------------------------------------

\* The filter only asks the limiter for what it is for: what holds of the
\* limiter holds of the filter.
THEOREM FilterIsALimiter == FilterSpec => Spec
<1>1. FilterInit => Init
  BY DEF FilterInit
<1>2. ASSUME [FilterNext]_<<vars, filter>>
      PROVE  [Next]_vars
  <2>1. ASSUME NEW c \in Callers, NEW e \in Events, AskForSlot(c, e)
        PROVE  Next
    <3>1. ActionOf(e.type) \in Actions
      BY FilterAssumption DEF ActionOf
    <3> QED
      BY <2>1, <3>1 DEF AskForSlot, Next
  <2>2. CASE LimiterStep
    BY <2>2 DEF LimiterStep, Next
  <2>3. CASE UNCHANGED <<vars, filter>>
    BY <2>3
  <2> QED
    BY <1>2, <2>1, <2>2, <2>3 DEF FilterNext
<1> QED
  BY <1>1, <1>2, PTL DEF FilterSpec, Spec

\* Two times that are in one stretch are not a window apart.
LEMMA InOneStretch ==
    ASSUME NEW i \in Nat, NEW j \in Nat, NEW limit \in Nat,
           NEW early \in Nat, NEW late \in Nat, NEW window \in Nat,
           NEW delay \in Nat, NEW start \in Nat,
           i + limit <= j => early + window <= late + delay,
           start <= early, late + delay < start + window
    PROVE  j < i + limit
  OBVIOUS

LEMMA LimitFromInvariant ==
    ASSUME LimiterAssumption, IInv
    PROVE  LimitHeld
<1> SUFFICES ASSUME NEW a \in Actions, NEW start \in Times
             PROVE  Cardinality({i \in DOMAIN granted[a] :
                        start <= granted[a][i] /\ granted[a][i] + MaxDelay < start + Window[a]})
                      <= Limit[a]
  BY DEF LimitHeld
<1> DEFINE g == granted[a]
           S == {i \in DOMAIN g : start <= g[i] /\ g[i] + MaxDelay < start + Window[a]}
<1>1. /\ MaxDelay \in Nat /\ Limit[a] \in Nat /\ Window[a] \in Nat /\ start \in Nat
      /\ g \in Seq(Times) /\ Times \subseteq Nat
  BY DEF LimiterAssumption, IInv, TypeOK, Times
<1>2. DOMAIN g \subseteq Nat /\ \A i \in DOMAIN g : g[i] \in Nat
  <2>1. g \in Seq(Times)
    BY <1>1
  <2> HIDE DEF g
  <2>2. Len(g) \in Nat /\ g \in [1..Len(g) -> Times] /\ DOMAIN g = 1..Len(g)
    BY <2>1, LenProperties
  <2>3. DOMAIN g \subseteq Nat
    BY <2>2
  <2>4. Times \subseteq Nat
    BY <1>1
  <2> QED
    BY <2>2, <2>3, <2>4
<1>3. \A i, j \in S : j < i + Limit[a]
  <2> TAKE i, j \in S
  <2>1. i + Limit[a] <= j => g[i] + Window[a] <= g[j] + MaxDelay
    BY DEF IInv, GrantsApart
  <2>2. start <= g[i] /\ g[j] + MaxDelay < start + Window[a]
    OBVIOUS
  <2>3. i \in Nat /\ j \in Nat /\ g[i] \in Nat /\ g[j] \in Nat
    BY <1>2
  <2>4. MaxDelay \in Nat /\ Limit[a] \in Nat /\ Window[a] \in Nat /\ start \in Nat
    BY <1>1
  <2> HIDE DEF g, S
  <2> QED
    BY <2>1, <2>2, <2>3, <2>4, InOneStretch
<1>4. CASE S = {}
  <2>1. Cardinality(S) = 0
    BY <1>4, FS_EmptySet
  <2> QED
    BY <1>1, <2>1
<1>5. CASE S # {}
  <2>1. S \in SUBSET Nat
    BY <1>2
  <2>2. PICK m \in S : \A j \in S : m <= j
    BY <1>5, <2>1, Smallest
  <2>3. S \subseteq m..(m + Limit[a] - 1) /\ m \in Nat
    BY <1>1, <1>3, <2>1, <2>2
  <2>4. m < m + Limit[a]
    BY <1>3, <2>2
  <2> HIDE DEF S
  <2>5. IsFiniteSet(m..(m + Limit[a] - 1)) /\ Cardinality(m..(m + Limit[a] - 1)) = Limit[a]
    <3>1. m \in Int /\ Limit[a] \in Nat /\ Limit[a] > 0
      BY <1>1, <2>3, <2>4
    <3> QED
      BY <3>1, IntervalSize
  <2>6. Cardinality(S) <= Limit[a]
    <3> DEFINE I == m..(m + Limit[a] - 1)
    <3>1. S \in SUBSET I /\ IsFiniteSet(I) /\ Cardinality(I) = Limit[a]
      BY <2>3, <2>5
    <3> HIDE DEF I
    <3>2. Cardinality(S) <= Cardinality(I)
      BY <3>1, FS_Subset
    <3> QED
      BY <3>1, <3>2
  <2> QED
    BY <2>6 DEF S
<1> QED
  BY <1>4, <1>5

LEMMA BusyFromInvariant ==
    ASSUME LimiterAssumption, IInv
    PROVE  RefusedOnlyWhenBusy /\ CheckAgreesInOrder
<1> SUFFICES ASSUME NEW c \in Callers, NEW call \in calls[c]
             PROVE  LET a == call.action
                    IN  /\ ~HasRoom(a, call.now) =>
                             Cardinality({i \in DOMAIN windows[a] :
                                Elapsed(call.now, windows[a][i]) < Window[a] + MaxDelay}) >= Limit[a]
                        /\ InOrder(a) => (Check(a, call.now) <=> HasRoom(a, call.now))
  BY DEF RefusedOnlyWhenBusy, CheckAgreesInOrder
<1> DEFINE a == call.action
           instant == call.now
           w == windows[a]
           n == Len(w)
           g == granted[a]
           D == Dropped(a)
           left == Cleaned(a, instant)
           busy == {i \in DOMAIN w : Elapsed(instant, w[i]) < Window[a] + MaxDelay}
           live == {i \in DOMAIN w : ~Expired(a, instant, w[i])}
<1>1. /\ a \in Actions /\ instant \in Times
      /\ MaxDelay \in Nat /\ Limit[a] \in Nat /\ Window[a] \in Nat /\ Times \subseteq Nat
  <2>1. call \in [now : Times, action : Actions]
    BY DEF IInv, TypeOK
  <2> QED
    BY <2>1 DEF LimiterAssumption, Times
<1>2. /\ w \in Seq(Times) /\ n \in Nat /\ DOMAIN w = 1..n /\ \A i \in 1..n : w[i] \in Nat
      /\ g \in Seq(Times) /\ Len(g) \in Nat /\ DOMAIN g = 1..Len(g) /\ \A i \in 1..Len(g) : g[i] \in Nat
  <2>1. w \in Seq(Times) /\ g \in Seq(Times)
    BY <1>1 DEF IInv, TypeOK
  <2> HIDE DEF w, g
  <2> QED
    BY <2>1, SeqOfTimes
<1>3. PICK d \in 0..n :
              /\ left \in Seq(Times)
              /\ Len(left) = n - d
              /\ \A i \in 1..(n - d) : left[i] = w[d + i]
              /\ \A i \in 1..d : Expired(a, instant, w[i])
              /\ d < n => ~Expired(a, instant, w[d + 1])
  BY <1>1, CleanedSuffix DEF IInv
<1>4. /\ D \in Nat /\ D + n = Len(g)
      /\ \A i \in 1..n : w[i] <= g[D + i] /\ g[D + i] <= w[i] + MaxDelay
      /\ \A i, j \in DOMAIN g : i <= j => g[i] <= g[j]
  <2>1. /\ D >= 0
        /\ \A i \in DOMAIN w : w[i] <= g[D + i] /\ g[D + i] <= w[i] + MaxDelay
        /\ \A i, j \in DOMAIN g : i <= j => g[i] <= g[j]
    BY <1>1 DEF IInv, QueueOfLastGrants, GrantedInOrder
  <2>2. D = Len(g) - n
    BY DEF Dropped
  <2> HIDE DEF D, g, n, w
  <2>3. D \in Nat /\ D + n = Len(g)
    BY <1>2, <2>1, <2>2
  <2>4. DOMAIN w = 1..n
    BY <1>2
  <2> QED
    BY <2>1, <2>3, <2>4
<1>5. HasRoom(a, instant) <=> n - d < Limit[a]
  BY <1>3 DEF HasRoom
<1>6. IsFiniteSet((d + 1)..n) /\ Cardinality((d + 1)..n) = n - d
  <2>1. d + 1 \in Int /\ n \in Int
    BY <1>2, <1>3
  <2>2. d \in Int /\ d <= n /\ n - (d + 1) + 1 = n - d /\ (d + 1 > n => n - d = 0)
    BY <1>2, <1>3
  <2> HIDE DEF n
  <2>3. /\ IsFiniteSet((d + 1)..n)
        /\ Cardinality((d + 1)..n) = IF d + 1 > n THEN 0 ELSE n - (d + 1) + 1
    BY <2>1, FS_Interval
  <2> QED
    BY <2>2, <2>3
<1>7. IsFiniteSet(busy)
  <2>1. n \in Int /\ 1 \in Int
    BY <1>2
  <2>2. busy \in SUBSET (1..n)
    BY <1>2
  <2> HIDE DEF n, busy
  <2>3. IsFiniteSet(1..n)
    BY <2>1, FS_Interval
  <2> QED
    BY <2>2, <2>3, FS_Subset
<1> HIDE DEF a, instant, w, n, g, D, left
\* What the cleanup left is in the window or has just left it.
<1>8. (d + 1)..n \subseteq busy
  <2> SUFFICES ASSUME NEW i \in (d + 1)..n PROVE Elapsed(instant, w[i]) < Window[a] + MaxDelay
    BY <1>2, <1>3
  <2>1. i \in 1..n /\ d + 1 \in 1..n /\ d < n /\ d + 1 <= i
    BY <1>2, <1>3
  <2>2. D + i \in 1..Len(g) /\ D + (d + 1) \in 1..Len(g) /\ D + (d + 1) <= D + i
    BY <1>2, <1>3, <1>4, <2>1, SMTT(30)
  <2>3. w[d + 1] <= g[D + (d + 1)] /\ g[D + (d + 1)] <= g[D + i] /\ g[D + i] <= w[i] + MaxDelay
    BY <1>2, <1>4, <2>1, <2>2
  <2>4. ~Expired(a, instant, w[d + 1])
    BY <1>3, <2>1
  <2>5. /\ w[d + 1] \in Nat /\ w[i] \in Nat /\ instant \in Nat
        /\ g[D + (d + 1)] \in Nat /\ g[D + i] \in Nat
    BY <1>1, <1>2, <2>1, <2>2
  <2>6. ~(w[d + 1] + Window[a] <= instant) /\ Window[a] # 0
    BY <1>1, <2>4, <2>5, ExpiredIsOld
  <2> QED
    BY <1>1, <2>3, <2>5, <2>6 DEF Elapsed
<1>9. n - d <= Cardinality(busy)
  <2> HIDE DEF busy
  <2> QED
    BY <1>6, <1>7, <1>8, FS_Subset
<1>10. Cardinality(busy) \in Nat
  <2> HIDE DEF busy
  <2> QED
    BY <1>7, FS_CardinalityType
<1>11. ~HasRoom(a, instant) => Cardinality(busy) >= Limit[a]
  <2> HIDE DEF busy
  <2> QED
    BY <1>1, <1>2, <1>3, <1>5, <1>9, <1>10
<1>12. ASSUME InOrder(a) PROVE Check(a, instant) <=> HasRoom(a, instant)
  <2>1. \A i, j \in 1..n : i <= j => w[i] <= w[j]
    BY <1>2, <1>12 DEF InOrder, w
  <2>2. live = (d + 1)..n
    <3>1. ASSUME NEW i \in (d + 1)..n PROVE i \in live
      <4>1. i \in 1..n /\ d + 1 \in 1..n /\ d < n /\ d + 1 <= i
        BY <1>2, <1>3
      <4>2. ~Expired(a, instant, w[d + 1]) /\ w[d + 1] <= w[i]
        BY <1>3, <2>1, <4>1
      <4>3. w[d + 1] \in Nat /\ w[i] \in Nat /\ instant \in Nat
        BY <1>1, <1>2, <4>1
      <4>4. ~Expired(a, instant, w[i])
        BY <1>1, <4>2, <4>3 DEF Expired, Elapsed
      <4> QED
        BY <1>2, <4>1, <4>4
    <3>2. ASSUME NEW i \in live PROVE i \in (d + 1)..n
      BY <1>2, <1>3
    <3> QED
      BY <3>1, <3>2
  <2>3. Current(a, instant) = Cardinality(live)
    BY DEF Current, w
  <2> QED
    BY <1>5, <1>6, <2>2, <2>3 DEF Check
<1> QED
  BY <1>11, <1>12 DEF a, instant, w

\* Limit actions at most in any window less the delay: the times out of order
\* in the queue do not let more through.
THEOREM LimitAlwaysHeld == FilterSpec => []LimitHeld
<1>1. IInv => LimitHeld
  BY LimitFromInvariant, LimiterAssumption
<1> QED
  BY <1>1, LimiterInvariance, FilterIsALimiter, PTL

\* A refusal means Limit recent actions.
THEOREM AlwaysRefusedOnlyWhenBusy == FilterSpec => []RefusedOnlyWhenBusy
<1>1. IInv => RefusedOnlyWhenBusy
  BY BusyFromInvariant, LimiterAssumption
<1> QED
  BY <1>1, LimiterInvariance, FilterIsALimiter, PTL

\* check and try_acquire agree while the queue is in order.
THEOREM CheckAlwaysAgreesInOrder == FilterSpec => []CheckAgreesInOrder
<1>1. IInv => CheckAgreesInOrder
  BY BusyFromInvariant, LimiterAssumption
<1> QED
  BY <1>1, LimiterInvariance, FilterIsALimiter, PTL

-----------------------------------------------------------------------------
(***************************************************************************)
(* The tables                                                              *)
(***************************************************************************)

IssueTypes == {Github(<<"issue", "opened">>), Github(<<"issue", "labeled">>),
               Github(<<"issue", "comment", "created">>)}
PullTypes == {Github(<<"pr", "opened">>), Github(<<"pr", "labeled">>)}

\* What the intake makes, by where it comes from.
FromLog(e) ==
    /\ e.type = ErrorDetected /\ e.source = "log-watcher"
    /\ e.severity \in Severities /\ e.priority = Urgency(e.severity)

FromDiscord(e) ==
    /\ \E name \in Commands \union {"unknown"} : e.type = Command(name)
    /\ e.source = "discord" /\ e.priority = 1 /\ e.severity = None /\ e.code = None

FromGithub(e) ==
    /\ \/ e.type \in IssueTypes /\ e.priority = 1
       \/ e.type \in PullTypes /\ e.priority = 2
    /\ e.source = "github" /\ e.severity = None /\ e.code = None

\* A text without a keyword is an unknown command.
LEMMA ParseKnows ==
    ASSUME NEW text
    PROVE  Parse(text) \in Commands \union {"unknown"}
<1> DEFINE found == {i \in DOMAIN Keywords : Keywords[i] \in text.words}
           least == CHOOSE i \in found : \A j \in found : i <= j
<1>1. found \subseteq 1..4 /\ \A i \in 1..4 : Keywords[i] \in Commands
  BY DEF Keywords, Commands
<1>2. ASSUME found # {} PROVE least \in found
  <2>1. \E i \in found : \A j \in found : i <= j
    <3> \A i \in found : i \in {1, 2, 3, 4}
      BY <1>1
    <3> HIDE DEF found
    <3> QED
      BY <1>2
  <2> HIDE DEF found
  <2> QED
    BY <2>1
<1>3. Parse(text) = IF text.mention /\ found # {} THEN Keywords[least] ELSE "unknown"
  BY DEF Parse
<1> HIDE DEF found, least
<1> QED
  BY <1>1, <1>2, <1>3

LEMMA IntakeMakes ==
    ASSUME NEW a \in Arrivals, EventOf(a) # None
    PROVE  FromLog(EventOf(a)) \/ FromDiscord(EventOf(a)) \/ FromGithub(EventOf(a))
<1>1. CASE a.kind = "log"
  <2>1. EventOf(a) = LogEvent(a) /\ SeverityOf(a.code) \in Severities
    BY <1>1 DEF EventOf, SeverityOf, Severities
  <2> QED
    BY <2>1 DEF LogEvent, FromLog, Event
<1>2. CASE a.kind = "discord"
  <2>1. EventOf(a) = DiscordEvent(a)
    BY <1>2 DEF EventOf
  <2> DEFINE name == Parse(Content(a.data))
             user == IF a.member # None THEN a.member ELSE a.user
  <2>2. EventOf(a) = Event(Command(name), "discord", 1, user)
    BY <2>1 DEF DiscordEvent
  <2>3. name \in Commands \union {"unknown"}
    BY ParseKnows
  <2> HIDE DEF name, user
  <2> QED
    BY <2>2, <2>3 DEF FromDiscord, Event
<1>3. CASE a.kind \in {"issues", "issue_comment"}
  <2>1. EventOf(a) = IssueEvent(a) \/ EventOf(a) = CommentEvent(a)
    BY <1>3 DEF EventOf
  <2>2. \E type \in IssueTypes : EventOf(a) = Event(type, "github", 1, a.user)
    BY <2>1 DEF IssueEvent, CommentEvent, IssueTypes
  <2> QED
    BY <2>2 DEF FromGithub, Event
<1>4. CASE a.kind = "pull_request"
  <2>1. EventOf(a) = PullEvent(a)
    BY <1>4 DEF EventOf
  <2>2. \E type \in PullTypes : EventOf(a) = Event(type, "github", 2, a.user)
    BY <2>1 DEF PullEvent, PullTypes
  <2> QED
    BY <2>2 DEF FromGithub, Event
<1>5. a.kind \in {"issues", "issue_comment", "pull_request", "discord", "log"}
  <2>1. /\ \A x \in IssueArrivals : x.kind = "issues"
        /\ \A x \in CommentArrivals : x.kind = "issue_comment"
        /\ \A x \in PullArrivals : x.kind = "pull_request"
    BY DEF IssueArrivals, CommentArrivals, PullArrivals
  <2>2. \A x \in DiscordArrivals : x.kind = "discord"
    BY DEF DiscordArrivals
  <2>3. \A x \in LogArrivals : x.kind = "log"
    BY DEF LogArrivals, LineOf
  <2> QED
    BY <2>1, <2>2, <2>3 DEF Arrivals
<1> QED
  BY <1>1, <1>2, <1>3, <1>4, <1>5

LEMMA EventsKnown ==
    \A e \in Events : FromLog(e) \/ FromDiscord(e) \/ FromGithub(e)
BY IntakeMakes DEF Events

\* Part of a sequence.
LEMMA Part ==
    ASSUME NEW s, NEW m \in Int, NEW n \in Int, m <= n
    PROVE  /\ SubSeq(s, m, n) \in Seq({s[i] : i \in m..n})
           /\ Len(SubSeq(s, m, n)) = n - m + 1
           /\ \A i \in 1..n - m + 1 : SubSeq(s, m, n)[i] = s[m + i - 1]
<1> DEFINE S == {s[i] : i \in m..n}
<1>1. \A i \in m..n : s[i] \in S
  OBVIOUS
<1> HIDE DEF S
<1>2. /\ SubSeq(s, m, n) \in Seq(S)
      /\ Len(SubSeq(s, m, n)) = n - m + 1
      /\ \A i \in 1..n - m + 1 : SubSeq(s, m, n)[i] = s[m + i - 1]
  BY <1>1, SubSeqProperties
<1> QED
  BY <1>2 DEF S

\* The first of the segments or words.
LEMMA Firsts ==
    ASSUME NEW s, NEW n \in {1, 2}
    PROVE  /\ Len(SubSeq(s, 1, n)) = n
           /\ \A i \in 1..n : SubSeq(s, 1, n)[i] = s[i]
           /\ SubSeq(s, 1, n) \in Seq({s[1], s[2]})
<1> DEFINE m == 1
<1>1. m \in Int /\ n \in Int /\ m <= n
  OBVIOUS
<1> HIDE DEF m
<1>2. /\ SubSeq(s, m, n) \in Seq({s[i] : i \in m..n})
      /\ Len(SubSeq(s, m, n)) = n - m + 1
      /\ \A i \in 1..n - m + 1 : SubSeq(s, m, n)[i] = s[m + i - 1]
  BY <1>1, Part
<1>3. m = 1 /\ n \in Nat /\ {s[i] : i \in m..n} \subseteq {s[1], s[2]}
  BY DEF m
<1>4. SubSeq(s, m, n) \in Seq({s[1], s[2]})
  BY <1>2, <1>3
<1>5. n - m + 1 = n /\ \A i \in 1..n : m + i - 1 = i
  BY <1>3
<1> QED
  BY <1>2, <1>3, <1>4, <1>5, Zenon

CommandPrefix == <<<<"discord">>, <<"command">>>>
GithubPrefix == <<<<"github">>>>

\* What a type begins with.
LEMMA Prefixes ==
    ASSUME NEW type
    PROVE  /\ Prefixed(type, CommandPrefix) <=>
                 Len(type) >= 2 /\ type[1] = <<"discord">> /\ type[2] = <<"command">>
           /\ Prefixed(type, GithubPrefix) <=> Len(type) >= 1 /\ type[1] = <<"github">>
<1> DEFINE two == SubSeq(type, 1, 2)
           one == SubSeq(type, 1, 1)
<1>1. /\ Len(CommandPrefix) = 2 /\ CommandPrefix[1] = <<"discord">> /\ CommandPrefix[2] = <<"command">>
      /\ Len(GithubPrefix) = 1 /\ GithubPrefix[1] = <<"github">>
  BY DEF CommandPrefix, GithubPrefix
<1>2. /\ Len(two) = 2 /\ two[1] = type[1] /\ two[2] = type[2] /\ two \in Seq({type[1], type[2]})
      /\ Len(one) = 1 /\ one[1] = type[1] /\ one \in Seq({type[1], type[2]})
  BY Firsts
<1> HIDE DEF two, one
<1>3. type[1] = <<"discord">> /\ type[2] = <<"command">> => two = CommandPrefix
  <2> SUFFICES ASSUME type[1] = <<"discord">>, type[2] = <<"command">> PROVE two = CommandPrefix
    OBVIOUS
  <2> DEFINE S == {type[1], type[2]}
  <2>1. CommandPrefix \in Seq(S) /\ two \in Seq(S)
    BY <1>2 DEF CommandPrefix
  <2>2. Len(two) = Len(CommandPrefix) /\ \A i \in 1..Len(two) : two[i] = CommandPrefix[i]
    BY <1>1, <1>2
  <2> HIDE DEF S
  <2> QED
    BY <2>1, <2>2, SeqEqual, Zenon
<1>4. type[1] = <<"github">> => one = GithubPrefix
  <2> SUFFICES ASSUME type[1] = <<"github">> PROVE one = GithubPrefix
    OBVIOUS
  <2> DEFINE S == {type[1], type[2]}
  <2>1. GithubPrefix \in Seq(S) /\ one \in Seq(S)
    BY <1>2 DEF GithubPrefix
  <2>2. Len(one) = Len(GithubPrefix) /\ \A i \in 1..Len(one) : one[i] = GithubPrefix[i]
    BY <1>1, <1>2
  <2> HIDE DEF S
  <2> QED
    BY <2>1, <2>2, SeqEqual, Zenon
<1>5. /\ Prefixed(type, CommandPrefix) <=> Len(type) >= 2 /\ two = CommandPrefix
      /\ Prefixed(type, GithubPrefix) <=> Len(type) >= 1 /\ one = GithubPrefix
  BY <1>1 DEF Prefixed, two, one
<1> QED
  BY <1>1, <1>2, <1>3, <1>4, <1>5

\* A type is of one origin.
LEMMA Origins ==
    /\ /\ ~Prefixed(ErrorDetected, CommandPrefix) /\ ~Prefixed(ErrorDetected, GithubPrefix)
       /\ ErrorDetected \notin IssueTypes \union PullTypes
    /\ \A name : LET type == Command(name)
                 IN  /\ type # ErrorDetected /\ type \notin IssueTypes \union PullTypes
                     /\ Prefixed(type, CommandPrefix) /\ ~Prefixed(type, GithubPrefix)
    /\ \A type \in IssueTypes \union PullTypes :
          /\ type # ErrorDetected
          /\ ~Prefixed(type, CommandPrefix) /\ Prefixed(type, GithubPrefix)
          /\ type \in IssueTypes <=> type \notin PullTypes
<1>1. ErrorDetected[1] = <<"monitoring">>
  BY DEF ErrorDetected
<1>2. \A name : Len(Command(name)) = 3 /\ Command(name)[1] = <<"discord">> /\ Command(name)[2] = <<"command">>
  BY DEF Command
<1>3. \A words : Len(Github(words)) = 2 /\ Github(words)[1] = <<"github">> /\ Github(words)[2] = words
  BY DEF Github
<1>4. <<"monitoring">> # <<"discord">> /\ <<"monitoring">> # <<"github">> /\ <<"discord">> # <<"github">>
  OBVIOUS
<1>5. \A type \in IssueTypes : Len(type) = 2 /\ type[1] = <<"github">> /\ type[2][1] = "issue"
  BY <1>3 DEF IssueTypes
<1>6. \A type \in PullTypes : Len(type) = 2 /\ type[1] = <<"github">> /\ type[2][1] = "pr"
  BY <1>3 DEF PullTypes
<1>7. /\ ~Prefixed(ErrorDetected, CommandPrefix) /\ ~Prefixed(ErrorDetected, GithubPrefix)
      /\ ErrorDetected \notin IssueTypes \union PullTypes
  BY <1>1, <1>4, <1>5, <1>6, Prefixes
<1>8. ASSUME NEW name
      PROVE  /\ Command(name) # ErrorDetected /\ Command(name) \notin IssueTypes \union PullTypes
             /\ Prefixed(Command(name), CommandPrefix) /\ ~Prefixed(Command(name), GithubPrefix)
  BY <1>1, <1>2, <1>4, <1>5, <1>6, Prefixes
<1>9. ASSUME NEW type \in IssueTypes \union PullTypes
      PROVE  /\ type # ErrorDetected
             /\ ~Prefixed(type, CommandPrefix) /\ Prefixed(type, GithubPrefix)
             /\ type \in IssueTypes <=> type \notin PullTypes
  BY <1>1, <1>4, <1>5, <1>6, Prefixes
<1> QED
  BY <1>7, <1>8, <1>9

LEMMA Handled ==
    /\ Handler(ErrorDetected) = "log-watcher"
    /\ \A name : Handler(Command(name)) = "discord"
    /\ \A type \in IssueTypes \union PullTypes : Handler(type) = "github"
<1>1. ASSUME NEW type
      PROVE  Handler(type) = CASE type = ErrorDetected -> "log-watcher"
                               [] Prefixed(type, CommandPrefix) -> "discord"
                               [] Prefixed(type, GithubPrefix) -> "github"
                               [] OTHER -> "skipped"
  BY DEF Handler, CommandPrefix, GithubPrefix
<1>2. Handler(ErrorDetected) = "log-watcher"
  BY <1>1, Origins
<1>3. ASSUME NEW name PROVE Handler(Command(name)) = "discord"
  BY <1>1, Origins
<1>4. ASSUME NEW type \in IssueTypes \union PullTypes PROVE Handler(type) = "github"
  BY <1>1, Origins
<1> QED
  BY <1>2, <1>3, <1>4

LEMMA Prioritised ==
    ASSUME NEW e, FromLog(e) \/ FromDiscord(e) \/ FromGithub(e)
    PROVE  e.priority = FromEventType(e)
<1>1. FromEventType(e) =
        CASE e.type = ErrorDetected ->
               (CASE e.severity = "critical" -> 0 [] e.severity = "warning" -> 1 [] OTHER -> 2)
          [] Prefixed(e.type, CommandPrefix) -> 1
          [] e.type \in IssueTypes -> 1
          [] e.type \in PullTypes -> 2
          [] OTHER -> 3
  <2>1. IssueTypes = {Github(<<"issue", "labeled">>), Github(<<"issue", "opened">>),
                      Github(<<"issue", "comment", "created">>)}
    BY DEF IssueTypes
  <2> QED
    BY <2>1 DEF FromEventType, CommandPrefix, PullTypes
<1>2. CASE FromLog(e)
  <2>1. /\ e.type = ErrorDetected /\ ~Prefixed(e.type, CommandPrefix)
        /\ e.type \notin IssueTypes /\ e.type \notin PullTypes
    BY <1>2, Origins DEF FromLog
  <2> QED
    BY <1>1, <1>2, <2>1 DEF FromLog, Urgency, Severities
<1>3. CASE FromDiscord(e)
  <2>1. /\ e.type # ErrorDetected /\ Prefixed(e.type, CommandPrefix)
        /\ e.type \notin IssueTypes /\ e.type \notin PullTypes
    BY <1>3, Origins DEF FromDiscord
  <2> QED
    BY <1>1, <1>3, <2>1 DEF FromDiscord
<1>4. CASE FromGithub(e)
  <2>1. /\ e.type # ErrorDetected /\ ~Prefixed(e.type, CommandPrefix)
        /\ e.type \in IssueTypes <=> e.type \notin PullTypes
    BY <1>4, Origins DEF FromGithub
  <2> QED
    BY <1>1, <1>4, <2>1 DEF FromGithub
<1> QED
  BY <1>2, <1>3, <1>4

\* The segments of the types.
LEMMA SegmentsOf ==
    /\ Segments(ErrorDetected) = {<<"monitoring">>, <<"error", "detected">>}
    /\ \A name : Segments(Command(name)) = {<<"discord">>, <<"command">>, <<name>>}
    /\ \A words : Segments(Github(words)) = {<<"github">>, words}
<1>1. ASSUME NEW a, NEW b, NEW c
      PROVE  Segments(<<a, b>>) = {a, b} /\ Segments(<<a, b, c>>) = {a, b, c}
  BY DEF Segments
<1>2. Segments(ErrorDetected) = {<<"monitoring">>, <<"error", "detected">>}
  BY <1>1, Zenon DEF ErrorDetected
<1>3. \A name : Segments(Command(name)) = {<<"discord">>, <<"command">>, <<name>>}
  BY <1>1, ZenonT(30) DEF Command
<1>4. \A words : Segments(Github(words)) = {<<"github">>, words}
  BY <1>1, Zenon DEF Github
<1> QED
  BY <1>2, <1>3, <1>4

\* A segment that counts as a branch or a pull request by none of its words.
Plain(s) ==
    /\ DOMAIN s = 1..Len(s) /\ Len(s) \in Nat
    /\ \A i \in 1..Len(s) : s[i] \notin {"branch", "pull"}
    /\ Len(s) = 1 => s[1] # "pr"

LEMMA Calls ==
    ASSUME NEW type, \A s \in Segments(type) : Plain(s)
    PROVE  ActionOf(type) = "api_call"
<1>1. ASSUME NEW s \in Segments(type), NEW i \in 1..(Len(s) - 1), SubSeq(s, i, i + 1) = <<"pull", "request">>
      PROVE  FALSE
  <2> DEFINE k == i + 1
  <2>1. i \in Int /\ k \in Int /\ i <= k /\ k - i + 1 = 2 /\ i + 1 - 1 = i
    BY <1>1
  <2> HIDE DEF k
  <2>2. \A j \in 1..2 : SubSeq(s, i, k)[j] = s[i + j - 1]
    BY <2>1, Part
  <2>3. SubSeq(s, i, k)[1] = s[i]
    BY <2>1, <2>2
  <2>4. SubSeq(s, i, k) = <<"pull", "request">>
    BY <1>1 DEF k
  <2>5. s[i] = "pull"
    BY <2>3, <2>4
  <2>6. i \in 1..Len(s)
    BY <1>1 DEF Plain
  <2> QED
    BY <2>5, <2>6 DEF Plain
<1>2. <<"pr">> \notin Segments(type)
  <2>1. Len(<<"pr">>) = 1 /\ <<"pr">>[1] = "pr"
    OBVIOUS
  <2> QED
    BY <2>1 DEF Plain
<1>3. ASSUME NEW s \in Segments(type) PROVE "branch" \notin WordsOf(s)
  BY DEF Plain, WordsOf
<1> QED
  BY <1>1, <1>2, <1>3 DEF ActionOf

LEMMA PlainSegments ==
    /\ \A a : a \notin {"branch", "pull", "pr"} => Plain(<<a>>)
    /\ \A a, b : a \notin {"branch", "pull"} /\ b \notin {"branch", "pull"} => Plain(<<a, b>>)
    /\ Plain(<<"issue", "comment", "created">>)
<1>1. ASSUME NEW a, a \notin {"branch", "pull", "pr"} PROVE Plain(<<a>>)
  <2> DEFINE s == <<a>>
  <2>1. Len(s) = 1 /\ DOMAIN s = 1..1 /\ s[1] = a
    OBVIOUS
  <2> HIDE DEF s
  <2>2. Plain(s)
    BY <1>1, <2>1 DEF Plain
  <2> QED
    BY <2>2 DEF s
<1>2. ASSUME NEW a, NEW b, a \notin {"branch", "pull"}, b \notin {"branch", "pull"}
      PROVE  Plain(<<a, b>>)
  <2> DEFINE s == <<a, b>>
  <2>1. Len(s) = 2 /\ DOMAIN s = 1..2 /\ s[1] = a /\ s[2] = b
    OBVIOUS
  <2> HIDE DEF s
  <2>2. Plain(s)
    BY <1>2, <2>1 DEF Plain
  <2> QED
    BY <2>2 DEF s
<1>3. Plain(<<"issue", "comment", "created">>)
  <2> DEFINE s == <<"issue", "comment", "created">>
  <2>1. Len(s) = 3 /\ DOMAIN s = 1..3 /\ s[1] = "issue" /\ s[2] = "comment" /\ s[3] = "created"
    OBVIOUS
  <2> HIDE DEF s
  <2>2. Plain(s)
    BY <2>1 DEF Plain
  <2> QED
    BY <2>2 DEF s
<1> QED
  BY <1>1, <1>2, <1>3

LEMMA Counted ==
    ASSUME NEW e, FromLog(e) \/ FromDiscord(e) \/ FromGithub(e)
    PROVE  ActionOf(e.type) = "api_call"
<1>1. Plain(<<"monitoring">>) /\ Plain(<<"discord">>) /\ Plain(<<"command">>) /\ Plain(<<"github">>)
  BY PlainSegments
<1>2. CASE FromLog(e)
  <2>1. Plain(<<"error", "detected">>)
    BY PlainSegments
  <2>2. \A s \in Segments(ErrorDetected) : Plain(s)
    BY <1>1, <2>1, SegmentsOf, Zenon
  <2> QED
    BY <1>2, <2>2, Calls, Zenon DEF FromLog
<1>3. CASE FromDiscord(e)
  <2>1. PICK name \in Commands \union {"unknown"} : e.type = Command(name)
    BY <1>3 DEF FromDiscord
  <2>2. Plain(<<name>>)
    <3>1. name \notin {"branch", "pull", "pr"}
      BY DEF Commands
    <3> QED
      BY <3>1, PlainSegments, Zenon
  <2>3. \A s \in Segments(Command(name)) : Plain(s)
    BY <1>1, <2>2, SegmentsOf, Zenon
  <2> QED
    BY <2>1, <2>3, Calls, Zenon
<1>4. CASE FromGithub(e)
  <2>1. /\ Plain(<<"issue", "opened">>) /\ Plain(<<"issue", "labeled">>)
        /\ Plain(<<"pr", "opened">>) /\ Plain(<<"pr", "labeled">>)
        /\ Plain(<<"issue", "comment", "created">>)
    <3>1. ASSUME NEW a \in {"issue", "pr"}, NEW b \in {"opened", "labeled"} PROVE Plain(<<a, b>>)
      <4>1. a \notin {"branch", "pull"} /\ b \notin {"branch", "pull"}
        OBVIOUS
      <4> QED
        BY <4>1, PlainSegments, Zenon
    <3> QED
      BY <3>1, PlainSegments, Zenon
  <2>2. PICK words : Plain(words) /\ e.type = Github(words)
    BY <1>4, <2>1, Zenon DEF FromGithub, IssueTypes, PullTypes
  <2>3. \A s \in Segments(Github(words)) : Plain(s)
    BY <1>1, <2>2, SegmentsOf, Zenon
  <2> QED
    BY <2>2, <2>3, Calls, Zenon
<1> QED
  BY <1>2, <1>3, <1>4

\* The tables kept by hand agree on every event that passes the lists.
THEOREM TablesAlwaysAgree == FilterSpec => []TablesAgree
<1>1. TablesAgree
  <2> SUFFICES ASSUME NEW e \in Events
               PROVE  /\ e.priority = FromEventType(e)
                      /\ Handler(e.type) = e.source
                      /\ ActionOf(e.type) = "api_call"
    BY DEF TablesAgree
  <2>1. FromLog(e) \/ FromDiscord(e) \/ FromGithub(e)
    BY EventsKnown
  <2>2. Handler(e.type) = e.source
    BY <2>1, Handled DEF FromLog, FromDiscord, FromGithub
  <2> QED
    BY <2>1, <2>2, Prioritised, Counted
<1> QED
  BY <1>1, PTL

-----------------------------------------------------------------------------
(***************************************************************************)
(* What is urgent                                                          *)
(***************************************************************************)

\* The minimum of a filter is a severity.
MinKnown == filter.min \in Severities

LEMMA AlwaysMinKnown == FilterSpec => []MinKnown
<1>1. FilterInit => MinKnown
  <2> SUFFICES ASSUME FilterInit PROVE filter.min \in Severities
    BY DEF MinKnown
  <2>1. Default.min \in Severities
    BY DEF Default, Severities
  <2>2. CASE filter = [Default EXCEPT !.active = FALSE]
    BY <2>1, <2>2 DEF Default
  <2>3. ASSUME NEW env \in Environments, filter = FromEnv(env) PROVE filter.min \in Severities
    BY <2>1, <2>3 DEF FromEnv, Default
  <2> QED
    BY <2>2, <2>3 DEF FilterInit
<1>2. MinKnown /\ [FilterNext]_<<vars, filter>> => MinKnown'
  BY DEF MinKnown, FilterNext, AskForSlot, LimiterStep
<1> QED
  BY <1>1, <1>2, PTL DEF FilterSpec

\* The families of codes have no error in common, so that an error of the AI
\* service has its code.
LEMMA AiErrors ==
    ASSUME NEW x \in CodeFamilies["AI5"]
    PROVE  x \in AppErrors /\ ErrorCode(x) = "AI5"
<1>1. x \in {"AiAnalysisFailed", "AiConnectionFailed", "AiServiceUnavailable", "AiGeneralError"}
  BY DEF CodeFamilies
<1>2. "AI5" \in Codes
  BY DEF Codes, CodeFamilies
<1>3. ASSUME NEW c \in Codes, x \in CodeFamilies[c] PROVE c = "AI5"
  BY <1>1, <1>3 DEF Codes, CodeFamilies
<1> QED
  BY <1>2, <1>3 DEF ErrorCode, AppErrors

\* Nothing urgent is refused before the limiter: no command, webhook or
\* critical error, nor a failure of the AI service, which is critical.
THEOREM NothingUrgentEverHidden == FilterSpec => []NothingUrgentHidden
<1>1. ASSUME MinKnown, Unlisted, NEW e, e.severity \in {None, "critical"}
      PROVE  PassesLists(e)
  <2>1. e.severity # None => Rank(e.severity) >= Rank(filter.min)
    BY <1>1 DEF Rank, MinKnown, Severities
  <2> QED
    BY <1>1, <2>1 DEF PassesLists, SevereEnough, Unlisted
<1>2. ASSUME NEW x \in CodeFamilies["AI5"]
      PROVE  LogEvent(LineOf(x)).severity = "critical"
  <2>1. x # "RateLimitExceeded"
    BY DEF CodeFamilies
  <2>2. ErrorCode(x) = "AI5"
    BY AiErrors
  <2> QED
    BY <2>1, <2>2 DEF LineOf, LogLevel, LogEvent, SeverityOf, Event
<1>3. MinKnown => NothingUrgentHidden
  BY <1>1, <1>2 DEF NothingUrgentHidden
<1> QED
  BY <1>3, AlwaysMinKnown, PTL

-----------------------------------------------------------------------------
\* The constants and the sets of numbers.
LEMMA WatcherNumbers ==
    /\ Clock \subseteq Nat /\ Days \subseteq Nat /\ 0 \in Days /\ 0 \in Clock
    /\ Lines \subseteq Nat \ {0} /\ Unset \notin Nat /\ Unset \notin Lines
    /\ DedupWindow \in Nat \ {0}
    /\ MaxLines \in Nat /\ MaxClock \in Nat /\ MaxDay \in Nat /\ MaxFaults \in Nat /\ MaxRotations \in Nat
    /\ Unset \notin [at : Clock, on : Days, after : 0..MaxFaults]
    /\ Unset \notin Fingerprints \union {"info", "noise"}
    /\ Fingerprints \intersect {"info", "noise"} = {}
  BY WatcherAssumption DEF Clock, Days, Lines

\* The files as functions.
LEMMA LogFiles ==
    ASSUME WatcherTypeOK, NEW d \in Days
    PROVE  /\ Len(log[d]) \in Nat /\ DOMAIN log[d] = 1..Len(log[d])
           /\ \A i \in 1..Len(log[d]) : log[d][i] \in Lines
<1>1. log[d] \in Seq(Lines)
  BY DEF WatcherTypeOK
<1> QED
  BY <1>1, LenProperties

\* The watcher begins in its inductive invariant.
LEMMA WatcherInitIInv == WatcherInit => WatcherIInv
<1> SUFFICES ASSUME WatcherInit PROVE WatcherIInv
  OBVIOUS
<1> USE WatcherNumbers DEF WatcherInit
<1>1. WatcherTypeOK
  <2>1. <<>> \in Seq(Lines)
    BY EmptySeq
  <2> QED
    BY <2>1 DEF WatcherTypeOK, Stages, AlertTimes, Never
<1>2. \A d \in Days : DOMAIN log[d] = {}
  BY <1>1, LogFiles, EmptySeq
<1>3. LogInOrder
  <2>1. Written = 1..0
    BY DEF Written
  <2> QED
    BY <1>2, <2>1, 0 \in 0..MaxLines DEF LogInOrder
<1>4. DecidedErrors /\ FilesOfDay
  BY <1>2 DEF DecidedErrors, FilesOfDay, Days
<1>5. UndecidedBeyond
  BY <1>2 DEF UndecidedBeyond
<1>6. DealtWith
  <2>1. Mark = 0
    BY DEF Mark, Deciding, LastLine
  <2> QED
    BY <1>1, <2>1, LogFiles DEF DealtWith
<1>7. HandedOver /\ DecidedNow /\ MutedByAlert /\ SkippedByAlert /\ EventsRemembered /\ EventsApart
  BY DEF HandedOver, DecidedNow, MutedByAlert, SkippedByAlert, EventsRemembered, EventsApart
<1>8. AlertsOfEvents
  BY DEF AlertsOfEvents, Never, Deciding
<1> QED
  BY <1>1, <1>3, <1>4, <1>5, <1>6, <1>7, <1>8 DEF WatcherIInv

\* A line is begun: it is new, and at the end of today's file.
LEMMA LineBegun ==
    ASSUME WatcherIInv, NEW k \in Fingerprints \union {"info", "noise"}, BeginLine(k)
    PROVE  \E new \in Lines :
              /\ Written = 1..(new - 1) /\ kind[new] = Unset /\ seen[new] = Unset
              /\ partial' = new /\ kind' = [kind EXCEPT ![new] = k]
              /\ Len(log'[today]) = Len(log[today]) + 1 /\ Len(log[today]) < new
              /\ log'[today][Len(log[today]) + 1] = new
              /\ \A i \in 1..Len(log[today]) : log'[today][i] = log[today][i]
              /\ \A d \in Days : d # today => log'[d] = log[d]
              /\ log' \in [Days -> Seq(Lines)]
<1> USE DEF WatcherIInv
<1>1. today \in Days /\ log[today] \in Seq(Lines)
  BY DEF WatcherTypeOK
<1>2. PICK n \in 0..MaxLines : Written = 1..n
  BY DEF LogInOrder
<1>3. n \in Nat /\ Cardinality(Written) = n
  <2>1. n \in Nat /\ n + 1 - 1 = n
    BY WatcherNumbers
  <2>2. Cardinality(1..n) = n
    BY <2>1, FS_Interval
  <2> QED
    BY <1>2, <2>1, <2>2
<1> DEFINE new == n + 1
<1>4. new \in Lines /\ partial' = new /\ new \notin Written
  BY <1>2, <1>3, WatcherNumbers DEF BeginLine, Lines
<1>5. kind[new] = Unset
  BY <1>4 DEF Written
<1>6. seen[new] = Unset
  BY <1>4, <1>5, WatcherNumbers DEF DecidedErrors, IsError
<1>7. kind' = [kind EXCEPT ![new] = k] /\ log' = [log EXCEPT ![today] = Append(log[today], new)]
  BY <1>4 DEF BeginLine
<1>8. /\ Append(log[today], new) \in Seq(Lines)
      /\ Len(Append(log[today], new)) = Len(log[today]) + 1
      /\ Append(log[today], new)[Len(log[today]) + 1] = new
      /\ \A i \in 1..Len(log[today]) : Append(log[today], new)[i] = log[today][i]
  BY <1>1, <1>4, AppendProperties
<1>9. Len(log[today]) < new
  <2>1. CASE Len(log[today]) = 0
    BY <2>1, <1>4
  <2>2. CASE Len(log[today]) # 0
    <3>1. Len(log[today]) \in DOMAIN log[today]
      BY <1>1, <2>2, LogFiles
    <3> QED
      BY <1>1, <1>2, <1>3, <3>1, LogFiles DEF LogInOrder
  <2> QED
    BY <2>1, <2>2
<1>10. /\ log'[today] = Append(log[today], new)
       /\ \A d \in Days : d # today => log'[d] = log[d]
       /\ log' \in [Days -> Seq(Lines)]
  BY <1>1, <1>7, <1>8 DEF WatcherTypeOK
<1>11. Written = 1..(new - 1)
  BY <1>2, <1>3
<1> HIDE DEF new
<1> QED
  BY <1>4, <1>5, <1>6, <1>7, <1>8, <1>9, <1>10, <1>11

\* A line is begun.
LEMMA BeginLineIInv ==
    ASSUME WatcherIInv, NEW k \in Fingerprints \union {"info", "noise"}, BeginLine(k)
    PROVE  WatcherIInv'
<1> USE DEF WatcherIInv
<1>1. PICK new \in Lines :
              /\ Written = 1..(new - 1) /\ kind[new] = Unset /\ seen[new] = Unset
              /\ partial' = new /\ kind' = [kind EXCEPT ![new] = k]
              /\ Len(log'[today]) = Len(log[today]) + 1 /\ Len(log[today]) < new
              /\ log'[today][Len(log[today]) + 1] = new
              /\ \A i \in 1..Len(log[today]) : log'[today][i] = log[today][i]
              /\ \A d \in Days : d # today => log'[d] = log[d]
              /\ log' \in [Days -> Seq(Lines)]
  BY LineBegun
<1>2. partial = Unset /\ UNCHANGED <<today, now, rotations, position, alerted, pc, day, upTo, cache,
         events, skipped, seen, told, muted, lost, rotated, blind, faults>>
  BY DEF BeginLine, fileVars, runVars, historyVars
<1>3. today \in Days /\ day \in Days /\ new \in Nat /\ today \in Nat /\ day \in Nat
  BY WatcherNumbers DEF WatcherTypeOK
<1>4. WatcherTypeOK'
  BY <1>1, <1>2 DEF WatcherTypeOK
<1>5. ASSUME NEW d \in Days
      PROVE  /\ DOMAIN log[d] = 1..Len(log[d]) /\ Len(log[d]) \in Nat
             /\ DOMAIN log'[d] = 1..Len(log'[d]) /\ Len(log'[d]) \in Nat
             /\ Len(log[d]) <= Len(log'[d])
             /\ \A i \in 1..Len(log[d]) : log'[d][i] = log[d][i]
             /\ \A i \in 1..Len(log'[d]) :
                   \/ i \in 1..Len(log[d]) /\ log'[d][i] = log[d][i]
                   \/ log'[d][i] = new /\ d = today /\ i = Len(log[today]) + 1
  <2>1. DOMAIN log[d] = 1..Len(log[d]) /\ Len(log[d]) \in Nat
    BY LogFiles
  <2>2. DOMAIN log'[d] = 1..Len(log'[d]) /\ Len(log'[d]) \in Nat
    <3>1. log'[d] \in Seq(Lines)
      BY <1>1
    <3> QED
      BY <3>1, LenProperties
  <2>3. CASE d = today
    <3>1. /\ Len(log'[d]) = Len(log[d]) + 1
          /\ log'[d][Len(log[d]) + 1] = new
          /\ \A i \in 1..Len(log[d]) : log'[d][i] = log[d][i]
      BY <1>1, <2>3
    <3> QED
      BY <2>1, <2>2, <2>3, <3>1
  <2>4. CASE d # today
    BY <1>1, <2>1, <2>2, <2>4
  <2> QED
    BY <2>3, <2>4
<1>6. /\ Written' = 1..new
      /\ \A l \in Lines : l # new => kind'[l] = kind[l] /\ (IsError(l)' <=> IsError(l))
  <2>1. \A l \in Lines : kind'[l] = IF l = new THEN k ELSE kind[l]
    BY <1>1 DEF WatcherTypeOK
  <2>2. \A l \in Lines : l # new => (IsError(l)' <=> IsError(l))
    BY <2>1 DEF IsError
  <2>3. k # Unset
    BY WatcherNumbers
  <2>4. \A l \in Lines : l \in 1..(new - 1) <=> kind[l] # Unset
    BY <1>1 DEF Written
  <2>5. \A l : l \in Written' <=> l \in Lines /\ (l = new \/ l \in 1..(new - 1))
    BY <2>1, <2>3, <2>4 DEF Written
  <2>6. Written' = 1..new
    <3>1. MaxLines \in Nat /\ new \in 1..MaxLines
      BY WatcherNumbers DEF Lines
    <3>2. \A l : l \in Written' <=> l \in 1..MaxLines /\ (l = new \/ l \in 1..(new - 1))
      BY <2>5 DEF Lines
    <3>3. \A l : l \in 1..MaxLines /\ (l = new \/ l \in 1..(new - 1)) <=> l \in 1..new
      BY <3>1
    <3> QED
      BY <3>2, <3>3
  <2> QED
    BY <2>1, <2>2, <2>6
<1>7. LogInOrder'
  <2>1. Written' = 1..new /\ new \in 0..MaxLines
    BY <1>6, WatcherNumbers DEF Lines
  <2>2. \A d \in Days : \A i \in DOMAIN log'[d] : log'[d][i] \in Written' /\ i <= log'[d][i]
    <3>1. \A d \in Days : \A i \in 1..Len(log[d]) : log[d][i] \in 1..(new - 1) /\ i <= log[d][i]
      BY <1>1, <1>5 DEF LogInOrder
    <3>2. Len(log[today]) + 1 <= new /\ new \in 1..new
      BY <1>1, <1>3, <1>5
    <3>3. ASSUME NEW d \in Days, NEW i \in 1..Len(log'[d])
          PROVE  log'[d][i] \in 1..new /\ i <= log'[d][i]
      <4>1. CASE i \in 1..Len(log[d]) /\ log'[d][i] = log[d][i]
        <5>1. log[d][i] \in 1..(new - 1) /\ i <= log[d][i]
          BY <3>1, <4>1
        <5> QED
          BY <1>3, <4>1, <5>1
      <4>2. CASE log'[d][i] = new /\ i = Len(log[today]) + 1
        BY <3>2, <4>2
      <4> QED
        BY <1>5, <4>1, <4>2
    <3> QED
      BY <1>5, <1>6, <3>3
  <2>3. ASSUME NEW c \in Days, NEW d \in Days, NEW i \in DOMAIN log'[c], NEW j \in DOMAIN log'[d],
               log'[c][i] = log'[d][j]
        PROVE  c = d /\ i = j
    <3>1. \A e \in Days : \A m \in 1..Len(log[e]) : log[e][m] # new
      <4>1. \A e \in Days : \A m \in 1..Len(log[e]) : log[e][m] \in Written
        BY <1>5 DEF LogInOrder
      <4>2. new \notin Written
        BY <1>1, <1>3
      <4> QED
        BY <4>1, <4>2
    <3>2. i \in 1..Len(log'[c]) /\ j \in 1..Len(log'[d])
      BY <1>5
    <3>3. CASE i \in 1..Len(log[c]) /\ j \in 1..Len(log[d])
      <4>1. log[c][i] = log[d][j] /\ i \in DOMAIN log[c] /\ j \in DOMAIN log[d]
        BY <1>5, <2>3, <3>3
      <4> QED
        BY <4>1 DEF LogInOrder
    <3>4. CASE i \notin 1..Len(log[c]) \/ j \notin 1..Len(log[d])
      <4>1. \/ i \in 1..Len(log[c]) /\ log'[c][i] = log[c][i]
            \/ log'[c][i] = new /\ c = today /\ i = Len(log[today]) + 1
        BY <1>5, <3>2
      <4>2. \/ j \in 1..Len(log[d]) /\ log'[d][j] = log[d][j]
            \/ log'[d][j] = new /\ d = today /\ j = Len(log[today]) + 1
        BY <1>5, <3>2
      <4> QED
        BY <2>3, <3>1, <3>4, <4>1, <4>2
    <3> QED
      BY <3>3, <3>4
  <2>4. \A d \in Days : d > today => log'[d] = <<>>
    <3>1. \A d \in Days : d > today => log[d] = <<>> /\ d # today
      BY <1>3 DEF LogInOrder
    <3> QED
      BY <1>1, <3>1
  <2>5. log'[today] # <<>> /\ partial' = log'[today][Len(log'[today])]
    BY <1>1, <1>3, <1>5, EmptySeq
  <2> QED
    BY <1>1, <1>2, <1>6, <2>1, <2>2, <2>3, <2>4, <2>5 DEF LogInOrder
<1>8. \A l \in told \union muted \union lost \union events \union skipped : l \in Lines /\ l # new
  BY <1>1 DEF DecidedErrors, WatcherTypeOK
<1>9. DecidedErrors'
  BY <1>1, <1>2, <1>6 DEF DecidedErrors
<1>10. FilesOfDay'
  <2>1. day <= today /\ (pc = "read" => position[day] = 0)
        /\ (pc \in {"writeReset", "writePosition"} => position[day] = Torn)
        /\ (pc = "openPosition" => position[day] # Torn /\ LastLine(day) <= upTo)
        /\ (pc \in {"openAlerts", "writeAlerts", "push"} => position[day] = upTo)
        /\ \A d \in Days : d > day => position[d] = Unset /\ alerted[d] = Never
    BY DEF FilesOfDay
  <2>2. \A d \in Days : d > day => \A i \in 1..Len(log'[d]) : seen[log'[d][i]] = Unset
    BY <1>1, <1>5 DEF FilesOfDay
  <2> QED
    BY <1>2, <1>5, <2>1, <2>2 DEF FilesOfDay, Never, LastLine
<1>11. /\ Mark' = Mark /\ Watched' = Watched /\ Memory' = Memory /\ Deciding' = Deciding
       /\ Mark \in Int
  BY <1>2, <1>3, WatcherNumbers DEF Mark, Watched, Memory, Deciding, LastLine, WatcherTypeOK, Torn
<1>12. UndecidedBeyond'
  <2> SUFFICES ASSUME Watched, Mark # Torn, NEW i \in 1..Len(log'[day]), i > Mark \/ Len(log'[day]) < Mark
               PROVE  seen[log'[day][i]] = Unset
    BY <1>2, <1>3, <1>5, <1>11 DEF UndecidedBeyond
  <2>1. CASE i \in 1..Len(log[day])
    BY <1>3, <1>5, <1>11, <2>1 DEF UndecidedBeyond
  <2>2. CASE i > Len(log[day])
    BY <1>1, <1>3, <1>5, <2>2
  <2> QED
    BY <1>3, <1>5, <2>1, <2>2
<1>13. DealtWith'
  <2> SUFFICES ASSUME ~blind, ~rotated, day = today
               PROVE  /\ Mark <= Len(log'[day])
                      /\ \A i \in 1..Mark : kind'[log'[day][i]] \in Fingerprints =>
                            log'[day][i] \in told \union muted \union lost \union events \union skipped
    BY <1>2, <1>3, <1>11 DEF DealtWith, IsError
  <2>1. /\ Mark <= Len(log[day])
        /\ \A i \in 1..Mark : IsError(log[day][i]) =>
              log[day][i] \in told \union muted \union lost \union events \union skipped
    BY DEF DealtWith
  <2>2. ASSUME NEW i \in 1..Mark
        PROVE  log'[day][i] = log[day][i] /\ log[day][i] \in Lines /\ log[day][i] # new
    <3>1. i \in 1..Len(log[day])
      BY <1>3, <1>5, <1>11, <2>1
    <3> QED
      BY <1>1, <1>3, <1>5, <3>1, LogFiles DEF LogInOrder
  <2>3. Mark <= Len(log'[day])
    BY <1>3, <1>5, <1>11, <2>1
  <2>4. ASSUME NEW i \in 1..Mark, kind'[log'[day][i]] \in Fingerprints
        PROVE  log'[day][i] \in told \union muted \union lost \union events \union skipped
    <3>1. log'[day][i] = log[day][i] /\ IsError(log[day][i])
      BY <1>2, <1>6, <2>2, <2>4 DEF IsError
    <3> QED
      BY <2>1, <3>1
  <2> QED
    BY <2>3, <2>4
<1>14. HandedOver'
  BY <1>2, <1>11 DEF HandedOver
<1>15. \A l \in told \union muted \union lost \union events \union skipped : kind'[l] = kind[l]
  BY <1>6, <1>8
<1>16. AlertsOfEvents'
  BY <1>2, <1>11, <1>15 DEF AlertsOfEvents
<1>17. MutedByAlert' /\ SkippedByAlert'
  BY <1>2, <1>15 DEF MutedByAlert, SkippedByAlert, Silences
<1>18. EventsRemembered' /\ EventsApart'
  BY <1>2, <1>11, <1>15 DEF EventsRemembered, EventsApart, Repeats, Apart
<1>19. DecidedNow'
  <2>1. ASSUME NEW i \in DOMAIN log'[day], seen[log'[day][i]] # Unset
        PROVE  i \in DOMAIN log[day] /\ log'[day][i] = log[day][i]
    <3>1. log'[day][i] # new
      BY <1>1, <2>1
    <3> QED
      BY <1>3, <1>5, <3>1
  <2> QED
    BY <1>2, <2>1 DEF DecidedNow, LastLine
<1> QED
  BY <1>4, <1>7, <1>9, <1>10, <1>12, <1>13, <1>14, <1>16, <1>17, <1>18, <1>19

\* What is known of decisions stays true as long as none is taken or recorded.
LEMMA DecisionsKept ==
    ASSUME WatcherIInv, Deciding' => Deciding, pc = "push" => pc' = "push",
           UNCHANGED <<kind, seen, told, events, muted, lost, skipped, cache, alerted, faults>>
    PROVE  AlertsOfEvents' /\ MutedByAlert' /\ SkippedByAlert' /\ EventsApart'
<1>1. AlertsOfEvents'
  BY DEF WatcherIInv, AlertsOfEvents
<1>2. MutedByAlert' /\ SkippedByAlert'
  BY DEF WatcherIInv, MutedByAlert, SkippedByAlert, Silences
<1>3. EventsApart'
  BY DEF WatcherIInv, EventsApart, Repeats, Apart
<1> QED
  BY <1>1, <1>2, <1>3

\* The alerts are stored anew: nothing is stored but what was, or is in the cache.
LEMMA AlertsStored ==
    ASSUME WatcherIInv, Deciding, pc # "push",
           UNCHANGED <<kind, seen, told, events, lost, cache>>,
           \A d \in Days : \A f \in Fingerprints : alerted'[d][f] # Unset =>
              \/ alerted'[d][f] = alerted[d][f]
              \/ pc' = "push" /\ alerted'[d][f] = cache[f]
    PROVE  AlertsOfEvents'
<1>1. \A f \in Fingerprints : cache[f] # Unset =>
          \E e \in told \union lost \union events : kind[e] = f /\ seen[e].at = cache[f]
  BY DEF WatcherIInv, AlertsOfEvents
<1>2. ASSUME NEW d \in Days, NEW f \in Fingerprints, alerted'[d][f] # Unset
      PROVE  \E e \in told \union lost \union events :
                (e \in events => pc' = "push") /\ kind[e] = f /\ seen[e].at = alerted'[d][f]
  <2>1. CASE alerted'[d][f] = alerted[d][f]
    <3>1. PICK e \in told \union lost \union events :
             (e \in events => pc = "push") /\ kind[e] = f /\ seen[e].at = alerted[d][f]
      BY <1>2, <2>1 DEF WatcherIInv, AlertsOfEvents
    <3> QED
      BY <2>1, <3>1
  <2>2. CASE pc' = "push" /\ alerted'[d][f] = cache[f]
    BY <1>1, <1>2, <2>2
  <2> QED
    BY <1>2, <2>1, <2>2
<1> QED
  BY <1>1, <1>2 DEF AlertsOfEvents

\* Log: a line is finished, a file is truncated, time passes, a day begins.
LEMMA LogIInv ==
    ASSUME WatcherIInv, FinishLine \/ Rotate \/ TimePasses \/ Midnight
    PROVE  WatcherIInv'
<1> USE DEF WatcherIInv
<1>1. /\ UNCHANGED <<kind, position, alerted, pc, day, upTo, cache, events, skipped, seen, told, muted, lost, blind, faults>>
      /\ Deciding' = Deciding /\ Mark' = Mark /\ Memory' = Memory
  <2>1. UNCHANGED <<kind, position, alerted, pc, day, upTo, cache, events, skipped, seen, told, muted, lost, blind, faults>>
    BY DEF FinishLine, Rotate, TimePasses, Midnight, fileVars, runVars, historyVars
  <2> QED
    BY <2>1 DEF Deciding, Mark, Memory, LastLine
<1>2. AlertsOfEvents' /\ MutedByAlert' /\ SkippedByAlert' /\ EventsApart'
  <2>1. UNCHANGED <<pc, kind, seen, told, events, muted, lost, skipped, cache, alerted, faults>>
    BY <1>1
  <2> QED
    BY <1>1, <2>1, DecisionsKept
<1>3. HandedOver' /\ DecidedNow'
  <2>1. \A i \in DOMAIN log'[day] : i \in DOMAIN log[day] /\ log'[day][i] = log[day][i]
    <3>1. day \in Days /\ log \in [Days -> Seq(Lines)]
      BY DEF WatcherTypeOK
    <3>2. CASE Rotate
      BY <3>1, <3>2, EmptySeq DEF Rotate
    <3>3. CASE ~Rotate
      BY <3>3 DEF FinishLine, TimePasses, Midnight
    <3> QED
      BY <3>2, <3>3
  <2> QED
    BY <1>1, <2>1 DEF HandedOver, DecidedNow, LastLine
<1>4. today \in Nat /\ day \in Nat /\ now \in Nat /\ day \in Days /\ today \in Days
  BY WatcherNumbers DEF WatcherTypeOK
<1>5. CASE FinishLine
  <2>1. partial' = Unset /\ UNCHANGED <<today, now, log, rotations, rotated>>
    BY <1>5 DEF FinishLine, historyVars
  <2>2. WatcherTypeOK'
    BY <1>1, <2>1 DEF WatcherTypeOK
  <2>3. LogInOrder' /\ DecidedErrors'
    BY <1>1, <2>1 DEF LogInOrder, DecidedErrors, Written, IsError
  <2>4. FilesOfDay'
    BY <1>1, <2>1 DEF FilesOfDay, Never, LastLine
  <2>5. UndecidedBeyond' /\ DealtWith'
    BY <1>1, <2>1 DEF UndecidedBeyond, DealtWith, Watched, IsError
  <2>6. EventsRemembered'
    BY <1>1, <2>1 DEF EventsRemembered, Watched
  <2> QED
    BY <1>2, <1>3, <2>2, <2>3, <2>4, <2>5, <2>6
<1>6. CASE Rotate
  <2>1. /\ rotations' = rotations + 1 /\ rotations < MaxRotations /\ partial = Unset
        /\ log' = [log EXCEPT ![today] = <<>>] /\ rotated' = TRUE
        /\ UNCHANGED <<today, now, partial>>
    BY <1>6 DEF Rotate
  <2>2. log' \in [Days -> Seq(Lines)] /\ \A d \in Days : log'[d] = IF d = today THEN <<>> ELSE log[d]
    BY <1>4, <2>1, EmptySeq DEF WatcherTypeOK
  <2>3. \A d \in Days : \A i \in DOMAIN log'[d] : i \in DOMAIN log[d] /\ log'[d][i] = log[d][i]
    BY <2>2
  <2>4. WatcherTypeOK'
    <3>1. rotations' \in 0..MaxRotations
      BY <2>1, WatcherNumbers DEF WatcherTypeOK
    <3> QED
      BY <1>1, <2>1, <2>2, <3>1 DEF WatcherTypeOK
  <2>5. LogInOrder'
    BY <1>1, <1>4, <2>1, <2>2, <2>3 DEF LogInOrder, Written
  <2>6. DecidedErrors'
    BY <1>1, <2>1 DEF DecidedErrors, IsError
  <2>7. FilesOfDay'
    BY <1>1, <1>4, <2>1, <2>3 DEF FilesOfDay, Never, LastLine
  <2>8. UndecidedBeyond'
    <3>1. CASE day = today
      BY <1>1, <1>4, <2>1, <2>2, <3>1 DEF UndecidedBeyond
    <3>2. CASE day # today
      BY <1>1, <1>4, <2>1, <2>2, <3>2 DEF UndecidedBeyond, Watched
    <3> QED
      BY <3>1, <3>2
  <2>9. DealtWith' /\ EventsRemembered'
    BY <1>1, <2>1 DEF DealtWith, EventsRemembered, Watched
  <2> QED
    BY <1>2, <1>3, <2>4, <2>5, <2>6, <2>7, <2>8, <2>9
<1>7. CASE TimePasses
  <2>1. now' = now + 1 /\ now < MaxClock /\ UNCHANGED <<today, log, partial, rotations, rotated>>
    BY <1>7 DEF TimePasses, historyVars
  <2>2. WatcherTypeOK'
    <3>1. now' \in Clock
      BY <1>4, <2>1, WatcherNumbers DEF Clock
    <3> QED
      BY <1>1, <2>1, <3>1 DEF WatcherTypeOK
  <2>3. LogInOrder'
    BY <1>1, <2>1 DEF LogInOrder, Written
  <2>4. \A l \in Lines : seen[l] # Unset => seen[l].at \in Nat
    BY WatcherNumbers DEF WatcherTypeOK
  <2>5. DecidedErrors'
    BY <1>1, <1>4, <2>1, <2>4 DEF DecidedErrors, IsError
  <2>6. FilesOfDay' /\ UndecidedBeyond' /\ DealtWith'
    BY <1>1, <2>1 DEF FilesOfDay, UndecidedBeyond, DealtWith, Watched, IsError, Never, LastLine
  <2>7. EventsRemembered'
    <3>1. \A e \in told \union events : seen[e].at \in Nat
      BY <2>4 DEF DecidedErrors, WatcherTypeOK
    <3>2. \A e \in told \union events : now + 1 - seen[e].at < DedupWindow => now - seen[e].at < DedupWindow
      BY <1>4, <3>1, WatcherNumbers
    <3>3. Watched' = Watched
      BY <1>1, <2>1 DEF Watched
    <3> SUFFICES ASSUME Watched, NEW e \in told \union events,
                        seen[e].on = day, seen[e].after = faults, now + 1 - seen[e].at < DedupWindow
                 PROVE  Memory[kind[e]] # Unset /\ seen[e].at <= Memory[kind[e]]
      BY <1>1, <1>4, <2>1, <3>1, <3>3, WatcherNumbers DEF EventsRemembered
    <3> QED
      BY <3>2 DEF EventsRemembered
  <2> QED
    BY <1>2, <1>3, <2>2, <2>3, <2>5, <2>6, <2>7
<1>8. CASE Midnight
  <2>1. /\ today' = today + 1 /\ today < MaxDay /\ partial = Unset /\ rotated' = FALSE
        /\ UNCHANGED <<now, log, partial, rotations>>
    BY <1>8 DEF Midnight
  <2>2. WatcherTypeOK'
    <3>1. today + 1 \in Days
      BY <1>4, <2>1, WatcherNumbers DEF Days
    <3> QED
      BY <1>1, <2>1, <3>1 DEF WatcherTypeOK
  <2>3. \A d \in Days : d > today + 1 => d > today
    BY <1>4, WatcherNumbers
  <2>4. LogInOrder' /\ DecidedErrors'
    BY <1>1, <2>1, <2>3 DEF LogInOrder, DecidedErrors, Written, IsError
  <2>5. FilesOfDay' /\ (Watched' => Watched) /\ day # today'
    <3>1. day <= today
      BY DEF FilesOfDay
    <3>2. day <= today + 1 /\ day # today + 1
      BY <1>4, <3>1
    <3> QED
      BY <1>1, <2>1, <3>2 DEF FilesOfDay, Watched, Never, LastLine
  <2>6. UndecidedBeyond' /\ DealtWith' /\ EventsRemembered'
    BY <1>1, <2>1, <2>5 DEF UndecidedBeyond, DealtWith, EventsRemembered
  <2> QED
    BY <1>2, <1>3, <2>2, <2>4, <2>5, <2>6
<1> QED
  BY <1>5, <1>6, <1>7, <1>8

\* The position is set back, and stays so when nothing can be read.
LEMMA ResetIInv ==
    ASSUME WatcherIInv, BeginReset \/ WriteReset \/ WatchNothing \/ WatchIdle
    PROVE  WatcherIInv'
<1> USE DEF WatcherIInv
<1>1. /\ UNCHANGED <<today, now, log, kind, partial, rotations, alerted, upTo, cache, events, skipped,
                     seen, told, muted, lost, faults>>
      /\ ~Deciding /\ ~Deciding'
  BY DEF BeginReset, WriteReset, WatchNothing, WatchIdle, logVars, fileVars, runVars, historyVars, Deciding
<1>2. AlertsOfEvents' /\ MutedByAlert' /\ SkippedByAlert' /\ EventsApart'
  <2>1. pc # "push" /\ UNCHANGED <<kind, seen, told, events, muted, lost, skipped, cache, alerted, faults>>
    BY <1>1 DEF Deciding
  <2> QED
    BY <1>1, <2>1, DecisionsKept
<1>3. LogInOrder'
  BY <1>1 DEF LogInOrder, Written
<1>4. HandedOver' /\ DecidedNow'
  BY <1>1 DEF HandedOver, DecidedNow, Deciding
<1>5. today \in Nat /\ day \in Nat /\ day \in Days /\ today \in Days /\ 0 \in 0..MaxLines
  BY WatcherNumbers DEF WatcherTypeOK
<1>6. CASE BeginReset
  <2>1. /\ pc = "idle" /\ position[today] # Torn /\ Shorter(today) /\ day' = today /\ pc' = "writeReset"
        /\ position' = [position EXCEPT ![today] = Torn]
        /\ UNCHANGED <<rotated, blind>>
    BY <1>6 DEF BeginReset, historyVars
  <2>2. day = today
    <3>1. LastLine(today) # 0
      BY <1>5, <2>1, LogFiles DEF Shorter
    <3> QED
      BY <1>5, <3>1 DEF FilesOfDay, LastLine
  <2>3. WatcherTypeOK' /\ DecidedErrors'
    BY <1>1, <2>1, <2>2 DEF WatcherTypeOK, Stages, DecidedErrors, IsError
  <2>4. FilesOfDay'
    BY <1>1, <1>5, <2>1, <2>2 DEF FilesOfDay, WatcherTypeOK, Never, LastLine
  <2>5. Len(log[day]) < LastLine(day) /\ Mark = LastLine(day) /\ Mark' = 0 /\ Watched /\ Mark # Torn
    BY <1>1, <2>1, <2>2, LogFiles DEF Torn, LastLine, Shorter, Mark, Watched, Deciding
  <2>6. UndecidedBeyond'
    BY <1>1, <2>2, <2>1, <2>5 DEF UndecidedBeyond
  <2>7. DealtWith'
    BY <1>1, <1>5, <2>1, <2>2, <2>5, LogFiles DEF DealtWith
  <2>8. EventsRemembered'
    BY <1>1, <2>1, <2>2, <2>5 DEF EventsRemembered, Memory
  <2> QED
    BY <1>2, <1>3, <1>4, <2>3, <2>4, <2>6, <2>7, <2>8
<1>7. CASE WriteReset
  <2>1. /\ pc = "writeReset" /\ pc' = "read" /\ position' = [position EXCEPT ![day] = 0]
        /\ UNCHANGED <<day, rotated, blind>>
    BY <1>7 DEF WriteReset, runVars, historyVars
  <2>2. WatcherTypeOK' /\ DecidedErrors'
    BY <1>1, <1>5, <2>1 DEF WatcherTypeOK, Stages, DecidedErrors, IsError
  <2>3. FilesOfDay'
    BY <1>1, <1>5, <2>1 DEF FilesOfDay, WatcherTypeOK, Never, LastLine
  <2>4. Mark' = Mark /\ Watched' = Watched /\ Memory' = Memory
    BY <1>1, <2>1 DEF Mark, Watched, Memory
  <2>5. UndecidedBeyond' /\ DealtWith' /\ EventsRemembered'
    BY <1>1, <2>1, <2>4 DEF UndecidedBeyond, DealtWith, EventsRemembered, IsError
  <2> QED
    BY <1>2, <1>3, <1>4, <2>2, <2>3, <2>5
<1>8. CASE WatchNothing
  <2>1. pc = "read" /\ pc' = "idle" /\ rotated' = (rotated /\ day # today) /\ UNCHANGED <<day, position, blind>>
    BY <1>8 DEF WatchNothing, runVars, fileVars
  <2>2. WatcherTypeOK' /\ DecidedErrors'
    BY <1>1, <1>5, <2>1 DEF WatcherTypeOK, Stages, DecidedErrors, IsError
  <2>3. FilesOfDay'
    BY <1>1, <2>1 DEF FilesOfDay, Never, LastLine
  <2>4. Mark = 0 /\ Mark' = 0 /\ Memory' = Memory /\ Watched
    BY <1>1, <1>5, <2>1, WatcherNumbers DEF Mark, Watched, Memory, FilesOfDay, LastLine
  <2>5. UndecidedBeyond' /\ EventsRemembered'
    BY <1>1, <2>1, <2>4 DEF UndecidedBeyond, EventsRemembered, Torn
  <2>6. DealtWith'
    BY <1>1, <1>5, <2>1, <2>4, LogFiles DEF DealtWith
  <2> QED
    BY <1>2, <1>3, <1>4, <2>2, <2>3, <2>5, <2>6
<1>9. CASE WatchIdle
  <2>1. /\ pc = "idle" /\ position[today] # Torn /\ ~Shorter(today) /\ rotated' = FALSE
        /\ blind' = (blind \/ Overgrown)
        /\ UNCHANGED <<pc, day, position>>
    BY <1>9 DEF WatchIdle, runVars, fileVars
  <2>2. WatcherTypeOK' /\ DecidedErrors'
    BY <1>1, <2>1 DEF WatcherTypeOK, DecidedErrors, IsError, Overgrown
  <2>3. FilesOfDay'
    BY <1>1, <2>1 DEF FilesOfDay, Never, LastLine
  <2>4. Mark' = Mark /\ Watched' = Watched /\ Memory' = Memory
    BY <1>1, <2>1 DEF Mark, Watched, Memory, LastLine
  <2>5. UndecidedBeyond' /\ EventsRemembered'
    BY <1>1, <2>1, <2>4 DEF UndecidedBeyond, EventsRemembered
  <2>6. DealtWith'
    <3> SUFFICES ASSUME ~blind, ~Overgrown, day = today
                 PROVE  /\ Mark <= Len(log[day])
                        /\ \A i \in 1..Mark : IsError(log[day][i]) =>
                              log[day][i] \in told \union muted \union lost \union events \union skipped
      BY <1>1, <2>1, <2>4 DEF DealtWith, IsError
    <3>1. CASE ~rotated
      BY <3>1 DEF DealtWith
    <3>2. CASE rotated
      <4>1. Mark = LastLine(today) /\ LastLine(today) \in Nat /\ Len(log[today]) \in Nat
        <5>1. position[today] \in 0..MaxLines \union {Unset}
          BY <1>5, <2>1 DEF WatcherTypeOK
        <5>2. LastLine(today) \in Nat
          BY <5>1, WatcherNumbers DEF LastLine
        <5>3. Len(log[today]) \in Nat
          BY <1>5, LogFiles
        <5> QED
          BY <1>1, <2>1, <5>2, <5>3 DEF Mark
      <4>2. LastLine(today) = 0
        BY <2>1, <3>2, <4>1 DEF Overgrown, Shorter
      <4> QED
        BY <4>1, <4>2
    <3> QED
      BY <3>1, <3>2
  <2> QED
    BY <1>2, <1>3, <1>4, <2>2, <2>3, <2>5, <2>6
<1> QED
  BY <1>6, <1>7, <1>8, <1>9

\* What is stored of alerts: what is within the window is kept.
LEMMA FreshKept ==
    ASSUME NEW stored \in [Fingerprints -> AlertTimes]
    PROVE  /\ Fresh(stored) \in [Fingerprints -> AlertTimes]
           /\ \A f \in Fingerprints :
                /\ Fresh(stored)[f] # Unset =>
                      Fresh(stored)[f] = stored[f] /\ now - stored[f] < DedupWindow
                /\ stored[f] # Unset /\ now - stored[f] < DedupWindow => Fresh(stored)[f] = stored[f]
  BY DEF Fresh, AlertTimes

\* watch() stores its position and its alerts.
LEMMA StoreIInv ==
    ASSUME WatcherIInv, OpenPosition \/ WritePosition \/ OpenAlerts \/ WriteAlerts
    PROVE  WatcherIInv'
<1> USE DEF WatcherIInv
<1>1. /\ UNCHANGED <<today, now, log, kind, partial, rotations, day, upTo, cache, events, skipped,
                     seen, told, muted, lost, rotated, blind, faults>>
      /\ Deciding /\ Deciding' /\ Mark' = Mark /\ Watched /\ Watched'
  <2>1. UNCHANGED <<today, now, log, kind, partial, rotations, day, upTo, cache, events, skipped,
                     seen, told, muted, lost, rotated, blind, faults>>
    BY DEF OpenPosition, WritePosition, OpenAlerts, WriteAlerts, logVars, runVars, historyVars
  <2> QED
    BY <2>1 DEF OpenPosition, WritePosition, OpenAlerts, WriteAlerts, Deciding, Mark, Watched
<1>2. day \in Days /\ upTo \in 0..MaxLines
  BY DEF WatcherTypeOK
<1>3. LogInOrder' /\ DecidedErrors' /\ HandedOver' /\ DecidedNow'
  <2>1. pc' # "openPosition"
    BY DEF OpenPosition, WritePosition, OpenAlerts, WriteAlerts
  <2> QED
    BY <1>1, <2>1 DEF LogInOrder, Written, DecidedErrors, IsError, HandedOver, DecidedNow
<1>4. UndecidedBeyond' /\ DealtWith'
  BY <1>1 DEF UndecidedBeyond, DealtWith, IsError
<1>5. MutedByAlert' /\ SkippedByAlert' /\ EventsApart'
  BY <1>1 DEF MutedByAlert, SkippedByAlert, Silences, EventsApart, Repeats, Apart
<1>6. CASE OpenPosition \/ WritePosition
  <2>1. /\ \E p \in {upTo, Torn} : position' = [position EXCEPT ![day] = p]
        /\ WritePosition => position' = [position EXCEPT ![day] = upTo]
        /\ OpenPosition => position' = [position EXCEPT ![day] = Torn]
        /\ alerted' = alerted
        /\ \/ pc = "openPosition" /\ pc' = "writePosition" /\ OpenPosition
           \/ pc = "writePosition" /\ pc' = "openAlerts" /\ WritePosition
    BY <1>6 DEF OpenPosition, WritePosition
  <2>2. WatcherTypeOK'
    BY <1>1, <1>2, <2>1 DEF WatcherTypeOK, Stages
  <2>3. FilesOfDay'
    <3>1. \A d \in Days : d # day => position'[d] = position[d]
      BY <1>2, <2>1 DEF WatcherTypeOK
    <3>2. day \in Nat /\ (WritePosition => position'[day] = upTo) /\ (OpenPosition => position'[day] = Torn)
      BY <1>2, <2>1, WatcherNumbers DEF WatcherTypeOK
    <3>3. /\ pc' \notin {"read", "writeReset", "openPosition", "writeAlerts", "push"}
          /\ pc' = "openAlerts" => position'[day] = upTo
          /\ pc' = "writePosition" => position'[day] = Torn
      BY <2>1, <3>2
    <3> QED
      BY <1>1, <2>1, <3>1, <3>2, <3>3, WatcherNumbers DEF FilesOfDay, Never
  <2>4. Memory' = Memory
    BY <1>1, <2>1 DEF Memory
  <2>5. AlertsOfEvents' /\ EventsRemembered'
    BY <1>1, <2>1, <2>4 DEF AlertsOfEvents, EventsRemembered
  <2> QED
    BY <1>3, <1>4, <1>5, <2>2, <2>3, <2>5
<1>7. CASE OpenAlerts
  <2>1. /\ alerted' = [alerted EXCEPT ![day] = Never] /\ position' = position
        /\ pc = "openAlerts" /\ pc' = "writeAlerts"
    BY <1>7 DEF OpenAlerts
  <2>2. Never \in [Fingerprints -> AlertTimes] /\ \A f \in Fingerprints : Never[f] = Unset
    BY DEF Never, AlertTimes
  <2>3. WatcherTypeOK'
    BY <1>1, <1>2, <2>1, <2>2 DEF WatcherTypeOK, Stages
  <2>4. \A d \in Days : alerted'[d] = IF d = day THEN Never ELSE alerted[d]
    BY <2>1 DEF WatcherTypeOK
  <2>5. FilesOfDay'
    BY <1>1, <1>2, <2>1, <2>4 DEF FilesOfDay, Never
  <2>6. Memory' = Memory
    BY <1>1, <2>1 DEF Memory
  <2>7. AlertsOfEvents'
    BY <1>1, <2>1, <2>2, <2>4, AlertsStored
  <2>8. EventsRemembered'
    BY <1>1, <2>6 DEF EventsRemembered
  <2> QED
    BY <1>3, <1>4, <1>5, <2>3, <2>5, <2>7, <2>8
<1>8. CASE WriteAlerts
  <2>1. /\ alerted' = [alerted EXCEPT ![day] = Fresh(cache)] /\ position' = position
        /\ pc = "writeAlerts" /\ pc' = "push"
    BY <1>8 DEF WriteAlerts
  <2> DEFINE kept == Fresh(cache)
  <2>2. /\ kept \in [Fingerprints -> AlertTimes]
        /\ \A f \in Fingerprints :
              /\ kept[f] # Unset => kept[f] = cache[f]
              /\ cache[f] # Unset /\ now - cache[f] < DedupWindow => kept[f] = cache[f]
    BY FreshKept DEF WatcherTypeOK
  <2>3. \A d \in Days : alerted'[d] = IF d = day THEN kept ELSE alerted[d]
    BY <2>1 DEF WatcherTypeOK
  <2> HIDE DEF kept
  <2>4. WatcherTypeOK'
    <3>1. alerted' \in [Days -> [Fingerprints -> AlertTimes]]
      BY <2>1, <2>2, <2>3 DEF WatcherTypeOK
    <3> QED
      BY <1>1, <2>1, <3>1 DEF WatcherTypeOK, Stages
  <2>5. FilesOfDay'
    BY <1>1, <1>2, <2>1, <2>3, WatcherNumbers DEF FilesOfDay, Never
  <2>6. AlertsOfEvents'
    BY <1>1, <2>1, <2>2, <2>3, AlertsStored
  <2>7. EventsRemembered'
    <3>1. Memory = cache /\ Memory' = kept
      BY <1>1, <1>2, <2>1, <2>3 DEF Memory
    <3> SUFFICES ASSUME NEW e \in told \union events,
                        seen[e].on = day, seen[e].after = faults, now - seen[e].at < DedupWindow
                 PROVE  kept[kind[e]] # Unset /\ seen[e].at <= kept[kind[e]]
      BY <1>1, <3>1 DEF EventsRemembered
    <3>2. cache[kind[e]] # Unset /\ seen[e].at <= cache[kind[e]]
      BY <1>1, <3>1 DEF EventsRemembered
    <3>3. kind[e] \in Fingerprints /\ seen[e] # Unset /\ e \in Lines
      BY DEF DecidedErrors, WatcherTypeOK, IsError
    <3>4. seen[e].at \in Nat /\ cache[kind[e]] \in Nat /\ now \in Nat
      BY <3>2, <3>3, WatcherNumbers DEF WatcherTypeOK, AlertTimes
    <3>5. now - cache[kind[e]] < DedupWindow
      BY <3>2, <3>4, WatcherNumbers
    <3> QED
      BY <2>2, <3>2, <3>3, <3>5
  <2> QED
    BY <1>3, <1>4, <1>5, <2>4, <2>5, <2>6, <2>7
<1> QED
  BY <1>6, <1>7, <1>8

\* The caller pushes the events.
LEMMA PushIInv ==
    ASSUME WatcherIInv, Push
    PROVE  WatcherIInv'
<1> USE DEF WatcherIInv
<1>1. /\ pc = "push" /\ pc' = "idle" /\ told' = told \union events /\ muted' = muted \union skipped
      /\ events' = {} /\ skipped' = {}
      /\ UNCHANGED <<today, now, log, kind, partial, rotations, position, alerted, day, upTo, cache,
                     seen, lost, rotated, blind, faults>>
  BY DEF Push, logVars, fileVars
<1>2. /\ Deciding /\ ~Deciding' /\ Memory' = Memory /\ Watched
      /\ position[day] = upTo /\ Mark' = Mark
  <2>1. position[day] = upTo /\ upTo # Unset
    BY <1>1, WatcherNumbers DEF FilesOfDay, WatcherTypeOK
  <2> QED
    BY <1>1, <2>1 DEF Deciding, Memory, Watched, Mark, LastLine
<1>3. WatcherTypeOK' /\ LogInOrder' /\ DecidedErrors' /\ FilesOfDay'
  <2>1. WatcherTypeOK'
    BY <1>1 DEF WatcherTypeOK, Stages
  <2>2. LogInOrder' /\ FilesOfDay'
    BY <1>1 DEF LogInOrder, Written, FilesOfDay, Never
  <2>3. DecidedErrors'
    BY <1>1 DEF DecidedErrors, IsError
  <2> QED
    BY <2>1, <2>2, <2>3
<1>4. UndecidedBeyond' /\ DealtWith' /\ HandedOver' /\ DecidedNow'
  BY <1>1, <1>2 DEF UndecidedBeyond, DealtWith, HandedOver, DecidedNow, IsError
<1>5. AlertsOfEvents' /\ EventsRemembered' /\ EventsApart'
  BY <1>1, <1>2 DEF AlertsOfEvents, EventsRemembered, EventsApart, Repeats, Apart
<1>6. MutedByAlert' /\ SkippedByAlert'
  BY <1>1 DEF MutedByAlert, SkippedByAlert, Silences
<1> QED
  BY <1>3, <1>4, <1>5, <1>6

\* A read or a write fails or the process dies: from then on only the files
\* count.  What the poll had decided on is lost, or will be read again.
LEMMA FaultIInv ==
    ASSUME WatcherIInv, Fault
    PROVE  WatcherIInv'
<1> USE DEF WatcherIInv
<1> DEFINE decided == events \union skipped
<1>1. /\ pc # "idle" /\ pc' = "idle" /\ faults' = faults + 1 /\ faults < MaxFaults
      /\ events' = {} /\ skipped' = {}
      /\ UNCHANGED <<today, now, log, kind, partial, rotations, position, day, upTo, cache,
                     told, muted, rotated, blind>>
      /\ Watched /\ ~Deciding'
  BY DEF Fault, logVars, Watched, Deciding
<1>2. day \in Days /\ faults \in Nat /\ upTo \in 0..MaxLines /\ upTo \in Nat /\ today \in Days
  BY WatcherNumbers DEF WatcherTypeOK
\* What is stored of alerts is of those before, or of the cache.
<1>3. /\ alerted' \in [Days -> [Fingerprints -> AlertTimes]]
      /\ \A d \in Days : d # day => alerted'[d] = alerted[d]
      /\ \A f \in Fingerprints : alerted'[day][f] # Unset =>
            \/ alerted'[day][f] = alerted[day][f]
            \/ pc = "writeAlerts" /\ alerted'[day][f] = cache[f]
      /\ pc # "writeAlerts" => alerted' = alerted
  <2>1. CASE UNCHANGED alerted
    BY <2>1 DEF WatcherTypeOK
  <2>2. CASE ~UNCHANGED alerted
    <3>1. pc = "writeAlerts"
      BY <2>2 DEF Fault
    <3>2. PICK kept \in SUBSET Fingerprints : alerted' = [alerted EXCEPT ![day] =
             [f \in Fingerprints |-> IF f \in kept THEN Fresh(cache)[f] ELSE Unset]]
      BY <2>2 DEF Fault
    <3> DEFINE part == [f \in Fingerprints |-> IF f \in kept THEN Fresh(cache)[f] ELSE Unset]
    <3>3. /\ Fresh(cache) \in [Fingerprints -> AlertTimes]
          /\ \A f \in Fingerprints : Fresh(cache)[f] # Unset => Fresh(cache)[f] = cache[f]
      BY FreshKept DEF WatcherTypeOK
    <3>4. part \in [Fingerprints -> AlertTimes] /\ \A f \in Fingerprints : part[f] # Unset => part[f] = cache[f]
      BY <3>3 DEF AlertTimes
    <3>5. alerted' = [alerted EXCEPT ![day] = part]
      BY <3>2
    <3> HIDE DEF part
    <3>6. /\ alerted' \in [Days -> [Fingerprints -> AlertTimes]] /\ alerted'[day] = part
          /\ \A d \in Days : d # day => alerted'[d] = alerted[d]
      BY <1>2, <3>4, <3>5 DEF WatcherTypeOK
    <3> QED
      BY <3>1, <3>4, <3>6
  <2> QED
    BY <2>1, <2>2
<1>4. faults' \in 0..MaxFaults
  BY <1>1, <1>2, WatcherNumbers
<1>5. \A l \in told \union muted \union lost \union decided :
          l \in Lines /\ seen[l] # Unset /\ seen[l].after \in 0..faults /\ IsError(l)
  <2> SUFFICES ASSUME NEW l \in told \union muted \union lost \union decided
               PROVE  l \in Lines /\ seen[l] # Unset /\ seen[l].after \in 0..faults /\ IsError(l)
    OBVIOUS
  <2>1. l \in Lines /\ seen[l] # Unset
    BY DEF DecidedErrors, WatcherTypeOK
  <2>2. seen[l] \in [at : Clock, on : Days, after : 0..MaxFaults]
    BY <2>1 DEF WatcherTypeOK
  <2>3. IsError(l) /\ seen[l].after <= faults
    BY <2>1 DEF DecidedErrors
  <2>4. seen[l].after \in 0..MaxFaults
    BY <2>2
  <2> QED
    BY <1>2, <2>1, <2>3, <2>4
<1>6. SkippedByAlert' /\ HandedOver' /\ DecidedNow' /\ LogInOrder'
  BY <1>1 DEF SkippedByAlert, HandedOver, DecidedNow, LogInOrder, Written
\* No event was decided on since the fault.
<1>7. EventsRemembered'
  <2>1. ASSUME NEW e \in told PROVE seen'[e].after # faults'
    <3>1. seen'[e] = seen[e]
      BY <1>5 DEF Fault, DecidedNow
    <3> QED
      BY <1>1, <1>2, <1>5, <3>1
  <2> QED
    BY <1>1, <2>1 DEF EventsRemembered
<1>8. CASE pc = "openPosition"
  <2>1. /\ seen' = [l \in Lines |-> IF l \in decided THEN Unset ELSE seen[l]]
        /\ lost' = lost
    BY <1>8 DEF Fault
  <2> HIDE DEF decided
  <2>2. \A l \in told \union muted \union lost : l \notin decided /\ seen'[l] = seen[l]
    BY <1>5, <2>1 DEF DecidedNow, decided
  <2>3. WatcherTypeOK'
    BY <1>1, <1>3, <1>4, <2>1 DEF WatcherTypeOK, Stages
  <2>4. DecidedErrors'
    <3>1. \A l \in Lines : seen'[l] # Unset => seen'[l] = seen[l]
      BY <2>1
    <3>2. \A l \in Lines : seen[l] # Unset => seen[l].after \in 0..faults
      BY <1>2, WatcherNumbers DEF DecidedErrors, WatcherTypeOK
    <3>3. \A l \in Lines : seen[l] # Unset => IsError(l) /\ seen[l].at <= now /\ seen[l].on <= day
      BY DEF DecidedErrors
    <3> QED
      BY <1>1, <1>2, <1>5, <2>1, <2>2, <3>1, <3>2, <3>3 DEF DecidedErrors, IsError
  <2>5. alerted' = alerted /\ position[day] # Torn /\ LastLine(day) <= upTo
    BY <1>3, <1>8 DEF FilesOfDay
  <2>6. \A d \in Days : \A i \in DOMAIN log[d] : log[d][i] \in Lines
    BY LogFiles
  <2>7. FilesOfDay'
    BY <1>1, <2>1, <2>5, <2>6 DEF FilesOfDay, Never
  <2>8. Mark = upTo /\ Mark' = LastLine(day) /\ Mark # Torn /\ LastLine(day) \in Nat
    BY <1>1, <1>2, <1>8, <2>5, WatcherNumbers DEF Mark, Deciding, LastLine, WatcherTypeOK, Torn
  <2>9. /\ DOMAIN log[day] = 1..Len(log[day]) /\ Len(log[day]) \in Nat
        /\ \A i \in DOMAIN log[day] : seen[log[day][i]] # Unset => (log[day][i] \in decided <=> i > LastLine(day))
    BY <1>2, <1>8, LogFiles DEF DecidedNow, decided
  <2>10. UndecidedBeyond'
    <3> SUFFICES ASSUME NEW i \in DOMAIN log[day], i > LastLine(day) \/ Len(log[day]) < LastLine(day)
                 PROVE  seen'[log[day][i]] = Unset
      BY <1>1, <2>8 DEF UndecidedBeyond
    <3>1. CASE i > LastLine(day)
      BY <1>2, <2>1, <2>6, <2>9, <3>1
    <3>2. CASE Len(log[day]) < LastLine(day)
      <4>1. Len(log[day]) < upTo
        BY <1>2, <2>5, <2>8, <2>9, <3>2
      <4>2. seen[log[day][i]] = Unset
        BY <1>1, <2>8, <4>1 DEF UndecidedBeyond
      <4> QED
        BY <1>2, <2>1, <2>6, <4>2
    <3> QED
      BY <3>1, <3>2
  <2>11. DealtWith'
    <3> SUFFICES ASSUME ~blind, ~rotated, day = today
                 PROVE  /\ LastLine(day) <= Len(log[day])
                        /\ \A i \in 1..LastLine(day) : IsError(log[day][i]) =>
                              log[day][i] \in told \union muted \union lost
      BY <1>1, <2>1, <2>8 DEF DealtWith, IsError
    <3>1. /\ upTo <= Len(log[day])
          /\ \A i \in 1..upTo : IsError(log[day][i]) =>
                log[day][i] \in told \union muted \union lost \union decided
      BY <2>8 DEF DealtWith, decided
    <3>2. ASSUME NEW i \in 1..LastLine(day), IsError(log[day][i])
          PROVE  log[day][i] \in told \union muted \union lost
      <4>1. i \in 1..upTo /\ i \in 1..Len(log[day]) /\ ~(i > LastLine(day))
        BY <1>2, <2>5, <2>8, <2>9, <3>1
      <4>2. log[day][i] \in told \union muted \union lost \union decided
        BY <3>1, <3>2, <4>1
      <4>3. seen[log[day][i]] # Unset
        BY <1>5, <4>2
      <4> QED
        BY <2>9, <4>1, <4>2, <4>3
    <3> QED
      BY <1>2, <2>5, <2>8, <2>9, <3>1, <3>2
  <2>12. AlertsOfEvents'
    BY <1>1, <1>8, <2>1, <2>2, <2>5 DEF AlertsOfEvents
  <2>13. MutedByAlert'
    <3>1. \A l \in muted : \E e \in told \union lost : Silences(e, l)
      BY DEF MutedByAlert
    <3>2. \A e \in told \union lost : \A l \in muted : Silences(e, l)' <=> Silences(e, l)
      BY <1>1, <2>2 DEF Silences
    <3> QED
      BY <1>1, <2>1, <3>1, <3>2 DEF MutedByAlert
  <2>14. EventsApart'
    BY <1>1, <2>2 DEF EventsApart, Repeats, Apart
  <2> QED
    BY <1>6, <1>7, <2>3, <2>4, <2>7, <2>10, <2>11, <2>12, <2>13, <2>14
<1>9. CASE pc # "openPosition"
  <2>1. seen' = seen /\ lost' = lost \union decided
    BY <1>9 DEF Fault
  <2>2. WatcherTypeOK'
    BY <1>1, <1>3, <1>4, <2>1 DEF WatcherTypeOK, Stages
  <2>3. DecidedErrors'
    <3>1. \A l \in Lines : seen[l] # Unset => seen[l].after \in 0..faults
      BY <1>2, WatcherNumbers DEF DecidedErrors, WatcherTypeOK
    <3> QED
      BY <1>1, <1>2, <2>1, <3>1 DEF DecidedErrors, IsError
  <2>4. FilesOfDay'
    BY <1>1, <1>2, <1>3, <2>1, WatcherNumbers DEF FilesOfDay, Never
  <2>5. Mark' = Mark \/ Mark' = Torn
    <3>1. pc \in {"writeReset", "read", "writePosition", "openAlerts", "writeAlerts", "push"}
      BY <1>1, <1>9 DEF WatcherTypeOK, Stages
    <3>2. Torn # Unset /\ upTo # Unset /\ 0 # Unset
      BY <1>2, WatcherNumbers, WatcherAssumption DEF Torn
    <3> QED
      BY <1>1, <3>1, <3>2 DEF Mark, Deciding, LastLine, FilesOfDay
  <2>6. UndecidedBeyond'
    BY <1>1, <2>1, <2>5 DEF UndecidedBeyond
  <2>7. DealtWith'
    <3>1. CASE Mark' = Mark
      BY <1>1, <2>1, <3>1 DEF DealtWith, IsError
    <3>2. CASE Mark' = Torn
      <4>1. Len(log[day]) \in Nat
        BY <1>2, LogFiles
      <4> QED
        BY <1>1, <2>1, <3>2, <4>1 DEF DealtWith, Torn
    <3> QED
      BY <2>5, <3>1, <3>2
  <2>8. AlertsOfEvents'
    <3> SUFFICES ASSUME NEW d \in Days, NEW f \in Fingerprints, alerted'[d][f] # Unset
                 PROVE  \E e \in told \union lost \union decided : kind[e] = f /\ seen[e].at = alerted'[d][f]
      BY <1>1, <2>1 DEF AlertsOfEvents
    <3>1. CASE alerted'[d][f] = alerted[d][f]
      BY <3>1 DEF AlertsOfEvents
    <3>2. CASE pc = "writeAlerts" /\ alerted'[d][f] = cache[f]
      BY <3>2 DEF AlertsOfEvents, Deciding
    <3> QED
      BY <1>3, <3>1, <3>2
  <2>9. MutedByAlert'
    BY <1>1, <2>1 DEF MutedByAlert, Silences
  <2>10. EventsApart'
    BY <1>1, <2>1 DEF EventsApart, Repeats, Apart
  <2> QED
    BY <1>6, <1>7, <2>2, <2>3, <2>4, <2>6, <2>7, <2>8, <2>9, <2>10
<1> QED
  BY <1>8, <1>9

\* The files of the days before are removed.
LEMMA CleanupIInv ==
    ASSUME WatcherIInv, Cleanup
    PROVE  WatcherIInv'
<1> USE DEF WatcherIInv
<1>1. /\ pc = "idle"
      /\ position' = [d \in Days |-> IF d < today THEN Unset ELSE position[d]]
      /\ alerted' = [d \in Days |-> IF d < today THEN Never ELSE alerted[d]]
      /\ UNCHANGED <<today, now, log, kind, partial, rotations, pc, day, upTo, cache, events, skipped,
                     seen, told, muted, lost, rotated, blind, faults>>
      /\ ~Deciding /\ ~Deciding'
  BY DEF Cleanup, logVars, runVars, historyVars, Deciding
<1>2. Never \in [Fingerprints -> AlertTimes] /\ \A f \in Fingerprints : Never[f] = Unset
  BY DEF Never, AlertTimes
<1>3. WatcherTypeOK'
  BY <1>1, <1>2 DEF WatcherTypeOK
<1>4. LogInOrder' /\ DecidedErrors' /\ HandedOver' /\ DecidedNow'
  BY <1>1 DEF LogInOrder, Written, DecidedErrors, IsError, HandedOver, DecidedNow
<1>5. FilesOfDay'
  BY <1>1 DEF FilesOfDay, Never
<1>6. Watched => day = today
  BY <1>1 DEF Watched
<1>7. day = today => Mark' = Mark /\ Memory' = Memory
  <2>1. today \in Days /\ ~(today < today)
    BY WatcherNumbers DEF WatcherTypeOK
  <2> QED
    BY <1>1, <2>1 DEF Mark, Memory, LastLine
<1>8. Watched' = Watched
  BY <1>1 DEF Watched
<1>9. UndecidedBeyond' /\ DealtWith' /\ EventsRemembered'
  BY <1>1, <1>6, <1>7, <1>8 DEF UndecidedBeyond, DealtWith, EventsRemembered, IsError
<1>10. AlertsOfEvents'
  BY <1>1, <1>2 DEF AlertsOfEvents
<1>11. MutedByAlert' /\ SkippedByAlert' /\ EventsApart'
  BY <1>1 DEF MutedByAlert, SkippedByAlert, Silences, EventsApart, Repeats, Apart
<1> QED
  BY <1>3, <1>4, <1>5, <1>9, <1>10, <1>11

\* The last of the new entries.
LEMMA LastEntry ==
    ASSUME WatcherTypeOK, NEW d \in Days, NewEntries(d) # {}, LastLine(d) \in Nat
    PROVE  ReadUpTo(d) \in NewEntries(d) /\ \A i \in NewEntries(d) : i <= ReadUpTo(d)
<1> DEFINE n == Len(log[d])
           above == {m \in Nat : \A i \in NewEntries(d) : i <= m}
<1>1. n \in Nat
  BY LogFiles
<1>2. NewEntries(d) \subseteq 1..n
  BY <1>1 DEF NewEntries
<1>3. n \in above
  BY <1>1, <1>2
<1>4. PICK m \in above : \A k \in above : m <= k
  BY <1>3, Smallest
<1>5. m \in NewEntries(d)
  <2> SUFFICES ASSUME m \notin NewEntries(d) PROVE FALSE
    OBVIOUS
  <2>1. \A i \in NewEntries(d) : i \in Nat /\ i > 0 /\ i <= m /\ i # m
    BY <1>1, <1>2
  <2>2. m - 1 \in Nat /\ \A i \in NewEntries(d) : i <= m - 1
    BY <2>1
  <2> QED
    BY <1>4, <2>2
<1>6. \A i \in NewEntries(d) : m >= i /\ i \in Nat
  BY <1>1, <1>2
<1> DEFINE P(x) == x \in NewEntries(d) /\ \A i \in NewEntries(d) : x >= i
<1>7. P(CHOOSE x : P(x))
  BY <1>5, <1>6
<1>8. ReadUpTo(d) = CHOOSE x : P(x)
  BY DEF ReadUpTo, Max
<1> QED
  BY <1>6, <1>7, <1>8

\* What is decided of the lines that were read.
LEMMA Decision ==
    ASSUME WatcherIInv, NEW d \in Days, NEW unread \in BOOLEAN, Decide(d, unread), LastLine(d) \in Nat
    PROVE  /\ upTo' \in 1..Len(log[d]) /\ LastLine(d) < upTo' /\ log[d][upTo'] # partial
           /\ \A l \in events' \union skipped' :
                 /\ l \in Lines /\ IsError(l)
                 /\ \E i \in 1..Len(log[d]) : l = log[d][i] /\ LastLine(d) < i /\ i <= upTo'
           /\ \A i \in 1..Len(log[d]) :
                 LastLine(d) < i /\ IsError(log[d][i]) /\ log[d][i] # partial
                     => log[d][i] \in events' \union skipped'
           /\ seen' = [l \in Lines |-> IF l \in events' \union skipped'
                                       THEN [at |-> now, on |-> d, after |-> faults'] ELSE seen[l]]
           /\ \A e \in events' :
                 /\ Loaded(d, unread)[kind[e]] = Unset
                 /\ \A l \in events' : kind[e] = kind[l] => e = l
           /\ \A l \in skipped' :
                 Loaded(d, unread)[kind[l]] # Unset \/ \E e \in events' : kind[e] = kind[l]
           /\ cache' \in [Fingerprints -> AlertTimes]
           /\ \A f \in Fingerprints :
                 \/ cache'[f] = now /\ \E e \in events' : kind[e] = f
                 \/ cache'[f] = Loaded(d, unread)[f] /\ \A e \in events' : kind[e] # f
<1> USE DEF WatcherIInv
<1> DEFINE loaded == Loaded(d, unread)
           alerting == Alerting(d, loaded)
           errors == {i \in NewEntries(d) : IsError(log[d][i])}
<1>1. Len(log[d]) \in Nat /\ DOMAIN log[d] = 1..Len(log[d]) /\ \A i \in 1..Len(log[d]) : log[d][i] \in Lines
  BY LogFiles
<1>2. \A i : i \in NewEntries(d) <=>
              /\ i \in 1..Len(log[d]) /\ LastLine(d) < i
              /\ kind[log[d][i]] # "noise" /\ log[d][i] # partial
  BY <1>1 DEF NewEntries, Parses
<1>3. upTo' \in NewEntries(d) /\ \A i \in NewEntries(d) : i <= upTo'
  BY LastEntry DEF Decide
<1>4. /\ events' = {log[d][i] : i \in alerting}
      /\ skipped' = {log[d][i] : i \in errors \ alerting}
      /\ seen' = [l \in Lines |-> IF l \in {log[d][i] : i \in errors}
                                  THEN [at |-> now, on |-> d, after |-> faults'] ELSE seen[l]]
      /\ cache' = [f \in Fingerprints |-> IF f \in RenewedBy(d, loaded) THEN now ELSE loaded[f]]
  BY DEF Decide
<1>5. loaded \in [Fingerprints -> AlertTimes]
  BY FreshKept DEF WatcherTypeOK, Loaded, Never, AlertTimes
<1> HIDE DEF loaded
<1>6. alerting \subseteq errors
  BY DEF Alerting
<1>7. events' \union skipped' = {log[d][i] : i \in errors}
  BY <1>4, <1>6
<1>8. ASSUME NEW i \in errors, i \notin alerting, loaded[kind[log[d][i]]] = Unset
      PROVE  \E j \in alerting : kind[log[d][j]] = kind[log[d][i]]
  <2> DEFINE same == {j \in NewEntries(d) : kind[log[d][j]] = kind[log[d][i]]}
  <2>1. i \in same /\ same \subseteq Nat
    BY <1>1, <1>2
  <2>2. PICK j \in same : \A k \in same : j <= k
    BY <2>1, Smallest
  <2>3. j \in alerting
    BY <1>8, <2>1, <2>2 DEF Alerting, IsError
  <2> QED
    BY <2>2, <2>3
<1>9. ASSUME NEW i \in alerting, NEW j \in alerting, kind[log[d][i]] = kind[log[d][j]]
      PROVE  i = j
  <2>1. i \in Nat /\ j \in Nat
    BY <1>1, <1>2, <1>6
  <2>2. i <= j /\ j <= i
    BY <1>9 DEF Alerting
  <2> QED
    BY <2>1, <2>2
<1>10. RenewedBy(d, loaded) = {kind[e] : e \in events'}
  BY <1>4 DEF RenewedBy
<1>11. ASSUME NEW i \in alerting PROVE loaded[kind[log[d][i]]] = Unset
  BY DEF Alerting
<1> HIDE DEF alerting
<1>12. upTo' \in 1..Len(log[d]) /\ LastLine(d) < upTo' /\ log[d][upTo'] # partial
  BY <1>2, <1>3
<1>13. ASSUME NEW l \in events' \union skipped'
       PROVE  /\ l \in Lines /\ IsError(l)
              /\ \E i \in 1..Len(log[d]) : l = log[d][i] /\ LastLine(d) < i /\ i <= upTo'
  <2>1. PICK i \in errors : l = log[d][i]
    BY <1>7
  <2> QED
    BY <1>1, <1>2, <1>3, <2>1
<1>14. ASSUME NEW i \in 1..Len(log[d]), LastLine(d) < i, IsError(log[d][i]), log[d][i] # partial
       PROVE  log[d][i] \in events' \union skipped'
  <2>1. kind[log[d][i]] # "noise"
    BY <1>14, WatcherNumbers DEF IsError
  <2>2. i \in errors
    BY <1>2, <1>14, <2>1
  <2> QED
    BY <1>7, <2>2
<1>15. seen' = [l \in Lines |-> IF l \in events' \union skipped'
                                THEN [at |-> now, on |-> d, after |-> faults'] ELSE seen[l]]
  BY <1>4, <1>7
<1>16. ASSUME NEW e \in events'
       PROVE  /\ loaded[kind[e]] = Unset
              /\ \A l \in events' : kind[e] = kind[l] => e = l
  <2>1. PICK i \in alerting : e = log[d][i]
    BY <1>4
  <2>2. ASSUME NEW l \in events', kind[e] = kind[l] PROVE e = l
    <3>1. PICK j \in alerting : l = log[d][j]
      BY <1>4
    <3> QED
      BY <1>9, <2>1, <2>2, <3>1
  <2> QED
    BY <1>11, <2>1, <2>2
<1>17. ASSUME NEW l \in skipped', loaded[kind[l]] = Unset
       PROVE  \E e \in events' : kind[e] = kind[l]
  <2>1. PICK i \in errors \ alerting : l = log[d][i]
    BY <1>4
  <2>2. PICK j \in alerting : kind[log[d][j]] = kind[log[d][i]]
    BY <1>8, <1>17, <2>1
  <2> QED
    BY <1>4, <2>1, <2>2
<1>18. /\ cache' \in [Fingerprints -> AlertTimes]
       /\ \A f \in Fingerprints :
            \/ cache'[f] = now /\ \E e \in events' : kind[e] = f
            \/ cache'[f] = loaded[f] /\ \A e \in events' : kind[e] # f
  <2>1. now \in AlertTimes
    BY DEF WatcherTypeOK, AlertTimes
  <2> QED
    BY <1>4, <1>5, <1>10, <2>1
<1> QED
  BY <1>12, <1>13, <1>14, <1>15, <1>16, <1>17, <1>18 DEF loaded

\* The new lines are decided on.
LEMMA DecideIInv ==
    ASSUME WatcherIInv, NEW unread \in BOOLEAN, Watch(unread) \/ WatchFromStart(unread)
    PROVE  WatcherIInv'
<1> USE DEF WatcherIInv
<1>1. today \in Days /\ day \in Days /\ day <= today /\ now \in Clock
  BY DEF WatcherTypeOK, FilesOfDay
<1> DEFINE d == IF Watch(unread) THEN today ELSE day
<1>2. /\ d \in Days /\ Decide(d, unread) /\ ~Deciding /\ pc' = "openPosition"
      /\ UNCHANGED <<today, now, log, kind, partial, rotations, position, alerted, told, muted, lost>>
      /\ \/ pc = "idle" /\ d = today /\ position[d] # Torn /\ ~Shorter(d) /\ blind' = (blind \/ Overgrown)
         \/ pc = "read" /\ d = day /\ blind' = blind
  <2>1. CASE Watch(unread)
    BY <1>1, <2>1 DEF Watch, logVars, fileVars, Deciding, Decide
  <2>2. CASE ~Watch(unread) /\ WatchFromStart(unread)
    BY <1>1, <2>2 DEF WatchFromStart, logVars, fileVars, Deciding, Decide
  <2> HIDE DEF d
  <2> QED
    BY <2>1, <2>2
<1> HIDE DEF d
<1>3. day' = d /\ rotated' = (rotated /\ d # today)
  BY <1>2 DEF Decide
<1>4. LastLine(d) \in Nat /\ day <= d /\ d <= today /\ position[d] # Torn
  <2>1. pc = "read" => position[day] = 0
    BY DEF FilesOfDay
  <2>2. position[d] # Torn
    BY <1>2, <2>1 DEF Torn
  <2>3. LastLine(d) \in Nat
    BY <1>2, <2>2, WatcherNumbers DEF LastLine, WatcherTypeOK
  <2> QED
    BY <1>1, <1>2, <2>2, <2>3, WatcherNumbers
<1>F. /\ faults' \in 0..MaxFaults /\ faults \in Nat /\ faults' \in Nat /\ faults <= faults'
      /\ unread => faults' = faults + 1
      /\ ~unread => faults' = faults
  BY <1>2, WatcherNumbers DEF Decide, WatcherTypeOK
<1>5. day \in Nat /\ d \in Nat /\ today \in Nat /\ now \in Nat
  BY <1>1, <1>2, WatcherNumbers
<1> DEFINE loaded == Loaded(d, unread)
           decided == events' \union skipped'
<1>6. /\ upTo' \in 1..Len(log[d]) /\ LastLine(d) < upTo' /\ log[d][upTo'] # partial
      /\ \A l \in decided :
            /\ l \in Lines /\ IsError(l)
            /\ \E i \in 1..Len(log[d]) : l = log[d][i] /\ LastLine(d) < i /\ i <= upTo'
      /\ \A i \in 1..Len(log[d]) :
            LastLine(d) < i /\ IsError(log[d][i]) /\ log[d][i] # partial => log[d][i] \in decided
  BY <1>2, <1>4, Decision
<1>7. seen' = [l \in Lines |-> IF l \in decided THEN [at |-> now, on |-> d, after |-> faults'] ELSE seen[l]]
  BY <1>2, <1>4, Decision
<1>8. /\ \A e \in events' :
            /\ loaded[kind[e]] = Unset
            /\ \A l \in events' : kind[e] = kind[l] => e = l
      /\ \A l \in skipped' : loaded[kind[l]] # Unset \/ \E e \in events' : kind[e] = kind[l]
  BY <1>2, <1>4, Decision
<1>9. /\ cache' \in [Fingerprints -> AlertTimes]
      /\ \A f \in Fingerprints :
            \/ cache'[f] = now /\ \E e \in events' : kind[e] = f
            \/ cache'[f] = loaded[f] /\ \A e \in events' : kind[e] # f
  BY <1>2, <1>4, Decision
<1>10. /\ loaded \in [Fingerprints -> AlertTimes]
       /\ \A f \in Fingerprints :
            /\ loaded[f] # Unset => loaded[f] = alerted[d][f] /\ now - alerted[d][f] < DedupWindow
            /\ ~unread /\ alerted[d][f] # Unset /\ now - alerted[d][f] < DedupWindow =>
                  loaded[f] = alerted[d][f]
  BY <1>2, FreshKept DEF WatcherTypeOK, Loaded, Never, AlertTimes
<1> HIDE DEF loaded, decided
<1>11. Len(log[d]) \in Nat /\ DOMAIN log[d] = 1..Len(log[d]) /\ \A i \in 1..Len(log[d]) : log[d][i] \in Lines
  BY <1>2, LogFiles
<1>12. events' \subseteq decided /\ skipped' \subseteq decided /\ decided = events' \union skipped'
  BY DEF decided
<1>13. Deciding' /\ Watched' /\ Mark' = upTo' /\ Memory' = cache'
  BY <1>2 DEF Deciding, Watched, Mark, Memory
\* Of the file that is read: how it was left.
<1>14. /\ day = d => Watched /\ Mark = LastLine(d) /\ Memory = alerted[d]
       /\ day # d => position[d] = Unset /\ \A i \in 1..Len(log[d]) : seen[log[d][i]] = Unset
  <2>1. CASE day = d
    BY <1>2, <1>5, <2>1 DEF Watched, Mark, Memory, LastLine, FilesOfDay
  <2>2. CASE day # d
    BY <1>2, <1>4, <1>5, <1>11, <2>2 DEF FilesOfDay
  <2> QED
    BY <2>1, <2>2
<1>15. ASSUME NEW i \in 1..Len(log[d]), LastLine(d) < i
       PROVE  seen[log[d][i]] = Unset
  BY <1>4, <1>11, <1>14, <1>15 DEF UndecidedBeyond, Torn
<1>16. events = {} /\ skipped = {}
  BY <1>2 DEF HandedOver
<1>17. ASSUME NEW l \in told \union muted \union lost
       PROVE  l \in Lines /\ l \notin decided /\ seen'[l] = seen[l] /\ seen[l] # Unset /\ IsError(l)
  <2>1. l \in Lines /\ seen[l] # Unset /\ IsError(l)
    BY DEF DecidedErrors, WatcherTypeOK
  <2>2. l \notin decided
    BY <1>6, <1>15, <1>17, <2>1
  <2> QED
    BY <1>7, <2>1, <2>2
<1>18. ASSUME NEW l \in decided
       PROVE  /\ l \in Lines /\ seen'[l] = [at |-> now, on |-> d, after |-> faults'] /\ seen'[l] # Unset
              /\ seen'[l].at = now /\ seen'[l].on = d /\ seen'[l].after = faults' /\ IsError(l)
  <2>1. seen'[l] = [at |-> now, on |-> d, after |-> faults'] /\ l \in Lines /\ IsError(l)
    BY <1>6, <1>7
  <2>2. seen'[l] # Unset
    BY <1>1, <1>2, <1>F, <2>1, WatcherNumbers
  <2> QED
    BY <2>1, <2>2
<1>19. WatcherTypeOK'
  <2>1. upTo' \in 0..MaxLines
    BY <1>2, <1>6, <1>11, WatcherNumbers DEF LogInOrder, Lines
  <2>2. seen' \in [Lines -> [at : Clock, on : Days, after : 0..MaxFaults] \union {Unset}]
    BY <1>1, <1>2, <1>7, <1>F DEF WatcherTypeOK
  <2>3. events' \subseteq Lines /\ skipped' \subseteq Lines
    BY <1>6, <1>12
  <2>4. rotated' \in BOOLEAN /\ blind' \in BOOLEAN
    BY <1>2, <1>3 DEF WatcherTypeOK, Overgrown
  <2> QED
    BY <1>2, <1>3, <1>9, <1>F, <2>1, <2>2, <2>3, <2>4 DEF WatcherTypeOK, Stages
<1>20. LogInOrder'
  BY <1>2 DEF LogInOrder, Written
<1>21. DecidedErrors'
  <2>1. ASSUME NEW l \in Lines, seen'[l] # Unset
        PROVE  IsError(l) /\ seen'[l].at <= now /\ seen'[l].on <= d /\ seen'[l].after <= faults'
    <3>1. CASE l \in decided
      BY <1>5, <1>18, <1>F, <3>1
    <3>2. CASE l \notin decided
      <4>1. seen'[l] = seen[l] /\ seen[l] # Unset
        BY <1>7, <2>1, <3>2
      <4>2. /\ IsError(l) /\ seen[l].at <= now /\ seen[l].on <= day /\ seen[l].on \in Nat
            /\ seen[l].after <= faults /\ seen[l].after \in Nat
        <5>1. seen[l] \in [at : Clock, on : Days, after : 0..MaxFaults]
          BY <2>1, <4>1 DEF WatcherTypeOK
        <5>2. seen[l].on \in Nat /\ seen[l].after \in Nat
          <6>1. seen[l].on \in Days /\ seen[l].after \in 0..MaxFaults
            BY <5>1
          <6>2. \A n \in 0..MaxFaults : n \in Nat
            OBVIOUS
          <6>3. \A n \in Days : n \in Nat
            BY WatcherNumbers
          <6> QED
            BY <6>1, <6>2, <6>3
        <5> QED
          BY <4>1, <5>2 DEF DecidedErrors
      <4> QED
        BY <1>4, <1>5, <1>F, <4>1, <4>2
    <3> QED
      BY <3>1, <3>2
  <2>2. ASSUME NEW l \in told \union muted \union lost \union events' \union skipped' PROVE seen'[l] # Unset
    <3>1. CASE l \in decided
      BY <1>18, <3>1
    <3>2. CASE l \notin decided
      <4>1. l \in told \union muted \union lost /\ l \in Lines
        BY <1>12, <3>2 DEF WatcherTypeOK
      <4> QED
        BY <1>7, <3>2, <4>1 DEF DecidedErrors
    <3> QED
      BY <3>1, <3>2
  <2> QED
    BY <1>2, <1>3, <2>1, <2>2 DEF DecidedErrors, IsError
<1>22. FilesOfDay'
  <2>1. ASSUME NEW c \in Days, c > d
        PROVE  position[c] = Unset /\ alerted[c] = Never /\ \A i \in DOMAIN log[c] : seen'[log[c][i]] = Unset
    <3>1. c > day
      BY <1>4, <1>5, <2>1, WatcherNumbers
    <3>2. position[c] = Unset /\ alerted[c] = Never /\ \A i \in DOMAIN log[c] : seen[log[c][i]] = Unset
      BY <3>1 DEF FilesOfDay
    <3>3. ASSUME NEW i \in DOMAIN log[c] PROVE log[c][i] \in Lines /\ log[c][i] \notin decided
      <4>1. log[c][i] \in Lines
        BY LogFiles
      <4>2. c # d
        BY <1>5, <2>1
      <4> QED
        BY <1>2, <1>6, <1>11, <4>1, <4>2 DEF LogInOrder
    <3> QED
      BY <1>7, <3>2, <3>3
  <2> QED
    <3>1. position'[d] = position[d] /\ LastLine(d) <= upTo' /\ pc' = "openPosition"
      BY <1>2, <1>4, <1>6, <1>11
    <3> QED
      BY <1>2, <1>3, <1>4, <2>1, <3>1 DEF FilesOfDay, Never, LastLine
<1>23. UndecidedBeyond'
  <2> SUFFICES ASSUME NEW i \in 1..Len(log[d]), i > upTo' \/ Len(log[d]) < upTo'
               PROVE  seen'[log[d][i]] = Unset
    BY <1>2, <1>3, <1>11, <1>13 DEF UndecidedBeyond
  <2>1. LastLine(d) < i /\ upTo' < i /\ i \in Nat /\ upTo' \in Nat
    BY <1>4, <1>6, <1>11
  <2>2. seen[log[d][i]] = Unset
    BY <1>15, <2>1
  <2>3. log[d][i] \notin decided
    <3> SUFFICES ASSUME NEW j \in 1..Len(log[d]), log[d][i] = log[d][j], j <= upTo'
                 PROVE  FALSE
      BY <1>6
    <3>1. i = j
      BY <1>2, <1>11 DEF LogInOrder
    <3> QED
      BY <2>1, <3>1
  <2> QED
    BY <1>7, <1>11, <2>2, <2>3
<1>24. DealtWith'
  <2> SUFFICES ASSUME ~blind', ~rotated', d = today
               PROVE  /\ upTo' <= Len(log[d])
                      /\ \A i \in 1..upTo' : IsError(log[d][i]) => log[d][i] \in told \union muted \union lost \union decided
    BY <1>2, <1>3, <1>12, <1>13 DEF DealtWith, IsError
  <2>1. upTo' <= Len(log[d]) /\ upTo' \in Nat
    BY <1>6, <1>11
  <2> SUFFICES ASSUME NEW i \in 1..upTo', IsError(log[d][i])
               PROVE  log[d][i] \in told \union muted \union lost \union decided
    BY <2>1
  <2>2. i \in 1..Len(log[d])
    BY <1>11, <2>1
  <2>3. CASE LastLine(d) < i
    <3>1. log[d][i] # partial
      <4> SUFFICES ASSUME log[d][i] = partial PROVE FALSE
        OBVIOUS
      <4>1. partial # Unset
        BY <1>11, <2>2, WatcherNumbers
      <4>2. partial = log[d][Len(log[d])] /\ Len(log[d]) \in 1..Len(log[d])
        BY <1>11, <2>2, <4>1 DEF LogInOrder
      <4>3. i = Len(log[d])
        BY <1>2, <1>11, <2>2, <4>2 DEF LogInOrder
      <4>4. i = upTo'
        BY <1>6, <1>11, <4>3
      <4> QED
        BY <1>6, <4>4
    <3> QED
      BY <1>6, <2>2, <2>3, <3>1
  <2>4. CASE i <= LastLine(d)
    <3>1. LastLine(d) # 0
      BY <1>4, <2>2, <2>4
    <3>2. day = d
      BY <1>14, <3>1 DEF LastLine
    <3>3. pc = "idle" /\ ~Shorter(d) /\ ~blind /\ ~Overgrown
      BY <1>2, <3>1, <3>2 DEF FilesOfDay, LastLine
    <3>4. ~rotated
      BY <1>4, <1>11, <3>1, <3>3 DEF Overgrown, Shorter
    <3>5. log[d][i] \in told \union muted \union lost \union events \union skipped
      BY <1>4, <1>14, <2>2, <2>4, <3>2, <3>3, <3>4 DEF DealtWith
    <3> QED
      BY <1>16, <3>5
  <2> QED
    BY <1>4, <2>2, <2>3, <2>4
<1>25. HandedOver' /\ DecidedNow'
  <2>1. \A l \in told \union muted \union lost : l \notin decided
    BY <1>17
  <2>2. position'[d] = position[d]
    BY <1>2
  <2>3. ASSUME NEW i \in 1..Len(log[d]), seen'[log[d][i]] # Unset, i > LastLine(d)
        PROVE  log[d][i] \in decided
    BY <1>4, <1>7, <1>11, <1>15, <2>3
  <2>4. ASSUME NEW i \in 1..Len(log[d]), log[d][i] \in decided
        PROVE  i > LastLine(d)
    <3>1. PICK j \in 1..Len(log[d]) : log[d][i] = log[d][j] /\ LastLine(d) < j
      BY <1>6, <2>4
    <3>2. i = j
      BY <1>2, <1>11, <3>1 DEF LogInOrder
    <3> QED
      BY <1>4, <1>11, <3>1, <3>2
  <2> QED
    BY <1>2, <1>3, <1>11, <1>12, <1>13, <2>1, <2>2, <2>3, <2>4 DEF HandedOver, DecidedNow, LastLine
\* Whatever was alerted before is of an event before, and stays what it was.
<1>26. ASSUME NEW f \in Fingerprints, NEW c \in Days, alerted[c][f] # Unset
       PROVE  \E e \in told \union lost : kind[e] = f /\ seen'[e] = seen[e] /\ seen[e].at = alerted[c][f]
  <2>1. PICK e \in told \union lost \union events : kind[e] = f /\ seen[e].at = alerted[c][f]
    BY <1>26 DEF AlertsOfEvents
  <2> QED
    BY <1>16, <1>17, <1>26, <2>1
<1>27. AlertsOfEvents'
  <2>1. ASSUME NEW f \in Fingerprints, cache'[f] # Unset
        PROVE  \E e \in told \union lost \union events' : kind[e] = f /\ seen'[e].at = cache'[f]
    <3>1. CASE cache'[f] = now /\ \E e \in events' : kind[e] = f
      BY <1>12, <1>18, <3>1
    <3>2. CASE cache'[f] = loaded[f]
      BY <1>2, <1>10, <1>26, <2>1, <3>2
    <3> QED
      BY <1>9, <3>1, <3>2
  <2>2. ASSUME NEW c \in Days, NEW f \in Fingerprints, alerted[c][f] # Unset
        PROVE  \E e \in told \union lost : kind[e] = f /\ seen'[e].at = alerted[c][f]
    BY <1>26, <2>2
  <2>3. \A e \in told \union lost : e \notin events'
    BY <1>12, <1>17
  <2> QED
    BY <1>2, <2>1, <2>2, <2>3 DEF AlertsOfEvents
<1>28. MutedByAlert' /\ SkippedByAlert'
  <2>1. ASSUME NEW l \in muted
        PROVE  \E e \in told \union lost :
                  /\ kind[e] = kind[l] /\ seen'[e].at <= seen'[l].at
                  /\ seen'[l].at - seen'[e].at < DedupWindow
    <3>1. PICK e \in told \union lost : Silences(e, l)
      BY DEF MutedByAlert
    <3>2. seen'[e] = seen[e] /\ seen'[l] = seen[l]
      BY <1>17
    <3> QED
      BY <3>1, <3>2 DEF Silences
  <2>2. ASSUME NEW l \in skipped'
        PROVE  \E e \in told \union lost \union events' :
                  /\ kind[e] = kind[l] /\ seen'[e].at <= seen'[l].at
                  /\ seen'[l].at - seen'[e].at < DedupWindow
    <3>1. seen'[l].at = now /\ kind[l] \in Fingerprints
      BY <1>12, <1>18 DEF IsError
    <3>2. ASSUME NEW e \in events', kind[e] = kind[l]
          PROVE  seen'[e].at <= seen'[l].at /\ seen'[l].at - seen'[e].at < DedupWindow
      <4>1. seen'[e].at = now
        BY <1>12, <1>18
      <4> QED
        BY <1>5, <3>1, <4>1, WatcherNumbers
    <3>3. CASE loaded[kind[l]] # Unset
      <4>1. alerted[d][kind[l]] # Unset /\ now - alerted[d][kind[l]] < DedupWindow
        BY <1>10, <3>1, <3>3
      <4>2. PICK e \in told \union lost : kind[e] = kind[l] /\ seen'[e] = seen[e] /\ seen[e].at = alerted[d][kind[l]]
        BY <1>2, <1>26, <3>1, <4>1
      <4>3. seen[e].at <= now
        BY <1>17, <4>2 DEF DecidedErrors
      <4> QED
        BY <3>1, <4>1, <4>2, <4>3
    <3> QED
      BY <1>8, <3>2, <3>3
  <2> QED
    BY <1>2, <2>1, <2>2 DEF MutedByAlert, SkippedByAlert, Silences
\* An event of the day that is less than a window old is remembered, when there
\* was no fault since.
<1>29. ASSUME NEW e \in told, seen[e].on = d, seen[e].after = faults', now - seen[e].at < DedupWindow
       PROVE  loaded[kind[e]] # Unset /\ seen[e].at <= loaded[kind[e]] /\ loaded[kind[e]] \in Nat
  <2>1. e \in Lines /\ seen[e] # Unset /\ kind[e] \in Fingerprints
    BY <1>17, <1>29 DEF IsError
  <2>2. seen[e].on <= day /\ seen[e].at \in Nat
    BY <2>1, WatcherNumbers DEF DecidedErrors, WatcherTypeOK
  <2>3. day = d
    BY <1>4, <1>5, <1>29, <2>2
  <2>7. ~unread /\ faults' = faults
    <3>1. seen[e].after <= faults
      BY <2>1 DEF DecidedErrors
    <3> QED
      BY <1>29, <1>F, <3>1
  <2>4. alerted[d][kind[e]] # Unset /\ seen[e].at <= alerted[d][kind[e]]
    <3>1. seen[e].after = faults
      BY <1>29, <2>7
    <3> QED
      BY <1>14, <1>29, <2>3, <3>1 DEF EventsRemembered
  <2>5. alerted[d][kind[e]] \in Nat
    <3>1. alerted[d] \in [Fingerprints -> AlertTimes]
      BY <1>2 DEF WatcherTypeOK
    <3>2. alerted[d][kind[e]] \in Clock \union {Unset}
      BY <2>1, <3>1 DEF AlertTimes
    <3> QED
      BY <2>4, <3>2, WatcherNumbers
  <2>6. now - alerted[d][kind[e]] < DedupWindow
    BY <1>5, <1>29, <2>2, <2>4, <2>5, WatcherNumbers
  <2> QED
    BY <1>10, <2>1, <2>4, <2>5, <2>6, <2>7
<1>30. EventsRemembered'
  <2> SUFFICES ASSUME NEW e \in told \union events',
                      seen'[e].on = d, seen'[e].after = faults', now - seen'[e].at < DedupWindow
               PROVE  cache'[kind[e]] # Unset /\ seen'[e].at <= cache'[kind[e]]
    BY <1>2, <1>3, <1>13 DEF EventsRemembered
  <2>1. now # Unset
    BY <1>5, WatcherNumbers
  <2>2. CASE e \in events'
    <3>1. cache'[kind[e]] = now /\ seen'[e].at = now
      BY <1>9, <1>12, <1>18, <2>2 DEF IsError
    <3> QED
      BY <1>5, <2>1, <3>1
  <2>3. CASE e \in told
    <3>1. seen'[e] = seen[e] /\ kind[e] \in Fingerprints /\ seen[e].at <= now
      BY <1>17, <2>3 DEF DecidedErrors, IsError
    <3>2. loaded[kind[e]] # Unset /\ seen[e].at <= loaded[kind[e]]
      BY <1>29, <2>3, <3>1
    <3> QED
      BY <1>9, <2>1, <3>1, <3>2
  <2> QED
    BY <2>2, <2>3
<1>31. EventsApart'
  <2> SUFFICES ASSUME NEW e \in told \union events', NEW l \in told \union events',
                      e # l, kind[e] = kind[l], seen'[e].on = seen'[l].on,
                      seen'[e].after = seen'[l].after
               PROVE  seen'[e].at - seen'[l].at >= DedupWindow \/ seen'[l].at - seen'[e].at >= DedupWindow
    BY <1>2 DEF EventsApart, Repeats, Apart
  <2>1. CASE e \in told /\ l \in told
    BY <1>17, <2>1 DEF EventsApart, Repeats, Apart
  <2>2. ASSUME NEW x \in events', NEW y \in told, kind[x] = kind[y], seen'[x].on = seen'[y].on,
               seen'[x].after = seen'[y].after
        PROVE  seen'[x].at - seen'[y].at >= DedupWindow
    <3>1. seen'[x].at = now /\ seen'[x].on = d /\ seen'[x].after = faults'
      BY <1>12, <1>18
    <3>2. seen'[y] = seen[y] /\ seen[y] # Unset /\ y \in Lines
      BY <1>17
    <3>3. loaded[kind[y]] = Unset
      BY <1>8, <2>2
    <3>4. ~(now - seen[y].at < DedupWindow)
      BY <1>29, <2>2, <3>1, <3>2, <3>3
    <3>5. seen[y].at \in Nat
      BY <3>2, WatcherNumbers DEF WatcherTypeOK
    <3> QED
      BY <1>5, <3>1, <3>2, <3>4, <3>5, WatcherNumbers
  <2>3. CASE e \in events' /\ l \in events'
    BY <1>8, <2>3
  <2> QED
    BY <2>1, <2>2, <2>3
<1> QED
  BY <1>19, <1>20, <1>21, <1>22, <1>23, <1>24, <1>25, <1>27, <1>28, <1>30, <1>31

\* Every step of the watcher and of the log keeps the inductive invariant.
LEMMA WatcherStepIInv == WatcherIInv /\ [WatcherNext]_watcherVars => WatcherIInv'
<1> SUFFICES ASSUME WatcherIInv, [WatcherNext]_watcherVars PROVE WatcherIInv'
  OBVIOUS
<1>1. CASE UNCHANGED watcherVars
  <2> USE <1>1 DEF watcherVars, logVars, fileVars, runVars, historyVars, WatcherIInv
  <2>1. Deciding' = Deciding /\ Mark' = Mark /\ Memory' = Memory /\ Watched' = Watched
    BY DEF Deciding, Mark, Memory, Watched, LastLine
  <2>2. WatcherTypeOK' /\ LogInOrder' /\ DecidedErrors' /\ FilesOfDay'
    <3>1. WatcherTypeOK'
      BY DEF WatcherTypeOK
    <3>2. LogInOrder' /\ DecidedErrors'
      BY DEF LogInOrder, Written, DecidedErrors, IsError
    <3>3. FilesOfDay'
      BY DEF FilesOfDay, Never, LastLine
    <3> QED
      BY <3>1, <3>2, <3>3
  <2>3. UndecidedBeyond' /\ DealtWith' /\ HandedOver' /\ DecidedNow' /\ EventsRemembered'
    BY <2>1 DEF UndecidedBeyond, DealtWith, HandedOver, DecidedNow, EventsRemembered, IsError, LastLine
  <2>4. AlertsOfEvents' /\ MutedByAlert' /\ SkippedByAlert' /\ EventsApart'
    BY <2>1, DecisionsKept
  <2> QED
    BY <2>2, <2>3, <2>4
<1>2. CASE \E k \in Fingerprints \union {"info", "noise"} : BeginLine(k)
  BY <1>2, BeginLineIInv
<1> QED
  BY <1>1, <1>2, LogIInv, ResetIInv, DecideIInv, StoreIInv, PushIInv, FaultIInv, CleanupIInv
     DEF WatcherNext

\* The watcher's inductive invariant holds throughout every behaviour.
THEOREM WatcherInvariance == WatcherSpec => []WatcherIInv
<1> QED
  BY WatcherInitIInv, WatcherStepIInv, PTL DEF WatcherSpec

\* Each error line up to the saved position was pushed, is a duplicate or was
\* lost with the poll that decided on it.
THEOREM NoErrorEverMissed == WatcherSpec => []NoErrorMissed
<1>1. WatcherIInv => NoErrorMissed
  <2> SUFFICES ASSUME WatcherIInv, pc = "idle", ~blind, ~rotated,
                      NEW i \in 1..Len(log[today]), position[today] # Unset, i <= position[today],
                      IsError(log[today][i])
               PROVE  log[today][i] \in told \union muted \union lost
    <3>1. DOMAIN log[today] = 1..Len(log[today])
      BY LogFiles DEF WatcherIInv, WatcherTypeOK
    <3> QED
      BY <3>1 DEF NoErrorMissed, Passed
  <2> USE DEF WatcherIInv
  <2>1. today \in Days /\ day \in Days /\ today \in Nat /\ day \in Nat
    BY WatcherNumbers DEF WatcherTypeOK
  <2>2. day = today
    BY <2>1 DEF FilesOfDay
  <2>3. ~Deciding /\ Mark = position[day]
    BY <2>2 DEF Deciding, Mark, LastLine
  <2>4. position[day] \in Int /\ i \in Int /\ 1 <= i
    BY <2>1, <2>2, LogFiles, WatcherNumbers DEF WatcherTypeOK, Torn
  <2>5. i \in 1..Mark
    BY <2>2, <2>3, <2>4
  <2> QED
    BY <2>2, <2>3, <2>5 DEF DealtWith, HandedOver
<1> QED
  BY <1>1, WatcherInvariance, PTL

\* What is left out as a duplicate has an event of its fingerprint less than a
\* window before.
THEOREM MutedAlwaysByAlert == WatcherSpec => []MutedByAlert
<1>1. WatcherIInv => MutedByAlert
  BY DEF WatcherIInv
<1> QED
  BY <1>1, WatcherInvariance, PTL

\* The events of a fingerprint are a window apart on each day, with no fault from
\* one to the other.
THEOREM NeverRepeatedEarly == WatcherSpec => []NoEarlyRepeat
<1>1. WatcherIInv => NoEarlyRepeat
  BY DEF WatcherIInv, EventsApart, NoEarlyRepeat
<1> QED
  BY <1>1, WatcherInvariance, PTL

=============================================================================
