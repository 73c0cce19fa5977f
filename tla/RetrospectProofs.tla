-------------------------- MODULE RetrospectProofs --------------------------
(***************************************************************************)
(* RetrospectLifecycle's invariants hold for every set of members,         *)
(* retrospects, requests and questions, and every limit; and what the      *)
(* readers of RetrospectReaders show of it holds together.                 *)
(***************************************************************************)
EXTENDS RetrospectReaders, TLAPS, FiniteSetTheorems

\* The initial state satisfies the inductive invariant.
LEMMA InitIInv == Init => IInv
<1> SUFFICES ASSUME Init PROVE IInv
  OBVIOUS
<1> USE ConstantsAssumption
<1>1. TypeOK
  BY DEF Init, TypeOK, Status, OptRequest, BlankAnswers
<1>2. RequestsWellFormed /\ RowsWellFormed /\ LocksHeld /\ AnalysisReadSubmitted
  BY DEF Init, RequestsWellFormed, RowsWellFormed, LocksHeld, AnalysisReadSubmitted,
         InFlight, Ended
<1>3. SubmittedIffTimestamped /\ AnalysedTogether /\ AcknowledgedSubmitDurable
  BY DEF Init, SubmittedIffTimestamped, AnalysedTogether, AcknowledgedSubmitDurable
<1> QED
  BY <1>1, <1>2, <1>3 DEF IInv

\* A request that begins by reading some of its own retrospect's rows.
LEMMA BeginIInv ==
    ASSUME IInv,
           NEW r \in Requests, NEW m \in Members, NEW t \in Retros,
           NEW next \in InFlight \ {"writeSubmit", "answers", "saveAnalysis"},
           NEW read \in SUBSET {row \in rows : target[row] = t},
           Begin(r, m, t, next, read),
           UNCHANGED <<retroVars, memberVars, rowVars, lock>>
    PROVE  IInv'
<1> USE ConstantsAssumption DEF IInv
<1>1. TypeOK'
  BY DEF TypeOK, Begin, InFlight, retroVars, memberVars, rowVars
<1>2. RequestsWellFormed'
  BY DEF TypeOK, RequestsWellFormed, RowsWellFormed, Begin, retroVars, memberVars, rowVars
<1>3. RowsWellFormed'
  BY DEF TypeOK, RowsWellFormed, Begin, retroVars, memberVars, rowVars
<1>4. LocksHeld'
  BY DEF TypeOK, LocksHeld, Begin, retroVars, memberVars, rowVars
<1>5. AnalysisReadSubmitted'
  BY DEF TypeOK, AnalysisReadSubmitted, Begin, retroVars, memberVars, rowVars
<1>6. SubmittedIffTimestamped'
  BY DEF SubmittedIffTimestamped, Begin, retroVars, memberVars, rowVars
<1>7. AnalysedTogether'
  BY DEF TypeOK, AnalysedTogether, RowsWellFormed, Begin, retroVars, memberVars, rowVars
<1>8. AcknowledgedSubmitDurable'
  BY DEF TypeOK, AcknowledgedSubmitDurable, InFlight, Begin, retroVars, memberVars, rowVars
<1> QED
  BY <1>1, <1>2, <1>3, <1>4, <1>5, <1>6, <1>7, <1>8

\* A request that fails while it is served.
LEMMA FailIInv ==
    ASSUME IInv, NEW r \in Requests, pc[r] \in InFlight, Fail(r)
    PROVE  IInv'
<1> USE ConstantsAssumption DEF IInv
<1>1. TypeOK'
  BY DEF TypeOK, Fail, LocksWithout, OptRequest, Ended, retroVars, memberVars, rowVars
<1>2. RequestsWellFormed'
  BY DEF TypeOK, RequestsWellFormed, RowsWellFormed, InFlight, Fail, retroVars, memberVars, rowVars
<1>3. RowsWellFormed'
  BY DEF TypeOK, RowsWellFormed, InFlight, Fail, retroVars, memberVars, rowVars
<1>4. LocksHeld'
  BY DEF TypeOK, LocksHeld, Fail, LocksWithout, OptRequest, retroVars, memberVars, rowVars
<1>5. AnalysisReadSubmitted'
  BY DEF TypeOK, AnalysisReadSubmitted, Fail, retroVars, memberVars, rowVars
<1>6. SubmittedIffTimestamped'
  BY DEF SubmittedIffTimestamped, Fail, retroVars, memberVars, rowVars
<1>7. AnalysedTogether'
  BY DEF TypeOK, AnalysedTogether, RowsWellFormed, InFlight, Fail, retroVars, memberVars, rowVars
<1>8. AcknowledgedSubmitDurable'
  BY DEF TypeOK, AcknowledgedSubmitDurable, InFlight, Fail, retroVars, memberVars, rowVars
<1> QED
  BY <1>1, <1>2, <1>3, <1>4, <1>5, <1>6, <1>7, <1>8

\* create_participant inserts a fresh DRAFT row.
LEMMA CreateParticipantInsertIInv ==
    ASSUME IInv, NEW r \in Requests, CreateParticipantInsert(r)
    PROVE  IInv'
<1> USE ConstantsAssumption DEF IInv
<1>1. CASE target[r] \in exists /\ who[r] \notin withdrawn
  <2> USE <1>1 DEF CreateParticipantInsert, Continue
  <2>1. TypeOK'
    BY DEF TypeOK, Ended, retroVars, memberVars
  <2>2. RequestsWellFormed' /\ RowsWellFormed'
    BY DEF TypeOK, RequestsWellFormed, RowsWellFormed, InFlight, Ended, retroVars, memberVars
  <2>3. LocksHeld'
    BY DEF TypeOK, OptRequest, LocksHeld, retroVars, memberVars
  <2>4. AnalysisReadSubmitted'
    BY DEF TypeOK, AnalysisReadSubmitted, RequestsWellFormed, retroVars, memberVars
  <2>5. SubmittedIffTimestamped'
    BY DEF TypeOK, SubmittedIffTimestamped, RowsWellFormed
  <2>6. AnalysedTogether'
    BY DEF TypeOK, AnalysedTogether, RowsWellFormed, retroVars
  <2>7. AcknowledgedSubmitDurable'
    BY DEF TypeOK, AcknowledgedSubmitDurable, retroVars
  <2> QED
    BY <2>1, <2>2, <2>3, <2>4, <2>5, <2>6, <2>7
<1>2. CASE ~(target[r] \in exists /\ who[r] \notin withdrawn)
  BY <1>2, FailIInv DEF CreateParticipantInsert, InFlight
<1> QED
  BY <1>1, <1>2

\* save_draft writes contents only.
LEMMA SaveDraftWriteIInv ==
    ASSUME IInv, NEW r \in Requests,
           NEW written \in SUBSET Questions, NEW cleared \in SUBSET Questions,
           SaveDraftWrite(r, written, cleared)
    PROVE  IInv'
<1> USE ConstantsAssumption DEF IInv
<1>1. CASE snap[r] \subseteq rows
  <2>1. /\ pc[r] = "writeDraft"
        /\ pc' = [pc EXCEPT ![r] = "drafted"]
        /\ UNCHANGED <<who, target, snap, addressed, retroVars, memberVars, rows,
                       status, submittedAt, personal, lock>>
    BY <1>1 DEF SaveDraftWrite, Continue
  <2>2. answer' \in [Requests -> [Questions -> OptRequest]]
    <3> DEFINE new(row) == [q \in Questions |->
                              IF q \in cleared THEN None
                              ELSE IF q \in written THEN r ELSE answer[row][q]]
    <3>1. ASSUME NEW row \in Requests PROVE new(row) \in [Questions -> OptRequest]
      BY DEF TypeOK, OptRequest
    <3>2. answer' = [row \in Requests |-> IF row \in snap[r] THEN new(row) ELSE answer[row]]
      BY <1>1 DEF SaveDraftWrite
    <3> HIDE DEF new
    <3> QED
      BY <3>1, <3>2 DEF TypeOK
  <2>3. TypeOK'
    BY <2>1, <2>2 DEF TypeOK, Ended, retroVars, memberVars
  <2>4. RequestsWellFormed' /\ RowsWellFormed'
    BY <2>1 DEF TypeOK, RequestsWellFormed, RowsWellFormed, InFlight, Ended, retroVars, memberVars
  <2>5. LocksHeld' /\ AnalysisReadSubmitted'
    BY <2>1 DEF TypeOK, OptRequest, LocksHeld, AnalysisReadSubmitted
  <2>6. SubmittedIffTimestamped' /\ AnalysedTogether' /\ AcknowledgedSubmitDurable'
    BY <2>1 DEF TypeOK, SubmittedIffTimestamped, AnalysedTogether, AcknowledgedSubmitDurable,
                retroVars
  <2> QED
    BY <2>2, <2>3, <2>4, <2>5, <2>6
<1>2. CASE ~(snap[r] \subseteq rows)
  BY <1>2, FailIInv DEF SaveDraftWrite, InFlight
<1> QED
  BY <1>1, <1>2

\* A submission locks a DRAFT row nobody else holds.
LEMMA SubmitLockIInv ==
    ASSUME IInv, NEW r \in Requests, NEW m \in Members, NEW t \in Retros, SubmitLock(r, m, t)
    PROVE  IInv'
<1> USE ConstantsAssumption DEF IInv
<1>1. PICK row \in rows : /\ MyRows(m, t) = {row}
                          /\ RowFree(row)
                          /\ MaySubmit(row)
                          /\ lock' = [lock EXCEPT ![row] = r]
  BY DEF SubmitLock
<1>2. target[row] = t /\ row \in Requests /\ status[row] = "DRAFT" /\ lock[row] = None
  BY <1>1 DEF MyRows, RowFree, MaySubmit, TypeOK
<1>3. /\ pc[r] = "idle"
      /\ pc' = [pc EXCEPT ![r] = "writeSubmit"]
      /\ who' = [who EXCEPT ![r] = m]
      /\ target' = [target EXCEPT ![r] = t]
      /\ snap' = [snap EXCEPT ![r] = {row}]
      /\ UNCHANGED <<addressed, exists, started, insight, thisMonth, roomMembers, withdrawn,
                     rows, status, submittedAt, personal, answer>>
  BY <1>1 DEF SubmitLock, Begin, retroVars, memberVars, rowVars
<1>4. TypeOK'
  BY <1>1, <1>2, <1>3 DEF TypeOK, OptRequest, InFlight
<1>5. RequestsWellFormed'
  BY <1>2, <1>3 DEF TypeOK, RequestsWellFormed, RowsWellFormed
<1>6. RowsWellFormed'
  BY <1>2, <1>3 DEF TypeOK, RowsWellFormed
<1>7. LocksHeld'
  <2>1. ASSUME NEW x \in Requests, lock'[x] # None
        PROVE  pc'[lock'[x]] = "writeSubmit" /\ snap'[lock'[x]] = {x}
    <3>1. CASE x = row
      BY <1>1, <1>2, <1>3, <3>1 DEF TypeOK
    <3>2. CASE x # row
      <4>1. lock'[x] = lock[x] /\ lock[x] \in Requests
        BY <1>1, <1>2, <2>1, <3>2 DEF TypeOK, OptRequest
      <4>2. pc[lock[x]] = "writeSubmit" /\ snap[lock[x]] = {x}
        BY <2>1, <4>1 DEF LocksHeld
      <4> QED
        BY <1>3, <4>1, <4>2 DEF TypeOK
    <3> QED
      BY <3>1, <3>2
  <2>2. ASSUME NEW s \in Requests, pc'[s] = "writeSubmit"
        PROVE  \E x \in rows' : snap'[s] = {x} /\ lock'[x] = s /\ status'[x] = "DRAFT"
    <3>1. CASE s = r
      BY <1>1, <1>2, <1>3, <3>1 DEF TypeOK
    <3>2. CASE s # r
      <4>1. pc[s] = "writeSubmit"
        BY <1>3, <2>2, <3>2 DEF TypeOK
      <4>2. PICK x \in rows : snap[s] = {x} /\ lock[x] = s /\ status[x] = "DRAFT"
        BY <4>1 DEF LocksHeld
      <4>3. x # row
        BY <1>2, <4>2
      <4> QED
        BY <1>1, <1>3, <3>2, <4>2, <4>3 DEF TypeOK
    <3> QED
      BY <3>1, <3>2
  <2> QED
    BY <2>1, <2>2 DEF LocksHeld
<1>8. AnalysisReadSubmitted' /\ SubmittedIffTimestamped'
  BY <1>2, <1>3 DEF TypeOK, AnalysisReadSubmitted, SubmittedIffTimestamped
<1>9. AnalysedTogether'
  BY <1>2, <1>3 DEF TypeOK, AnalysedTogether, RowsWellFormed
<1>10. AcknowledgedSubmitDurable'
  BY <1>2, <1>3 DEF TypeOK, AcknowledgedSubmitDurable
<1> QED
  BY <1>4, <1>5, <1>6, <1>7, <1>8, <1>9, <1>10

\* The writes of a submission, under the lock.
LEMMA SubmitWriteIInv ==
    ASSUME IInv, NEW r \in Requests, SubmitWrite(r)
    PROVE  IInv'
<1> USE ConstantsAssumption DEF IInv
<1>1. /\ pc[r] = "writeSubmit"
      /\ pc' = [pc EXCEPT ![r] = "submitted"]
      /\ UNCHANGED <<who, target, snap, addressed, exists, started, insight, thisMonth,
                     roomMembers, withdrawn, rows, personal>>
  BY DEF SubmitWrite, Continue, retroVars, memberVars
<1>2. PICK row \in rows : snap[r] = {row} /\ lock[row] = r /\ status[row] = "DRAFT"
  BY <1>1 DEF LocksHeld
<1>3. row \in Requests /\ submittedAt[row] = None
  BY <1>2 DEF TypeOK, SubmittedIffTimestamped
<1>4. /\ status' = [status EXCEPT ![row] = "SUBMITTED"]
      /\ submittedAt' = [submittedAt EXCEPT ![row] = r]
  BY <1>2, <1>3 DEF SubmitWrite, TypeOK
<1>5. lock' = [lock EXCEPT ![row] = None]
  <2>1. \A x \in Requests : lock[x] = r => x = row
    BY <1>2 DEF LocksHeld
  <2> QED
    BY <1>2, <1>3, <2>1 DEF SubmitWrite, LocksWithout, TypeOK
<1>6. TypeOK'
  <2>1. answer' \in [Requests -> [Questions -> OptRequest]]
    <3>1. FullAnswers(r) \in [Questions -> OptRequest]
      BY DEF FullAnswers, OptRequest
    <3>2. answer' = [answer EXCEPT ![row] = FullAnswers(r)]
      BY <1>2, <1>3 DEF SubmitWrite, TypeOK
    <3> QED
      BY <3>1, <3>2 DEF TypeOK
  <2> QED
    BY <1>1, <1>3, <1>4, <1>5, <2>1 DEF TypeOK, OptRequest, Ended, Status
<1>7. RequestsWellFormed'
  BY <1>1 DEF TypeOK, RequestsWellFormed, InFlight, Ended
<1>8. RowsWellFormed'
  BY <1>1, <1>2, <1>3, <1>4 DEF TypeOK, RowsWellFormed
<1>9. LocksHeld'
  <2>1. ASSUME NEW x \in Requests, lock'[x] # None
        PROVE  pc'[lock'[x]] = "writeSubmit" /\ snap'[lock'[x]] = {x}
    <3>1. x # row /\ lock'[x] = lock[x] /\ lock[x] \in Requests
      BY <1>3, <1>5, <2>1 DEF TypeOK, OptRequest
    <3>2. pc[lock[x]] = "writeSubmit" /\ snap[lock[x]] = {x}
      BY <2>1, <3>1 DEF LocksHeld
    <3>3. lock[x] # r
      BY <1>2, <3>1, <3>2
    <3> QED
      BY <1>1, <3>1, <3>2, <3>3 DEF TypeOK
  <2>2. ASSUME NEW s \in Requests, pc'[s] = "writeSubmit"
        PROVE  \E x \in rows' : snap'[s] = {x} /\ lock'[x] = s /\ status'[x] = "DRAFT"
    <3>1. s # r /\ pc[s] = "writeSubmit"
      BY <1>1, <2>2 DEF TypeOK
    <3>2. PICK x \in rows : snap[s] = {x} /\ lock[x] = s /\ status[x] = "DRAFT"
      BY <3>1 DEF LocksHeld
    <3>3. x # row
      BY <1>2, <3>1, <3>2
    <3> QED
      BY <1>1, <1>3, <1>4, <1>5, <3>2, <3>3 DEF TypeOK
  <2> QED
    BY <2>1, <2>2 DEF LocksHeld
<1>10. AnalysisReadSubmitted'
  BY <1>1, <1>3, <1>4 DEF TypeOK, AnalysisReadSubmitted
<1>11. SubmittedIffTimestamped'
  BY <1>1, <1>3, <1>4 DEF TypeOK, SubmittedIffTimestamped
<1>12. AnalysedTogether'
  BY <1>1, <1>2, <1>3, <1>4 DEF TypeOK, AnalysedTogether, RowsWellFormed
<1>13. AcknowledgedSubmitDurable'
  <2> SUFFICES ASSUME NEW s \in Requests, pc'[s] = "submitted", target'[s] \in exists'
               PROVE  \E other \in rows' : snap'[s] = {other} /\ submittedAt'[other] = s
    BY DEF AcknowledgedSubmitDurable
  <2>1. CASE s = r
    BY <1>1, <1>2, <1>3, <1>4, <2>1 DEF TypeOK
  <2>2. CASE s # r
    <3>1. PICK other \in rows : snap[s] = {other} /\ submittedAt[other] = s
      BY <1>1, <2>2 DEF TypeOK, AcknowledgedSubmitDurable
    <3>2. other # row
      BY <1>3, <3>1
    <3> QED
      BY <1>1, <1>3, <1>4, <3>1, <3>2 DEF TypeOK
  <2> QED
    BY <2>1, <2>2
<1> QED
  BY <1>6, <1>7, <1>8, <1>9, <1>10, <1>11, <1>12, <1>13

\* The reads of an analysis before the call to the AI.
LEMMA AnalyzeQuotaIInv ==
    ASSUME IInv, NEW r \in Requests, AnalyzeQuota(r)
    PROVE  IInv'
<1> USE ConstantsAssumption DEF IInv
<1>1. CASE who[r] \in FreeMembers => MonthlyCount < FreeLimit
  <2>1. /\ pc[r] = "quota"
        /\ pc' = [pc EXCEPT ![r] = "members"]
        /\ UNCHANGED <<who, target, snap, addressed, exists, started, insight, thisMonth,
                       roomMembers, withdrawn, rows, status, submittedAt, personal, answer, lock>>
    BY <1>1 DEF AnalyzeQuota, Continue, retroVars, memberVars, rowVars
  <2>2. TypeOK'
    BY <2>1 DEF TypeOK, InFlight
  <2>3. RequestsWellFormed' /\ RowsWellFormed'
    BY <2>1 DEF TypeOK, RequestsWellFormed, RowsWellFormed, InFlight
  <2>4. LocksHeld' /\ AnalysisReadSubmitted'
    BY <2>1 DEF TypeOK, OptRequest, LocksHeld, AnalysisReadSubmitted
  <2>5. SubmittedIffTimestamped' /\ AnalysedTogether' /\ AcknowledgedSubmitDurable'
    BY <2>1 DEF TypeOK, SubmittedIffTimestamped, AnalysedTogether, AcknowledgedSubmitDurable
  <2> QED
    BY <2>2, <2>3, <2>4, <2>5
<1>2. CASE ~(who[r] \in FreeMembers => MonthlyCount < FreeLimit)
  BY <1>2, FailIInv DEF AnalyzeQuota, InFlight
<1> QED
  BY <1>1, <1>2

LEMMA AnalyzeMembersIInv ==
    ASSUME IInv, NEW r \in Requests, AnalyzeMembers(r)
    PROVE  IInv'
<1> USE ConstantsAssumption DEF IInv
<1> DEFINE read == SubmittedRows(target[r])
           named == {row \in read : who[row] \notin withdrawn}
<1>1. CASE named # {}
  <2>1. /\ pc[r] = "members"
        /\ pc' = [pc EXCEPT ![r] = "answers"]
        /\ snap' = [snap EXCEPT ![r] = read]
        /\ addressed' = [addressed EXCEPT ![r] = named]
        /\ UNCHANGED <<who, target, exists, started, insight, thisMonth,
                       roomMembers, withdrawn, rows, status, submittedAt, personal, answer, lock>>
    BY <1>1 DEF AnalyzeMembers, retroVars, memberVars, rowVars
  <2>2. /\ read \subseteq rows
        /\ \A row \in read : target[row] = target[r] /\ status[row] # "DRAFT"
    BY DEF SubmittedRows
  <2>3. read # {} /\ named \subseteq read
    BY <1>1
  <2> HIDE DEF read, named
  <2>4. TypeOK'
    BY <2>1, <2>2, <2>3 DEF TypeOK, InFlight
  <2>5. RequestsWellFormed' /\ RowsWellFormed'
    BY <2>1, <2>2 DEF TypeOK, RequestsWellFormed, RowsWellFormed, InFlight
  <2>6. LocksHeld'
    BY <2>1, SMTT(30) DEF TypeOK, OptRequest, LocksHeld
  <2>7. AnalysisReadSubmitted'
    BY <2>1, <2>2, <2>3 DEF TypeOK, AnalysisReadSubmitted
  <2>8. SubmittedIffTimestamped' /\ AnalysedTogether' /\ AcknowledgedSubmitDurable'
    BY <2>1, SMTT(30) DEF TypeOK, SubmittedIffTimestamped, AnalysedTogether, AcknowledgedSubmitDurable
  <2> QED
    BY <2>4, <2>5, <2>6, <2>7, <2>8
<1>2. CASE named = {}
  BY <1>2, FailIInv DEF AnalyzeMembers, InFlight
<1> QED
  BY <1>1, <1>2

LEMMA AnalyzeAnswersIInv ==
    ASSUME IInv, NEW r \in Requests, AnalyzeAnswers(r)
    PROVE  IInv'
<1> USE ConstantsAssumption DEF IInv
<1>1. CASE AnswerCount(target[r]) >= MinAnswers
  <2>1. /\ pc[r] = "answers"
        /\ pc' = [pc EXCEPT ![r] = "saveAnalysis"]
        /\ UNCHANGED <<who, target, snap, addressed, exists, started, insight, thisMonth,
                       roomMembers, withdrawn, rows, status, submittedAt, personal, answer, lock>>
    BY <1>1 DEF AnalyzeAnswers, Continue, retroVars, memberVars, rowVars
  <2>2. TypeOK'
    BY <2>1 DEF TypeOK, InFlight
  <2>3. RequestsWellFormed' /\ RowsWellFormed'
    BY <2>1 DEF TypeOK, RequestsWellFormed, RowsWellFormed, InFlight
  <2>4. LocksHeld' /\ AnalysisReadSubmitted'
    BY <2>1 DEF TypeOK, OptRequest, LocksHeld, AnalysisReadSubmitted
  <2>5. SubmittedIffTimestamped' /\ AnalysedTogether' /\ AcknowledgedSubmitDurable'
    BY <2>1 DEF TypeOK, SubmittedIffTimestamped, AnalysedTogether, AcknowledgedSubmitDurable
  <2> QED
    BY <2>2, <2>3, <2>4, <2>5
<1>2. CASE ~(AnswerCount(target[r]) >= MinAnswers)
  BY <1>2, FailIInv DEF AnalyzeAnswers, InFlight
<1> QED
  BY <1>1, <1>2

\* The transaction of an analysis: the rows it read have left DRAFT, so the
\* write moves them forward, and there is at least one.
LEMMA AnalyzeSaveIInv ==
    ASSUME IInv, NEW r \in Requests, NEW missions \in SUBSET addressed[r],
           AnalyzeSave(r, missions)
    PROVE  IInv'
<1> USE ConstantsAssumption DEF IInv
<1>1. CASE target[r] \in exists /\ snap[r] \subseteq rows
  <2>1. /\ pc[r] = "saveAnalysis"
        /\ pc' = [pc EXCEPT ![r] = "analysed"]
        /\ insight' = [insight EXCEPT ![target[r]] = r]
        /\ thisMonth' = thisMonth \union {target[r]}
        /\ status' = [row \in Requests |-> IF row \in snap[r] THEN "ANALYZED" ELSE status[row]]
        /\ UNCHANGED <<who, target, snap, addressed, exists, started, roomMembers, withdrawn,
                       rows, submittedAt, answer, lock>>
    BY <1>1 DEF AnalyzeSave, Continue, memberVars
  <2>2. personal' \in [Requests -> OptRequest]
    BY <1>1, ZenonT(30) DEF AnalyzeSave, TypeOK, OptRequest
  <2>3. target[r] \in Retros /\ snap[r] # {} /\ snap[r] \subseteq rows
    BY <1>1, <2>1 DEF TypeOK, AnalysisReadSubmitted
  <2>4. \A row \in snap[r] : status[row] # "DRAFT" /\ target[row] = target[r]
    BY <2>1, <2>3 DEF AnalysisReadSubmitted, RequestsWellFormed
  <2>5. TypeOK'
    BY <2>1, <2>2, <2>3 DEF TypeOK, OptRequest, Status, Ended
  <2>6. RequestsWellFormed'
    BY <2>1 DEF TypeOK, RequestsWellFormed, InFlight, Ended
  <2>7. RowsWellFormed'
    BY <2>1, <2>3 DEF TypeOK, RowsWellFormed
  <2>8. LocksHeld'
    BY <2>1, <2>3, <2>4 DEF TypeOK, OptRequest, LocksHeld
  <2>9. AnalysisReadSubmitted' /\ SubmittedIffTimestamped'
    BY <2>1, <2>4 DEF TypeOK, AnalysisReadSubmitted, SubmittedIffTimestamped
  <2>10. AnalysedTogether'
    BY <2>1, <2>3, <2>4 DEF TypeOK, AnalysedTogether
  <2>11. AcknowledgedSubmitDurable'
    BY <2>1 DEF TypeOK, AcknowledgedSubmitDurable
  <2> QED
    BY <2>5, <2>6, <2>7, <2>8, <2>9, <2>10, <2>11
<1>2. CASE ~(target[r] \in exists /\ snap[r] \subseteq rows)
  BY <1>2, FailIInv DEF AnalyzeSave, InFlight
<1> QED
  BY <1>1, <1>2

\* The transaction of a deletion: it waits for the locks on the rows it takes.
LEMMA DeleteTxnIInv ==
    ASSUME IInv, NEW r \in Requests, DeleteTxn(r)
    PROVE  IInv'
<1> USE ConstantsAssumption DEF IInv
<1> DEFINE dead == {row \in rows : target[row] = target[r]}
<1>1. /\ pc[r] = "delete"
      /\ pc' = [pc EXCEPT ![r] = "deleted"]
      /\ exists' = exists \ {target[r]}
      /\ insight' = [insight EXCEPT ![target[r]] = None]
      /\ thisMonth' = thisMonth \ {target[r]}
      /\ rows' = rows \ dead
      /\ status' = [row \in Requests |-> IF row \in dead THEN "DRAFT" ELSE status[row]]
      /\ submittedAt' = [row \in Requests |-> IF row \in dead THEN None ELSE submittedAt[row]]
      /\ UNCHANGED <<who, target, snap, addressed, started, withdrawn, lock>>
  BY DEF DeleteTxn, Continue
<1>2. \A row \in dead : lock[row] = None
  BY DEF DeleteTxn, RowFree
<1>3. /\ dead \subseteq rows
      /\ \A row \in rows : row \in dead <=> target[row] = target[r]
  OBVIOUS
<1>4. target[r] \in Retros
  BY <1>1 DEF RequestsWellFormed, InFlight
<1>5. TypeOK'
  <2>1. personal' \in [Requests -> OptRequest]
    BY DEF DeleteTxn, TypeOK, OptRequest
  <2>2. answer' \in [Requests -> [Questions -> OptRequest]]
    <3>1. BlankAnswers \in [Questions -> OptRequest]
      BY DEF BlankAnswers, OptRequest
    <3>2. answer' = [row \in Requests |-> IF row \in dead THEN BlankAnswers ELSE answer[row]]
      BY DEF DeleteTxn
    <3> QED
      BY <3>1, <3>2 DEF TypeOK
  <2>3. roomMembers' \subseteq Members
    BY DEF DeleteTxn, TypeOK
  <2> HIDE DEF dead
  <2> QED
    BY <1>1, <1>3, <1>4, <2>1, <2>2, <2>3 DEF TypeOK, OptRequest, Status, Ended
<1> HIDE DEF dead
<1>6. RequestsWellFormed'
  BY <1>1 DEF TypeOK, RequestsWellFormed, InFlight, Ended
<1>7. RowsWellFormed'
  BY <1>1, <1>3 DEF TypeOK, RowsWellFormed
<1>8. LocksHeld'
  <2>1. ASSUME NEW x \in Requests, lock'[x] # None
        PROVE  pc'[lock'[x]] = "writeSubmit" /\ snap'[lock'[x]] = {x}
    BY <1>1, <2>1 DEF TypeOK, OptRequest, LocksHeld
  <2>2. ASSUME NEW s \in Requests, pc'[s] = "writeSubmit"
        PROVE  \E x \in rows' : snap'[s] = {x} /\ lock'[x] = s /\ status'[x] = "DRAFT"
    <3>1. pc[s] = "writeSubmit"
      BY <1>1, <2>2 DEF TypeOK
    <3>2. PICK x \in rows : snap[s] = {x} /\ lock[x] = s /\ status[x] = "DRAFT"
      BY <3>1 DEF LocksHeld
    <3>3. x \notin dead
      BY <1>2, <3>2
    <3> QED
      BY <1>1, <3>2, <3>3 DEF TypeOK
  <2> QED
    BY <2>1, <2>2 DEF LocksHeld
<1>9. AnalysisReadSubmitted' /\ SubmittedIffTimestamped'
  BY <1>1 DEF TypeOK, AnalysisReadSubmitted, SubmittedIffTimestamped
<1>10. AnalysedTogether'
  BY <1>1, <1>3, <1>4 DEF TypeOK, AnalysedTogether
<1>11. AcknowledgedSubmitDurable'
  <2> SUFFICES ASSUME NEW s \in Requests, pc'[s] = "submitted", target'[s] \in exists'
               PROVE  \E x \in rows' : snap'[s] = {x} /\ submittedAt'[x] = s
    BY DEF AcknowledgedSubmitDurable
  <2>1. pc[s] = "submitted" /\ target[s] \in exists /\ target[s] # target[r]
    BY <1>1 DEF TypeOK
  <2>2. PICK x \in rows : snap[s] = {x} /\ submittedAt[x] = s
    BY <2>1 DEF AcknowledgedSubmitDurable
  <2>3. x \notin dead
    BY <1>3, <2>1, <2>2 DEF RequestsWellFormed
  <2> QED
    BY <1>1, <2>2, <2>3 DEF TypeOK
<1> QED
  BY <1>5, <1>6, <1>7, <1>8, <1>9, <1>10, <1>11

\* Withdrawals, start times and months leave the rows and requests alone.
LEMMA ClockAndMembersIInv ==
    ASSUME IInv,
           \/ \E m \in Members : Withdraw(m)
           \/ \E t \in Retros : StartTimePasses(t)
           \/ NewMonth
    PROVE  IInv'
<1> USE ConstantsAssumption DEF IInv
<1>1. UNCHANGED <<exists, insight, rows, status, submittedAt, personal, answer, lock,
                  pc, who, target, snap, addressed>>
  BY DEF Withdraw, StartTimePasses, NewMonth, retroVars, memberVars, rowVars, requestVars
<1>2. TypeOK'
  <2>1. /\ started' \subseteq Retros /\ thisMonth' \subseteq Retros
        /\ roomMembers' \subseteq Members /\ withdrawn' \subseteq Members
    BY DEF TypeOK, Withdraw, StartTimePasses, NewMonth, retroVars, memberVars
  <2> QED
    BY <1>1, <2>1 DEF TypeOK
<1>3. RequestsWellFormed' /\ RowsWellFormed' /\ LocksHeld' /\ AnalysisReadSubmitted'
  BY <1>1 DEF RequestsWellFormed, RowsWellFormed, LocksHeld, AnalysisReadSubmitted
<1>4. SubmittedIffTimestamped' /\ AnalysedTogether' /\ AcknowledgedSubmitDurable'
  BY <1>1 DEF SubmittedIffTimestamped, AnalysedTogether, AcknowledgedSubmitDurable
<1> QED
  BY <1>2, <1>3, <1>4

\* Every step keeps the inductive invariant.
LEMMA StepIInv == IInv /\ [Next]_vars => IInv'
<1> SUFFICES ASSUME IInv, [Next]_vars PROVE IInv'
  OBVIOUS
<1>1. ASSUME NEW r \in Requests, Receive(r) PROVE IInv'
  <2>1. PICK m \in Members, t \in Retros :
          \/ CreateParticipantCheck(r, m, t) \/ SaveDraftRead(r, m, t)
          \/ SubmitLock(r, m, t) \/ AnalyzeCheck(r, m, t) \/ DeleteCheck(r, m, t)
    BY <1>1 DEF Receive
  <2>2. {} \in SUBSET {row \in rows : target[row] = t}
    OBVIOUS
  <2>3. CASE CreateParticipantCheck(r, m, t)
    BY <2>2, <2>3, BeginIInv DEF CreateParticipantCheck, InFlight
  <2>4. CASE SaveDraftRead(r, m, t)
    <3>1. MyRows(m, t) \in SUBSET {row \in rows : target[row] = t}
      BY DEF MyRows
    <3> QED
      BY <2>4, <3>1, BeginIInv DEF SaveDraftRead, InFlight
  <2>5. CASE SubmitLock(r, m, t)
    BY <2>5, SubmitLockIInv
  <2>6. CASE AnalyzeCheck(r, m, t)
    BY <2>2, <2>6, BeginIInv DEF AnalyzeCheck, InFlight
  <2>7. CASE DeleteCheck(r, m, t)
    BY <2>2, <2>7, BeginIInv DEF DeleteCheck, InFlight
  <2> QED
    BY <2>1, <2>3, <2>4, <2>5, <2>6, <2>7
<1>2. ASSUME NEW r \in Requests, Serve(r) PROVE IInv'
  BY <1>2, CreateParticipantInsertIInv, SaveDraftWriteIInv, SubmitWriteIInv, AnalyzeQuotaIInv,
     AnalyzeMembersIInv, AnalyzeAnswersIInv, AnalyzeSaveIInv, DeleteTxnIInv DEF Serve, Missions
<1>3. CASE Environment
  <2>1. ASSUME NEW r \in Requests, Abort(r) PROVE IInv'
    BY <2>1, FailIInv DEF Abort
  <2> QED
    BY <1>3, <2>1, ClockAndMembersIInv DEF Environment
<1>4. CASE UNCHANGED vars
  BY <1>4 DEF vars, retroVars, memberVars, rowVars, requestVars, IInv, TypeOK,
     RequestsWellFormed, RowsWellFormed, LocksHeld, AnalysisReadSubmitted,
     SubmittedIffTimestamped, AnalysedTogether, AcknowledgedSubmitDurable
<1> QED
  BY <1>1, <1>2, <1>3, <1>4 DEF Next

\* The inductive invariant holds throughout every behaviour.
THEOREM Invariance == Spec => []IInv
<1> QED
  BY InitIInv, StepIInv, PTL DEF Spec

\* Every variable stays in its type.
THEOREM TypeCorrect == Spec => []TypeOK
<1>1. IInv => TypeOK
  BY DEF IInv
<1> QED
  BY <1>1, Invariance, PTL

\* A participant is past DRAFT exactly when it has a submission time.
THEOREM SubmittedIffTimestampedAlways == Spec => []SubmittedIffTimestamped
<1>1. IInv => SubmittedIffTimestamped
  BY DEF IInv
<1> QED
  BY <1>1, Invariance, PTL

\* A retrospect has an insight exactly when a participant is ANALYZED.
THEOREM AnalysedTogetherAlways == Spec => []AnalysedTogether
<1>1. IInv => AnalysedTogether
  BY DEF IInv
<1> QED
  BY <1>1, Invariance, PTL

\* An acknowledged submission stays, under its own time, until the deletion.
THEOREM AcknowledgedSubmitDurableAlways == Spec => []AcknowledgedSubmitDurable
<1>1. IInv => AcknowledgedSubmitDurable
  BY DEF IInv
<1> QED
  BY <1>1, Invariance, PTL

\* Only a submission of a DRAFT row, and an analysis of rows past DRAFT,
\* write the status or the time of a row that stays.
LEMMA StepMovesForward ==
    ASSUME IInv, Next, NEW row \in rows \intersect rows'
    PROVE  RowMovesForward(row)
<1> USE ConstantsAssumption
<1>1. row \in Requests /\ TypeOK
  BY DEF IInv, TypeOK
<1>2. CASE status'[row] = status[row] /\ submittedAt'[row] = submittedAt[row]
  <2>1. StatusRank[status[row]] \in Nat
    BY <1>1 DEF TypeOK, Status, StatusRank
  <2> QED
    BY <1>2, <2>1 DEF RowMovesForward
<1>3. ASSUME NEW r \in Requests, SubmitWrite(r) PROVE RowMovesForward(row)
  <2>1. CASE row \in snap[r]
    <3>1. pc[r] = "writeSubmit"
      BY <1>3 DEF SubmitWrite
    <3>2. status[row] = "DRAFT" /\ submittedAt[row] = None
      BY <2>1, <3>1, <1>1 DEF IInv, LocksHeld, SubmittedIffTimestamped
    <3>3. status'[row] = "SUBMITTED"
      BY <1>1, <1>3, <2>1 DEF SubmitWrite
    <3> QED
      BY <3>2, <3>3 DEF RowMovesForward, StatusRank
  <2>2. CASE row \notin snap[r]
    BY <1>1, <1>2, <1>3, <2>2 DEF SubmitWrite
  <2> QED
    BY <2>1, <2>2
<1>4. ASSUME NEW r \in Requests, NEW missions \in SUBSET addressed[r], AnalyzeSave(r, missions)
      PROVE  RowMovesForward(row)
  <2>1. CASE target[r] \in exists /\ snap[r] \subseteq rows /\ row \in snap[r]
    <3>1. pc[r] = "saveAnalysis"
      BY <1>4 DEF AnalyzeSave
    <3>2. status[row] \in {"SUBMITTED", "ANALYZED"}
      BY <1>1, <2>1, <3>1 DEF IInv, AnalysisReadSubmitted, TypeOK, Status
    <3>3. status'[row] = "ANALYZED" /\ submittedAt'[row] = submittedAt[row]
      BY <1>1, <1>4, <2>1 DEF AnalyzeSave
    <3> QED
      BY <3>2, <3>3 DEF RowMovesForward, StatusRank
  <2>2. CASE target[r] \in exists /\ snap[r] \subseteq rows /\ row \notin snap[r]
    BY <1>1, <1>2, <1>4, <2>2 DEF AnalyzeSave
  <2>3. CASE ~(target[r] \in exists /\ snap[r] \subseteq rows)
    BY <1>2, <1>4, <2>3 DEF AnalyzeSave, Fail, rowVars
  <2> QED
    BY <2>1, <2>2, <2>3
<1>5. ASSUME NEW r \in Requests, DeleteTxn(r) PROVE RowMovesForward(row)
  BY <1>1, <1>2, <1>5 DEF DeleteTxn
<1>6. ASSUME NEW r \in Requests, Receive(r) PROVE RowMovesForward(row)
  BY <1>2, <1>6 DEF Receive, CreateParticipantCheck, SaveDraftRead, SubmitLock, AnalyzeCheck,
     DeleteCheck, rowVars
<1>7. ASSUME NEW r \in Requests, Serve(r) PROVE RowMovesForward(row)
  <2>1. CASE CreateParticipantInsert(r)
    BY <1>2, <2>1 DEF CreateParticipantInsert, Fail, rowVars
  <2>2. ASSUME NEW written, NEW cleared, SaveDraftWrite(r, written, cleared)
        PROVE  RowMovesForward(row)
    BY <1>2, <2>2 DEF SaveDraftWrite, Fail, rowVars
  <2>3. CASE AnalyzeQuota(r) \/ AnalyzeAnswers(r)
    BY <1>2, <2>3 DEF AnalyzeQuota, AnalyzeAnswers, Fail, rowVars
  <2>4. CASE AnalyzeMembers(r)
    BY <1>2, <2>4 DEF AnalyzeMembers, Fail, rowVars
  <2> QED
    BY <1>3, <1>4, <1>5, <1>7, <2>1, <2>2, <2>3, <2>4 DEF Serve, Missions
<1>8. CASE Environment
  BY <1>2, <1>8 DEF Environment, Withdraw, StartTimePasses, NewMonth, Abort, Fail, rowVars
<1> QED
  BY <1>6, <1>7, <1>8 DEF Next

\* A participant's status and submission time only move forward.
THEOREM StatusForwardAlways == Spec => StatusForward
<1>1. IInv /\ [Next]_vars => [\A row \in rows \intersect rows' : RowMovesForward(row)]_vars
  BY StepMovesForward
<1> QED
  BY <1>1, Invariance, PTL DEF Spec, StatusForward

-----------------------------------------------------------------------------
(***************************************************************************)
(* Rows are written for their own members only                             *)
(***************************************************************************)

\* A step keeps RowsOwned when it stores nothing and moves one request only,
\* which was idle or in flight and is not over with a success afterwards.
LEMMA QuietStepRowsOwned ==
    ASSUME IInv, RowsOwned, NEW r \in Requests,
           pc[r] \in {"idle"} \union InFlight,
           UNCHANGED <<rows, answer, submittedAt, personal>>,
           \A s \in Requests \ {r} :
               /\ pc'[s] = pc[s] /\ who'[s] = who[s] /\ target'[s] = target[s]
               /\ snap'[s] = snap[s] /\ addressed'[s] = addressed[s],
           pc'[r] \in {"writeDraft", "writeSubmit"} =>
               \A row \in snap'[r] : row \in rows /\ who[row] = who'[r],
           pc'[r] \in {"answers", "saveAnalysis"} => addressed'[r] \subseteq snap'[r]
    PROVE  RowsOwned'
<1> USE ConstantsAssumption
<1>1. \A row \in rows : row \in Requests \ {r} /\ pc[row] = "joined"
  BY DEF IInv, TypeOK, RowsWellFormed, InFlight
<1>2. \A s \in Requests : \A row \in snap[s] : row \in Requests \ {r} /\ pc[row] = "joined"
  BY DEF IInv, TypeOK, RequestsWellFormed, InFlight
<1>3. \A row \in rows, q \in Questions :
        answer[row][q] # None =>
            answer[row][q] \in Requests \ {r} /\ pc[answer[row][q]] \in {"drafted", "submitted"}
  BY <1>1 DEF RowsOwned, IInv, TypeOK, OptRequest, InFlight
<1>4. \A row \in rows :
        /\ personal[row] # None => personal[row] \in Requests \ {r} /\ pc[personal[row]] = "analysed"
        /\ submittedAt[row] # None =>
             submittedAt[row] \in Requests \ {r} /\ pc[submittedAt[row]] = "submitted"
  BY <1>1 DEF RowsOwned, IInv, TypeOK, OptRequest, InFlight
<1>5. \A s \in Requests :
        pc'[s] \in {"writeDraft", "writeSubmit"} => \A row \in snap'[s] : who'[row] = who'[s]
  BY <1>1, <1>2 DEF RowsOwned
<1>6. \A s \in Requests : pc'[s] \in {"answers", "saveAnalysis"} => addressed'[s] \subseteq snap'[s]
  BY DEF RowsOwned
<1>7. \A s \in Requests \ rows' : answer'[s] = BlankAnswers' /\ personal'[s] = None
  BY DEF RowsOwned, BlankAnswers
<1>8. /\ \A row \in rows', q \in Questions :
           answer'[row][q] # None => pc'[answer'[row][q]] \in {"drafted", "submitted"}
      /\ \A row \in rows' : personal'[row] # None => pc'[personal'[row]] = "analysed"
      /\ \A row \in rows' : submittedAt'[row] # None => pc'[submittedAt'[row]] = "submitted"
  BY <1>3, <1>4
<1>9. RowsIsolated'
  BY <1>1, <1>3, <1>4 DEF RowsOwned, RowsIsolated, ForRow
<1> QED
  BY <1>5, <1>6, <1>7, <1>8, <1>9 DEF RowsOwned

\* A request that fails was in flight, and leaves nothing.
LEMMA FailRowsOwned ==
    ASSUME IInv, RowsOwned, NEW r \in Requests, pc[r] \in InFlight, Fail(r)
    PROVE  RowsOwned'
<1>1. /\ UNCHANGED <<rows, answer, submittedAt, personal>>
      /\ \A s \in Requests \ {r} :
           /\ pc'[s] = pc[s] /\ who'[s] = who[s] /\ target'[s] = target[s]
           /\ snap'[s] = snap[s] /\ addressed'[s] = addressed[s]
      /\ pc'[r] = "failed"
  BY DEF Fail, rowVars, IInv, TypeOK
<1> QED
  BY <1>1, QuietStepRowsOwned

\* A request begins by reading rows of its own member, or none.
LEMMA ReceiveRowsOwned ==
    ASSUME IInv, RowsOwned, NEW r \in Requests, Receive(r)
    PROVE  RowsOwned'
<1>1. PICK m \in Members, t \in Retros :
        \/ CreateParticipantCheck(r, m, t) \/ SaveDraftRead(r, m, t)
        \/ SubmitLock(r, m, t) \/ AnalyzeCheck(r, m, t) \/ DeleteCheck(r, m, t)
  BY DEF Receive
<1>2. PICK next \in InFlight \ {"answers", "saveAnalysis"}, read \in SUBSET MyRows(m, t) :
        Begin(r, m, t, next, read) /\ UNCHANGED <<rows, answer, submittedAt, personal>>
  BY <1>1 DEF CreateParticipantCheck, SaveDraftRead, SubmitLock, AnalyzeCheck, DeleteCheck,
     rowVars, InFlight
<1>3. /\ pc[r] = "idle"
      /\ \A s \in Requests \ {r} :
           /\ pc'[s] = pc[s] /\ who'[s] = who[s] /\ target'[s] = target[s]
           /\ snap'[s] = snap[s] /\ addressed'[s] = addressed[s]
      /\ pc'[r] = next /\ who'[r] = m /\ snap'[r] = read
  BY <1>2 DEF Begin, IInv, TypeOK
<1>4. \A row \in read : row \in rows /\ who[row] = m
  BY DEF MyRows
<1> QED
  BY <1>2, <1>3, <1>4, QuietStepRowsOwned

\* A new row is blank, and it is its own request's.
LEMMA InsertRowsOwned ==
    ASSUME IInv, RowsOwned, NEW r \in Requests, CreateParticipantInsert(r)
    PROVE  RowsOwned'
<1> USE ConstantsAssumption
<1>1. CASE target[r] \in exists /\ who[r] \notin withdrawn
  <2>1. /\ pc[r] = "insert" /\ pc' = [pc EXCEPT ![r] = "joined"]
        /\ rows' = rows \union {r}
        /\ UNCHANGED <<who, target, snap, addressed, answer, submittedAt, personal>>
    BY <1>1 DEF CreateParticipantInsert, Continue
  <2>2. r \notin rows
    BY <2>1 DEF IInv, RowsWellFormed
  <2>3. answer[r] = BlankAnswers /\ personal[r] = None /\ submittedAt[r] = None
    BY <2>2 DEF RowsOwned, IInv, RowsWellFormed
  <2>4. \A q \in Questions : answer[r][q] = None
    BY <2>3 DEF BlankAnswers
  <2>5. rows \subseteq Requests
    BY DEF IInv, TypeOK
  <2>6. \A row \in rows, q \in Questions :
          answer[row][q] # None =>
              answer[row][q] \in Requests \ {r} /\ pc[answer[row][q]] \in {"drafted", "submitted"}
    BY <2>1, <2>5 DEF RowsOwned, IInv, TypeOK, OptRequest
  <2>7. \A row \in rows :
          /\ personal[row] # None => personal[row] \in Requests \ {r} /\ pc[personal[row]] = "analysed"
          /\ submittedAt[row] # None =>
               submittedAt[row] \in Requests \ {r} /\ pc[submittedAt[row]] = "submitted"
    BY <2>1, <2>5 DEF RowsOwned, IInv, TypeOK, OptRequest
  <2>8. \A s \in Requests :
          pc'[s] \in {"writeDraft", "writeSubmit", "answers", "saveAnalysis"} => pc'[s] = pc[s]
    BY <2>1 DEF IInv, TypeOK
  <2>9. RowsIsolated'
    BY <2>1, <2>3, <2>4 DEF RowsOwned, RowsIsolated, ForRow
  <2>10. pc' \in [Requests -> {"idle"} \union InFlight \union Ended]
          /\ \A s \in Requests \ {r} : pc'[s] = pc[s]
    BY <2>1 DEF IInv, TypeOK, Ended
  <2>11. \A row \in rows', q \in Questions :
           answer'[row][q] # None => pc'[answer'[row][q]] \in {"drafted", "submitted"}
    BY <2>1, <2>4, <2>6, <2>10
  <2>12. /\ \A row \in rows' : personal'[row] # None => pc'[personal'[row]] = "analysed"
         /\ \A row \in rows' : submittedAt'[row] # None => pc'[submittedAt'[row]] = "submitted"
    BY <2>1, <2>3, <2>7, <2>10
  <2>13. \A s \in Requests \ rows' : answer'[s] = BlankAnswers' /\ personal'[s] = None
    BY <2>1 DEF RowsOwned, BlankAnswers
  <2> QED
    BY <2>1, <2>8, <2>9, <2>11, <2>12, <2>13 DEF RowsOwned
<1>2. CASE ~(target[r] \in exists /\ who[r] \notin withdrawn)
  BY <1>2, FailRowsOwned DEF CreateParticipantInsert, InFlight
<1> QED
  BY <1>1, <1>2

\* A draft or a submission that is over has written rows of its own member.
LEMMA AnswersRowsOwned ==
    ASSUME IInv, RowsOwned, NEW r \in Requests, NEW over \in {"drafted", "submitted"},
           pc[r] \in {"writeDraft", "writeSubmit"},
           snap[r] \subseteq rows,
           pc' = [pc EXCEPT ![r] = over],
           UNCHANGED <<rows, personal, who, target, snap, addressed>>,
           \A row \in Requests \ snap[r] : answer'[row] = answer[row],
           \A row \in snap[r], q \in Questions : answer'[row][q] \in {None, r, answer[row][q]},
           \A row \in rows :
               \/ submittedAt'[row] = submittedAt[row]
               \/ over = "submitted" /\ row \in snap[r] /\ submittedAt'[row] = r
    PROVE  RowsOwned'
<1> USE ConstantsAssumption
<1>1. rows \subseteq Requests /\ BlankAnswers' = BlankAnswers
  BY DEF IInv, TypeOK, BlankAnswers
<1>2. \A row \in snap[r] : who[row] = who[r] /\ target[row] = target[r]
  BY DEF RowsOwned, IInv, RequestsWellFormed
<1>3. /\ pc'[r] = over
      /\ \A s \in Requests \ {r} : pc'[s] = pc[s]
  BY DEF IInv, TypeOK
<1>4. \A row \in rows, q \in Questions :
        answer[row][q] # None =>
            answer[row][q] \in Requests \ {r} /\ pc[answer[row][q]] \in {"drafted", "submitted"}
  BY <1>1 DEF RowsOwned, IInv, TypeOK, OptRequest
<1>5. \A row \in rows :
        /\ personal[row] # None => personal[row] \in Requests \ {r} /\ pc[personal[row]] = "analysed"
        /\ submittedAt[row] # None =>
             submittedAt[row] \in Requests \ {r} /\ pc[submittedAt[row]] = "submitted"
  BY <1>1 DEF RowsOwned, IInv, TypeOK, OptRequest
<1>6. \A row \in rows, q \in Questions :
        answer'[row][q] = answer[row][q] \/ answer'[row][q] = None
            \/ (row \in snap[r] /\ answer'[row][q] = r)
  BY <1>1
<1>7. \A row \in rows, q \in Questions :
        answer'[row][q] # None => pc'[answer'[row][q]] \in {"drafted", "submitted"}
  BY <1>3, <1>4, <1>6
<1>8. \A row \in rows, q \in Questions :
        answer'[row][q] # None =>
            who[answer'[row][q]] = who[row] /\ target[answer'[row][q]] = target[row]
  BY <1>2, <1>6 DEF RowsOwned, RowsIsolated, ForRow
<1>9. \A row \in rows :
         submittedAt'[row] # None =>
             who[submittedAt'[row]] = who[row] /\ target[submittedAt'[row]] = target[row]
  BY <1>2 DEF RowsOwned, RowsIsolated, ForRow
<1>10. \A row \in rows :
         personal[row] # None =>
             target[personal[row]] = target[row] /\ row \in snap[personal[row]]
  BY DEF RowsOwned, RowsIsolated
<1>11. RowsIsolated'
  BY <1>8, <1>9, <1>10 DEF RowsIsolated, ForRow
<1>12. /\ \A s \in Requests :
            pc'[s] \in {"writeDraft", "writeSubmit"} => \A row \in snap'[s] : who'[row] = who'[s]
       /\ \A s \in Requests :
            pc'[s] \in {"answers", "saveAnalysis"} => addressed'[s] \subseteq snap'[s]
  BY <1>3 DEF RowsOwned
<1>13. \A s \in Requests \ rows' : answer'[s] = BlankAnswers' /\ personal'[s] = None
  BY <1>1 DEF RowsOwned
<1>14. /\ \A row \in rows' : personal'[row] # None => pc'[personal'[row]] = "analysed"
       /\ \A row \in rows' : submittedAt'[row] # None => pc'[submittedAt'[row]] = "submitted"
  BY <1>3, <1>5
<1> QED
  BY <1>7, <1>11, <1>12, <1>13, <1>14 DEF RowsOwned

\* The two writers of answers.
LEMMA WritersRowsOwned ==
    ASSUME IInv, RowsOwned, NEW r \in Requests,
           \/ SubmitWrite(r)
           \/ \E written, cleared \in SUBSET Questions : SaveDraftWrite(r, written, cleared)
    PROVE  RowsOwned'
<1> USE ConstantsAssumption
<1>1. CASE SubmitWrite(r)
  <2>1. pc[r] = "writeSubmit" /\ snap[r] \subseteq rows
    BY <1>1 DEF SubmitWrite, IInv, LocksHeld
  <2>2. /\ pc' = [pc EXCEPT ![r] = "submitted"]
        /\ UNCHANGED <<rows, personal, who, target, snap, addressed>>
    BY <1>1 DEF SubmitWrite, Continue
  <2>3. rows \subseteq Requests
    BY DEF IInv, TypeOK
  <2>4. /\ \A row \in Requests \ snap[r] : answer'[row] = answer[row]
        /\ \A row \in snap[r], q \in Questions : answer'[row][q] \in {None, r, answer[row][q]}
        /\ \A row \in rows :
             submittedAt'[row] = submittedAt[row] \/ (row \in snap[r] /\ submittedAt'[row] = r)
    BY <1>1, <2>1, <2>3 DEF SubmitWrite, FullAnswers
  <2>5. "submitted" \in {"drafted", "submitted"} /\ pc[r] \in {"writeDraft", "writeSubmit"}
    BY <2>1
  <2> QED
    BY <2>1, <2>2, <2>4, <2>5, AnswersRowsOwned
<1>2. ASSUME NEW written \in SUBSET Questions, NEW cleared \in SUBSET Questions,
             SaveDraftWrite(r, written, cleared)
      PROVE  RowsOwned'
  <2>1. CASE snap[r] \subseteq rows
    <3>1. /\ pc[r] = "writeDraft"
          /\ pc' = [pc EXCEPT ![r] = "drafted"]
          /\ UNCHANGED <<rows, submittedAt, personal, who, target, snap, addressed>>
      BY <1>2, <2>1 DEF SaveDraftWrite, Continue
    <3>2. rows \subseteq Requests
      BY DEF IInv, TypeOK
    <3>3. /\ \A row \in Requests \ snap[r] : answer'[row] = answer[row]
          /\ \A row \in snap[r], q \in Questions :
               answer'[row][q] \in {None, r, answer[row][q]}
      BY <1>2, <2>1, <3>2 DEF SaveDraftWrite
    <3> QED
      BY <2>1, <3>1, <3>3, AnswersRowsOwned
  <2>2. CASE ~(snap[r] \subseteq rows)
    BY <1>2, <2>2, FailRowsOwned DEF SaveDraftWrite, InFlight
  <2> QED
    BY <2>1, <2>2
<1> QED
  BY <1>1, <1>2

\* An analysis on its way to the AI has missions for rows it read.
LEMMA AnalysisRowsOwned ==
    ASSUME IInv, RowsOwned, NEW r \in Requests,
           AnalyzeQuota(r) \/ AnalyzeMembers(r) \/ AnalyzeAnswers(r)
    PROVE  RowsOwned'
<1>1. CASE Fail(r)
  BY <1>1, FailRowsOwned DEF AnalyzeQuota, AnalyzeMembers, AnalyzeAnswers, InFlight
<1>2. CASE ~Fail(r)
  <2>1. /\ pc[r] \in InFlight
        /\ UNCHANGED <<rows, answer, submittedAt, personal>>
        /\ \A s \in Requests \ {r} :
             /\ pc'[s] = pc[s] /\ who'[s] = who[s] /\ target'[s] = target[s]
             /\ snap'[s] = snap[s] /\ addressed'[s] = addressed[s]
    BY <1>2 DEF AnalyzeQuota, AnalyzeMembers, AnalyzeAnswers, Continue, rowVars, InFlight,
       IInv, TypeOK
  <2>2. pc'[r] \in {"members", "answers", "saveAnalysis"}
    BY <1>2 DEF AnalyzeQuota, AnalyzeMembers, AnalyzeAnswers, Continue, IInv, TypeOK
  <2>3. pc'[r] \in {"answers", "saveAnalysis"} => addressed'[r] \subseteq snap'[r]
    <3>1. CASE AnalyzeQuota(r)
      BY <1>2, <3>1 DEF AnalyzeQuota, Continue, IInv, TypeOK
    <3>2. CASE AnalyzeMembers(r)
      BY <1>2, <3>2 DEF AnalyzeMembers, IInv, TypeOK
    <3>3. CASE AnalyzeAnswers(r)
      BY <1>2, <3>3 DEF AnalyzeAnswers, Continue, RowsOwned
    <3> QED
      BY <3>1, <3>2, <3>3
  <2> QED
    BY <2>1, <2>2, <2>3, QuietStepRowsOwned
<1> QED
  BY <1>1, <1>2

\* An analysis stores missions in rows it read, all of its own retrospect.
LEMMA AnalyzeSaveRowsOwned ==
    ASSUME IInv, RowsOwned, NEW r \in Requests, NEW missions \in SUBSET addressed[r],
           AnalyzeSave(r, missions)
    PROVE  RowsOwned'
<1> USE ConstantsAssumption
<1>1. pc[r] = "saveAnalysis"
  BY DEF AnalyzeSave
<1>2. CASE target[r] \in exists /\ snap[r] \subseteq rows
  <2>1. /\ pc' = [pc EXCEPT ![r] = "analysed"]
        /\ personal' = [row \in Requests |->
                           IF row \in missions THEN r
                           ELSE IF row \in snap[r] THEN None ELSE personal[row]]
        /\ UNCHANGED <<rows, answer, submittedAt, who, target, snap, addressed>>
    BY <1>2 DEF AnalyzeSave, Continue
  <2>2. rows \subseteq Requests /\ BlankAnswers' = BlankAnswers
    BY DEF IInv, TypeOK, BlankAnswers
  <2>3. missions \subseteq snap[r] /\ \A row \in snap[r] : target[row] = target[r]
    BY <1>1 DEF RowsOwned, IInv, RequestsWellFormed
  <2>4. pc'[r] = "analysed" /\ \A s \in Requests \ {r} : pc'[s] = pc[s]
    BY <2>1 DEF IInv, TypeOK
  <2>5. \A row \in rows, q \in Questions :
          answer[row][q] # None =>
              answer[row][q] \in Requests \ {r} /\ pc[answer[row][q]] \in {"drafted", "submitted"}
    BY <1>1, <2>2 DEF RowsOwned, IInv, TypeOK, OptRequest
  <2>6. \A row \in rows :
          /\ personal[row] # None => personal[row] \in Requests \ {r} /\ pc[personal[row]] = "analysed"
          /\ submittedAt[row] # None =>
               submittedAt[row] \in Requests \ {r} /\ pc[submittedAt[row]] = "submitted"
    BY <1>1, <2>2 DEF RowsOwned, IInv, TypeOK, OptRequest
  <2>7. \A row \in rows :
          \/ personal'[row] = r /\ row \in snap[r] /\ target[row] = target[r]
          \/ personal'[row] = None
          \/ personal'[row] = personal[row]
    BY <2>1, <2>2, <2>3
  <2>8. RowsIsolated'
    BY <2>1, <2>7 DEF RowsOwned, RowsIsolated, ForRow
  <2>9. \A s \in Requests \ rows' : answer'[s] = BlankAnswers' /\ personal'[s] = None
    BY <1>2, <2>1, <2>2, <2>3 DEF RowsOwned
  <2>10. /\ \A row \in rows', q \in Questions :
              answer'[row][q] # None => pc'[answer'[row][q]] \in {"drafted", "submitted"}
         /\ \A row \in rows' : personal'[row] # None => pc'[personal'[row]] = "analysed"
         /\ \A row \in rows' : submittedAt'[row] # None => pc'[submittedAt'[row]] = "submitted"
    BY <2>1, <2>4, <2>5, <2>6, <2>7
  <2>11. /\ \A s \in Requests :
              pc'[s] \in {"writeDraft", "writeSubmit"} => \A row \in snap'[s] : who'[row] = who'[s]
         /\ \A s \in Requests :
              pc'[s] \in {"answers", "saveAnalysis"} => addressed'[s] \subseteq snap'[s]
    BY <2>1, <2>4 DEF RowsOwned
  <2> QED
    BY <2>8, <2>9, <2>10, <2>11 DEF RowsOwned
<1>3. CASE ~(target[r] \in exists /\ snap[r] \subseteq rows)
  BY <1>1, <1>3, FailRowsOwned DEF AnalyzeSave, InFlight
<1> QED
  BY <1>2, <1>3

\* A deletion blanks what it removes.
LEMMA DeleteTxnRowsOwned ==
    ASSUME IInv, RowsOwned, NEW r \in Requests, DeleteTxn(r)
    PROVE  RowsOwned'
<1> USE ConstantsAssumption
<1> DEFINE dead == {row \in rows : target[row] = target[r]}
<1>1. /\ pc[r] = "delete" /\ pc' = [pc EXCEPT ![r] = "deleted"]
      /\ rows' = rows \ dead
      /\ personal' = [row \in Requests |-> IF row \in dead THEN None ELSE personal[row]]
      /\ answer' = [row \in Requests |-> IF row \in dead THEN BlankAnswers ELSE answer[row]]
      /\ submittedAt' = [row \in Requests |-> IF row \in dead THEN None ELSE submittedAt[row]]
      /\ UNCHANGED <<who, target, snap, addressed>>
  BY DEF DeleteTxn, Continue
<1>2. rows \subseteq Requests /\ BlankAnswers' = BlankAnswers
  BY DEF IInv, TypeOK, BlankAnswers
<1>3. \A row \in rows' :
        /\ row \in rows /\ answer'[row] = answer[row]
        /\ submittedAt'[row] = submittedAt[row] /\ personal'[row] = personal[row]
  BY <1>1, <1>2
<1>4. pc'[r] = "deleted" /\ \A s \in Requests \ {r} : pc'[s] = pc[s]
  BY <1>1 DEF IInv, TypeOK
<1>5. \A row \in rows, q \in Questions :
        answer[row][q] # None =>
            answer[row][q] \in Requests \ {r} /\ pc[answer[row][q]] \in {"drafted", "submitted"}
  BY <1>1, <1>2 DEF RowsOwned, IInv, TypeOK, OptRequest
<1>6. \A row \in rows :
        /\ personal[row] # None => personal[row] \in Requests \ {r} /\ pc[personal[row]] = "analysed"
        /\ submittedAt[row] # None =>
             submittedAt[row] \in Requests \ {r} /\ pc[submittedAt[row]] = "submitted"
  BY <1>1, <1>2 DEF RowsOwned, IInv, TypeOK, OptRequest
<1>7. RowsIsolated'
  <2> SUFFICES ASSUME NEW row \in rows'
               PROVE  /\ \A q \in Questions : (answer[row][q] # None => ForRow(answer[row][q], row))'
                      /\ (submittedAt[row] # None => ForRow(submittedAt[row], row))'
                      /\ (personal[row] # None => /\ target[personal[row]] = target[row]
                                                  /\ row \in snap[personal[row]])'
    BY DEF RowsIsolated
  <2>1. /\ row \in rows /\ answer'[row] = answer[row]
        /\ submittedAt'[row] = submittedAt[row] /\ personal'[row] = personal[row]
    BY <1>3
  <2>2. who' = who /\ target' = target /\ snap' = snap
    BY <1>1
  <2> QED
    BY <2>1, <2>2 DEF RowsOwned, RowsIsolated, ForRow
<1>8. \A s \in Requests \ rows' : answer'[s] = BlankAnswers' /\ personal'[s] = None
  BY <1>1, <1>2 DEF RowsOwned
<1>9. /\ \A row \in rows', q \in Questions :
           answer'[row][q] # None => pc'[answer'[row][q]] \in {"drafted", "submitted"}
      /\ \A row \in rows' : personal'[row] # None => pc'[personal'[row]] = "analysed"
      /\ \A row \in rows' : submittedAt'[row] # None => pc'[submittedAt'[row]] = "submitted"
  BY <1>3, <1>4, <1>5, <1>6
<1>10. /\ \A s \in Requests :
            pc'[s] \in {"writeDraft", "writeSubmit"} => \A row \in snap'[s] : who'[row] = who'[s]
       /\ \A s \in Requests :
            pc'[s] \in {"answers", "saveAnalysis"} => addressed'[s] \subseteq snap'[s]
  BY <1>1, <1>4 DEF RowsOwned
<1> QED
  BY <1>7, <1>8, <1>9, <1>10 DEF RowsOwned

\* Every step keeps the rows with their owners.
LEMMA StepRowsOwned == IInv /\ RowsOwned /\ [Next]_vars => RowsOwned'
<1> SUFFICES ASSUME IInv, RowsOwned, [Next]_vars PROVE RowsOwned'
  OBVIOUS
<1>1. ASSUME NEW r \in Requests, Serve(r) PROVE RowsOwned'
  BY <1>1, InsertRowsOwned, WritersRowsOwned, AnalysisRowsOwned, AnalyzeSaveRowsOwned,
     DeleteTxnRowsOwned DEF Serve, Missions
<1>2. ASSUME NEW r \in Requests, Abort(r) PROVE RowsOwned'
  BY <1>2, FailRowsOwned DEF Abort
<1>3. CASE UNCHANGED <<rows, answer, submittedAt, personal, pc, who, target, snap, addressed>>
  BY <1>3 DEF RowsOwned, RowsIsolated, ForRow, BlankAnswers
<1>4. ASSUME \/ \E m \in Members : Withdraw(m)
             \/ \E t \in Retros : StartTimePasses(t)
             \/ NewMonth
             \/ UNCHANGED vars
      PROVE  RowsOwned'
  BY <1>3, <1>4 DEF Withdraw, StartTimePasses, NewMonth, vars, rowVars, requestVars
<1> QED
  BY <1>1, <1>2, <1>4, ReceiveRowsOwned DEF Next, Environment

\* Answers and personal insights are written for their own member and
\* retrospect only, whatever the requests interleave.
THEOREM RowsAlwaysIsolated == Spec => []RowsIsolated
<1>1. Init => RowsOwned
  BY ConstantsAssumption DEF Init, RowsOwned, RowsIsolated, InFlight
<1>2. RowsOwned => RowsIsolated
  BY DEF RowsOwned
<1> QED
  BY <1>1, <1>2, StepRowsOwned, Invariance, PTL DEF Spec

-----------------------------------------------------------------------------
(***************************************************************************)
(* The readers                                                             *)
(***************************************************************************)

\* A request that is over keeps what it was about.
LEMMA EndedKept ==
    ASSUME IInv, [Next]_vars, NEW r \in Requests, pc[r] \in Ended
    PROVE  pc'[r] = pc[r] /\ who'[r] = who[r] /\ target'[r] = target[r] /\ snap'[r] = snap[r]
<1> USE ConstantsAssumption DEF IInv, TypeOK, InFlight, Ended
<1>1. CASE UNCHANGED vars
  BY <1>1 DEF vars, requestVars
<1>2. ASSUME NEW s \in Requests, Receive(s)
      PROVE  /\ pc'[r] = pc[r] /\ who'[r] = who[r]
             /\ target'[r] = target[r] /\ snap'[r] = snap[r]
  BY <1>2 DEF Receive, CreateParticipantCheck, SaveDraftRead, SubmitLock, AnalyzeCheck,
              DeleteCheck, Begin
<1>3. ASSUME NEW s \in Requests, Serve(s)
      PROVE  /\ pc'[r] = pc[r] /\ who'[r] = who[r]
             /\ target'[r] = target[r] /\ snap'[r] = snap[r]
  <2>1. CASE CreateParticipantInsert(s)
    BY <2>1 DEF CreateParticipantInsert, Continue, Fail
  <2>2. CASE \E written, cleared \in SUBSET Questions : SaveDraftWrite(s, written, cleared)
    BY <2>2 DEF SaveDraftWrite, Continue, Fail
  <2>3. CASE SubmitWrite(s)
    BY <2>3 DEF SubmitWrite, Continue
  <2>4. CASE AnalyzeQuota(s)
    BY <2>4 DEF AnalyzeQuota, Continue, Fail
  <2>5. CASE AnalyzeMembers(s)
    BY <2>5 DEF AnalyzeMembers, Fail
  <2>6. CASE AnalyzeAnswers(s)
    BY <2>6 DEF AnalyzeAnswers, Continue, Fail
  <2>7. CASE \E missions \in Missions(s) : AnalyzeSave(s, missions)
    BY <2>7 DEF AnalyzeSave, Continue, Fail
  <2>8. CASE DeleteTxn(s)
    BY <2>8 DEF DeleteTxn, Continue
  <2> QED
    BY <1>3, <2>1, <2>2, <2>3, <2>4, <2>5, <2>6, <2>7, <2>8 DEF Serve
<1>4. CASE Environment
  BY <1>4 DEF Environment, Withdraw, StartTimePasses, NewMonth, Abort, Fail, requestVars
<1> QED
  BY <1>1, <1>2, <1>3, <1>4 DEF Next

\* Retrospects and members only go, and a row goes with its retrospect.
LEMMA RowsKept ==
    ASSUME IInv, [Next]_vars
    PROVE  /\ exists' \subseteq exists
           /\ withdrawn \subseteq withdrawn'
           /\ \A row \in rows : target[row] \in exists' => row \in rows'
<1> USE ConstantsAssumption DEF retroVars, memberVars, rowVars, Fail
<1>1. CASE UNCHANGED vars
  BY <1>1 DEF vars, IInv, RowsWellFormed
<1>2. ASSUME NEW s \in Requests, Receive(s)
      PROVE  exists' = exists /\ withdrawn' = withdrawn /\ rows' = rows
  BY <1>2 DEF Receive, CreateParticipantCheck, SaveDraftRead, SubmitLock, AnalyzeCheck, DeleteCheck
<1>3. ASSUME NEW s \in Requests, Serve(s)
      PROVE  /\ exists' \subseteq exists
             /\ withdrawn \subseteq withdrawn'
             /\ \A row \in rows : target[row] \in exists' => row \in rows'
  <2>1. CASE CreateParticipantInsert(s)
    BY <2>1 DEF CreateParticipantInsert
  <2>2. CASE \E written, cleared \in SUBSET Questions : SaveDraftWrite(s, written, cleared)
    BY <2>2 DEF SaveDraftWrite
  <2>3. CASE SubmitWrite(s)
    BY <2>3 DEF SubmitWrite
  <2>4. CASE AnalyzeQuota(s)
    BY <2>4 DEF AnalyzeQuota
  <2>5. CASE AnalyzeMembers(s)
    BY <2>5 DEF AnalyzeMembers
  <2>6. CASE AnalyzeAnswers(s)
    BY <2>6 DEF AnalyzeAnswers
  <2>7. CASE \E missions \in Missions(s) : AnalyzeSave(s, missions)
    BY <2>7 DEF AnalyzeSave
  <2>8. CASE DeleteTxn(s)
    BY <2>8 DEF DeleteTxn
  <2> QED
    BY <1>3, <2>1, <2>2, <2>3, <2>4, <2>5, <2>6, <2>7, <2>8 DEF Serve
<1>4. CASE Environment
  BY <1>4 DEF Environment, Withdraw, StartTimePasses, NewMonth, Abort
<1> QED
  BY <1>1, <1>2, <1>3, <1>4 DEF Next

\* Insights are written by analyses that are over, and go with the rows.
LEMMA StepAnalysesOver ==
    ASSUME IInv, AnalysesOver, [Next]_vars
    PROVE  AnalysesOver'
<1> USE ConstantsAssumption
<1>1. /\ exists' \subseteq exists
      /\ \A row \in rows : target[row] \in exists' => row \in rows'
  BY RowsKept
<1>2. \A t \in exists : insight[t] \in Requests \union {None}
  BY DEF IInv, TypeOK, OptRequest
<1>3. \A t \in exists' :
        insight'[t] = insight[t] /\ insight[t] # None =>
            /\ pc'[insight'[t]] = "analysed" /\ target'[insight'[t]] = t
            /\ snap'[insight'[t]] \subseteq rows'
  <2> SUFFICES ASSUME NEW t \in exists', insight'[t] = insight[t], insight[t] # None
               PROVE  /\ pc'[insight[t]] = "analysed" /\ target'[insight[t]] = t
                      /\ snap'[insight[t]] \subseteq rows'
    OBVIOUS
  <2>1. /\ insight[t] \in Requests /\ pc[insight[t]] = "analysed" /\ target[insight[t]] = t
        /\ snap[insight[t]] \subseteq rows
    BY <1>1, <1>2 DEF AnalysesOver
  <2>2. /\ pc'[insight[t]] = "analysed" /\ target'[insight[t]] = t
        /\ snap'[insight[t]] = snap[insight[t]]
    BY <2>1, EndedKept DEF Ended
  <2>3. \A row \in snap[insight[t]] : target[row] = t
    BY <2>1 DEF IInv, RequestsWellFormed
  <2> QED
    BY <1>1, <2>1, <2>2, <2>3
<1>4. \A t \in exists' :
        insight'[t] # insight[t] /\ insight'[t] # None =>
            /\ pc'[insight'[t]] = "analysed" /\ target'[insight'[t]] = t
            /\ snap'[insight'[t]] \subseteq rows'
  <2>1. CASE UNCHANGED insight
    BY <2>1
  <2>2. ASSUME NEW s \in Requests, NEW missions \in Missions(s), AnalyzeSave(s, missions),
               insight' # insight
        PROVE  \A t \in exists' :
                 insight'[t] # insight[t] /\ insight'[t] # None =>
                    /\ pc'[insight'[t]] = "analysed" /\ target'[insight'[t]] = t
                    /\ snap'[insight'[t]] \subseteq rows'
    BY <2>2 DEF AnalyzeSave, Continue, Fail, retroVars, IInv, TypeOK
  <2>3. ASSUME NEW s \in Requests, DeleteTxn(s)
        PROVE  \A t \in exists' : insight'[t] # insight[t] => insight'[t] = None
    BY <2>3 DEF DeleteTxn, IInv, TypeOK
  <2>4. ASSUME NEW s \in Requests, Receive(s) \/ Serve(s),
               ~\E missions \in Missions(s) : AnalyzeSave(s, missions), ~DeleteTxn(s)
        PROVE  UNCHANGED insight
    BY <2>4 DEF Receive, CreateParticipantCheck, SaveDraftRead, SubmitLock, AnalyzeCheck,
                DeleteCheck, Serve, CreateParticipantInsert, SaveDraftWrite, SubmitWrite,
                AnalyzeQuota, AnalyzeMembers, AnalyzeAnswers, Fail, retroVars
  <2>5. CASE Environment \/ UNCHANGED vars
    BY <2>5 DEF Environment, Withdraw, StartTimePasses, NewMonth, Abort, Fail, retroVars, vars
  <2> QED
    BY <2>1, <2>2, <2>3, <2>4, <2>5 DEF Next
<1> QED
  BY <1>3, <1>4 DEF AnalysesOver

\* While the server works the reader's storage still fits.
LEMMA ServerStorageFound ==
    ASSUME IInv, StorageFound, [Next]_vars, UNCHANGED readerVars
    PROVE  StorageFound'
<1> USE DEF readerVars
<1>1. \A r \in Requests :
        pc[r] \in Ended =>
            pc'[r] = pc[r] /\ who'[r] = who[r] /\ target'[r] = target[r] /\ snap'[r] = snap[r]
  BY EndedKept
<1>2. /\ exists' \subseteq exists
      /\ \A row \in rows : target[row] \in exists' => row \in rows'
  BY RowsKept
<1>3. ASSUME at \in {"retros", "counts"}, NEW row \in found
      PROVE  /\ row \in Requests /\ pc'[row] = "joined"
             /\ target'[row] \in exists' => row \in rows'
             /\ times[row] \in Requests /\ pc'[times[row]] = "submitted"
             /\ who'[times[row]] = client /\ target'[times[row]] = target'[row]
  <2>1. /\ row \in Requests /\ pc[row] = "joined"
        /\ target[row] \in exists => row \in rows
        /\ times[row] \in Requests /\ pc[times[row]] = "submitted"
        /\ who[times[row]] = client /\ target[times[row]] = target[row]
    BY <1>3 DEF StorageFound
  <2>2. pc[row] \in Ended /\ pc[times[row]] \in Ended
    BY <2>1 DEF Ended
  <2> QED
    BY <1>1, <1>2, <2>1, <2>2
<1>4. at = "counts" => {target'[row] : row \in found} = {target[row] : row \in found}
  BY <1>1 DEF StorageFound, Ended
<1> QED
  BY <1>3, <1>4 DEF StorageFound

\* And so does its report.
LEMMA ServerReportFound ==
    ASSUME IInv, ReportFound, [Next]_vars, UNCHANGED readerVars
    PROVE  ReportFound'
<1> USE DEF readerVars
<1>1. \A r \in Requests :
        pc[r] \in Ended =>
            pc'[r] = pc[r] /\ who'[r] = who[r] /\ target'[r] = target[r] /\ snap'[r] = snap[r]
  BY EndedKept
<1>2. /\ exists' \subseteq exists
      /\ withdrawn \subseteq withdrawn'
      /\ \A row \in rows : target[row] \in exists' => row \in rows'
  BY RowsKept
<1>3. ASSUME at \in {"rows", "names", "answers", "totals", "authors"}, insightOf # None
      PROVE  /\ insightOf \in Requests /\ pc'[insightOf] = "analysed" /\ target'[insightOf] = about
             /\ about \in exists' => snap'[insightOf] \subseteq rows'
             /\ at # "rows" /\ about \in exists' => snap'[insightOf] \subseteq found
  <2>1. /\ insightOf \in Requests /\ pc[insightOf] = "analysed" /\ target[insightOf] = about
        /\ about \in exists => snap[insightOf] \subseteq rows
        /\ at # "rows" /\ about \in exists => snap[insightOf] \subseteq found
    BY <1>3 DEF ReportFound
  <2>2. \A row \in snap[insightOf] : target[row] = about
    BY <2>1 DEF IInv, RequestsWellFormed
  <2>3. pc[insightOf] \in Ended
    BY <2>1 DEF Ended
  <2> QED
    BY <1>1, <1>2, <2>1, <2>2, <2>3
<1>4. at \in {"names", "answers", "totals", "authors"} =>
        \A row \in found : row \in Requests /\ pc'[row] = "joined" /\ who'[row] = who[row]
  BY <1>1 DEF ReportFound, Ended
<1>5. at \in {"answers", "totals", "authors"} =>
        \A row \in found : who'[row] \in names \union withdrawn'
  BY <1>2, <1>4 DEF ReportFound
<1>6. at = "authors" =>
        \A x \in texts :
            /\ {x[1], x[2]} \subseteq Requests
            /\ pc'[x[1]] = "joined" /\ pc'[x[2]] \in {"drafted", "submitted"}
            /\ who'[x[1]] = who'[x[2]]
  BY <1>1 DEF ReportFound, Ended
<1> QED
  BY <1>3, <1>4, <1>5, <1>6 DEF ReportFound

\* The reader's own steps, for the storage.
LEMMA ReadStorageFound ==
    ASSUME IInv, RowsOwned, StorageFound, Read, UNCHANGED vars
    PROVE  StorageFound'
<1> USE ConstantsAssumption
<1>1. ASSUME NEW m \in Members, NEW recent \in SUBSET Stored(m), StorageRows(m, recent)
      PROVE  StorageFound'
  <2>1. at' = "retros" /\ found' = recent /\ client' = m
    BY <1>1 DEF StorageRows
  <2>2. ASSUME NEW row \in recent
        PROVE  /\ row \in rows /\ row \in Requests /\ pc[row] = "joined"
               /\ times'[row] = submittedAt[row]
               /\ submittedAt[row] \in Requests /\ pc[submittedAt[row]] = "submitted"
               /\ who[submittedAt[row]] = m /\ target[submittedAt[row]] = target[row]
    <3>1. row \in rows /\ who[row] = m /\ status[row] # "DRAFT"
      BY DEF Stored, MyRows
    <3>2. row \in Requests /\ pc[row] = "joined"
      BY <3>1 DEF IInv, TypeOK, RowsWellFormed
    <3>3. submittedAt[row] # None /\ submittedAt[row] \in Requests
      BY <3>1, <3>2 DEF IInv, TypeOK, OptRequest, SubmittedIffTimestamped
    <3>4. pc[submittedAt[row]] = "submitted" /\ ForRow(submittedAt[row], row)
      BY <3>1, <3>3 DEF RowsOwned, RowsIsolated
    <3>5. times'[row] = submittedAt[row]
      BY <1>1, <3>2 DEF StorageRows
    <3> QED
      BY <3>1, <3>2, <3>3, <3>4, <3>5 DEF ForRow
  <2> QED
    BY <2>1, <2>2 DEF StorageFound, vars, retroVars, rowVars, requestVars
<1>2. CASE StorageRetros
  BY <1>2 DEF StorageRetros, StorageFound, vars, retroVars, rowVars, requestVars
<1>3. CASE ShowStorage \/ ShowDetail \/ GeneratePdf
  BY <1>3 DEF ShowStorage, ShowDetail, GeneratePdf, Answered, StorageFound
<1>4. CASE \E m \in Members, t \in Retros : OpenDetail(m, t) \/ OpenExport(m, t)
  BY <1>4 DEF OpenDetail, OpenExport, Open, StorageFound
<1>5. CASE ReadRows \/ ReadNames \/ ReadQuestions \/ ReadAnswers
  BY <1>5 DEF ReadRows, ReadNames, ReadQuestions, ReadAnswers, StorageFound
<1> QED
  BY <1>1, <1>2, <1>3, <1>4, <1>5 DEF Read

\* The reader's own steps, for a report.
LEMMA ReadReportFound ==
    ASSUME IInv, RowsOwned, AnalysesOver, ReportFound, Read, UNCHANGED vars
    PROVE  ReportFound'
<1> USE ConstantsAssumption DEF vars, retroVars, memberVars, rowVars, requestVars
<1>1. CASE (\E m \in Members : \E recent \in SUBSET Stored(m) : StorageRows(m, recent))
             \/ StorageRetros \/ ShowStorage \/ ShowDetail \/ GeneratePdf
  BY <1>1 DEF StorageRows, StorageRetros, ShowStorage, ShowDetail, GeneratePdf, Answered, ReportFound
<1>2. ASSUME NEW t \in Retros, NEW m \in Members, OpenDetail(m, t) \/ OpenExport(m, t)
      PROVE  ReportFound'
  <2>1. t \in exists /\ at' = "rows" /\ about' = t /\ insightOf' = insight[t]
    BY <1>2 DEF OpenDetail, OpenExport, Open
  <2>2. insight[t] # None =>
          /\ insight[t] \in Requests /\ pc[insight[t]] = "analysed" /\ target[insight[t]] = t
          /\ snap[insight[t]] \subseteq rows
    BY <2>1 DEF AnalysesOver, IInv, TypeOK, OptRequest
  <2> QED
    BY <2>1, <2>2 DEF ReportFound
<1>3. CASE ReadRows
  <2>1. /\ at = "rows" /\ at' = "names" /\ found' = Participants(about)
        /\ UNCHANGED <<about, insightOf>>
    BY <1>3 DEF ReadRows
  <2>2. \A row \in found' : row \in Requests /\ pc[row] = "joined"
    BY <2>1 DEF Participants, IInv, TypeOK, RowsWellFormed
  <2>3. insightOf # None =>
          /\ insightOf \in Requests /\ pc[insightOf] = "analysed" /\ target[insightOf] = about
          /\ about \in exists => snap[insightOf] \subseteq rows
    BY <2>1 DEF ReportFound
  <2>4. insightOf # None => \A row \in snap[insightOf] : target[row] = about
    BY <2>3 DEF IInv, RequestsWellFormed
  <2>5. insightOf # None /\ about \in exists => snap[insightOf] \subseteq found'
    BY <2>1, <2>3, <2>4 DEF Participants
  <2> QED
    BY <2>1, <2>2, <2>3, <2>5 DEF ReportFound
<1>4. CASE ReadNames
  BY <1>4 DEF ReadNames, ReportFound
<1>5. CASE ReadQuestions
  BY <1>5 DEF ReadQuestions, ReportFound
<1>6. CASE ReadAnswers
  <2>1. /\ at = "answers" /\ at' = "authors"
        /\ UNCHANGED <<about, insightOf, found, names>>
        /\ texts' = {<<row, answer[row][q]>> : row \in Participants(about), q \in Questions}
                       \ (Requests \X {None})
    BY <1>6 DEF ReadAnswers
  <2>2. ASSUME NEW x \in texts'
        PROVE  /\ {x[1], x[2]} \subseteq Requests
               /\ pc[x[1]] = "joined" /\ pc[x[2]] \in {"drafted", "submitted"}
               /\ who[x[1]] = who[x[2]]
    <3>1. PICK row \in Participants(about), q \in Questions : x = <<row, answer[row][q]>>
      BY <2>1
    <3>2. row \in rows /\ row \in Requests /\ pc[row] = "joined"
      BY DEF Participants, IInv, TypeOK, RowsWellFormed
    <3>3. answer[row][q] # None
      BY <2>1, <3>1, <3>2
    <3>4. answer[row][q] \in Requests
      BY <3>2, <3>3 DEF IInv, TypeOK, OptRequest
    <3>5. pc[answer[row][q]] \in {"drafted", "submitted"} /\ ForRow(answer[row][q], row)
      BY <3>2, <3>3 DEF RowsOwned, RowsIsolated
    <3> QED
      BY <3>1, <3>2, <3>4, <3>5 DEF ForRow
  <2> QED
    BY <2>1, <2>2 DEF ReportFound
<1> QED
  BY <1>1, <1>2, <1>3, <1>4, <1>5, <1>6 DEF Read

\* The readers disturb nothing, and what they have read stays true enough.
THEOREM ReaderInvariance ==
    ReaderSpec => []IInv /\ []RowsOwned /\ []AnalysesOver /\ []StorageFound /\ []ReportFound
<1>1. Init /\ ReaderInit => IInv /\ RowsOwned /\ AnalysesOver /\ StorageFound /\ ReportFound
  <2>1. Init => IInv
    BY InitIInv
  <2>2. Init => RowsOwned /\ AnalysesOver
    BY DEF Init, RowsOwned, RowsIsolated, AnalysesOver, BlankAnswers
  <2>3. ReaderInit => StorageFound /\ ReportFound
    BY DEF ReaderInit, StorageFound, ReportFound
  <2> QED
    BY <2>1, <2>2, <2>3
<1>2. ASSUME IInv, RowsOwned, AnalysesOver, StorageFound, ReportFound,
             [ReaderNext]_<<vars, readerVars>>
      PROVE  IInv' /\ RowsOwned' /\ AnalysesOver' /\ StorageFound' /\ ReportFound'
  <2>1. [Next]_vars
    BY <1>2 DEF ReaderNext
  <2>2. IInv' /\ RowsOwned' /\ AnalysesOver'
    BY <1>2, <2>1, StepIInv, StepRowsOwned, StepAnalysesOver
  <2>3. CASE UNCHANGED readerVars
    BY <1>2, <2>1, <2>2, <2>3, ServerStorageFound, ServerReportFound
  <2>4. CASE Read /\ UNCHANGED vars
    BY <1>2, <2>2, <2>4, ReadStorageFound, ReadReportFound
  <2> QED
    BY <1>2, <2>3, <2>4 DEF ReaderNext
<1> QED
  BY <1>1, <1>2, PTL DEF ReaderSpec

\* A step of a reader is none of the server, so that whatever holds of the
\* server's steps holds with readers.
THEOREM ReadersDisturbNothing == ReaderSpec => Spec
<1>1. [ReaderNext]_<<vars, readerVars>> => [Next]_vars
  BY DEF ReaderNext
<1> QED
  BY <1>1, PTL DEF ReaderSpec, Spec

\* A PDF gives an answer to its author or to nobody (PrintedUnderAuthor).
THEOREM AlwaysPrintedUnderAuthor == ReaderSpec => []PrintedUnderAuthor
<1>1. ReportFound => PrintedUnderAuthor
  BY DEF ReportFound, PrintedUnderAuthor, PrintedLines, AuthorOf
<1> QED
  BY <1>1, ReaderInvariance, PTL

\* A report lists every participant of the insight (AnalysedListed).
THEOREM AlwaysAnalysedListed == ReaderSpec => []AnalysedListed
<1>1. ReportFound => AnalysedListed
  BY DEF ReportFound, AnalysedListed, PrintedNames, DetailMembers
<1> QED
  BY <1>1, ReaderInvariance, PTL

\* The storage dates a retrospect by a submission of its client, and counts at
\* least that participant (StorageDated); of infinitely many there is no count.
THEOREM AlwaysStorageDated ==
    ASSUME IsFiniteSet(Requests)
    PROVE  ReaderSpec => []StorageDated
<1>1. ASSUME IInv, StorageFound PROVE StorageDated
  <2> SUFFICES ASSUME at = "counts", NEW t \in listed, NEW date \in DatesOf(t)
               PROVE  /\ date # None
                      /\ pc[date] = "submitted" /\ who[date] = client /\ target[date] = t
                      /\ t \in exists => MemberCount(t) >= 1
    BY DEF StorageDated
  <2> USE ConstantsAssumption
  <2>1. PICK first \in found : target[first] = t
    BY <1>1 DEF StorageFound
  <2>2. times[first] # None
    BY <1>1 DEF StorageFound
  <2>3. PICK row \in found : target[row] = t /\ date = times[row]
    BY <2>1, <2>2 DEF DatesOf
  <2>4. /\ row \in Requests
        /\ target[row] \in exists => row \in rows
        /\ times[row] \in Requests /\ pc[times[row]] = "submitted"
        /\ who[times[row]] = client /\ target[times[row]] = target[row]
    BY <1>1 DEF StorageFound
  <2>5. ASSUME t \in exists PROVE MemberCount(t) >= 1
    <3>1. IsFiniteSet(Participants(t))
      BY <1>1, FS_Subset DEF Participants, IInv, TypeOK
    <3>2. row \in Participants(t)
      BY <2>3, <2>4, <2>5 DEF Participants
    <3>3. Cardinality(Participants(t)) \in Nat /\ Cardinality(Participants(t)) # 0
      BY <3>1, <3>2, FS_CardinalityType, FS_EmptySet
    <3> QED
      BY <3>3 DEF MemberCount
  <2> QED
    BY <2>3, <2>4, <2>5
<1> QED
  BY <1>1, ReaderInvariance, PTL

=============================================================================
