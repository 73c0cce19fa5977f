-------------------------- MODULE RetrospectReaders --------------------------
(***************************************************************************)
(* What a client is shown of a retrospect while others work on it:         *)
(* get_storage, get_retrospect_detail and export_retrospect (with          *)
(* generate_pdf) of domain/retrospect/service.rs.                          *)
(*                                                                         *)
(* Each of them is a series of queries without a transaction, so what it   *)
(* shows is put together from states that lie apart.  Readers change       *)
(* nothing that others read; one of them stands for all.                   *)
(***************************************************************************)
EXTENDS RetrospectLifecycle

VARIABLES
    at,        \* the query the reader comes to next
    asked,     \* the report it was asked for
    client,    \* the member whose storage it is
    about,     \* the retrospect, None for the storage
    insightOf, \* the insight of the retrospect, as read
    found,     \* the member_retro rows read
    times,     \* submitted_at of these rows, as read
    names,     \* the members whose names were read
    listed,    \* the retrospects read for the storage
    texts      \* the questions, or the answers <<row, content>>, it read

readerVars == <<at, asked, client, about, insightOf, found, times, names, listed, texts>>

NoTimes == [row \in Requests |-> None]

ReaderInit ==
    /\ at = "idle"
    /\ asked = None
    /\ client = None
    /\ about = None
    /\ insightOf = None
    /\ found = {}
    /\ times = NoTimes
    /\ names = {}
    /\ texts = {}
    /\ listed = {}

-----------------------------------------------------------------------------

\* The report is shown, or the error, and the reader is done.
Answered ==
    /\ at' = "idle"
    /\ asked' = None
    /\ client' = None
    /\ about' = None
    /\ insightOf' = None
    /\ found' = {}
    /\ times' = NoTimes
    /\ names' = {}
    /\ listed' = {}
    /\ texts' = {}

\* Mutant: members who have withdrawn are left out.
Participants_Named(t) == {row \in rows : target[row] = t /\ who[row] \notin withdrawn}

Participants(t) == {row \in rows : target[row] = t}

(***************************************************************************)
(* get_storage                                                             *)
(***************************************************************************)

\* Mutant: the query forgets the filter on the status.
Stored_AnyStatus(m) == UNION {MyRows(m, t) : t \in Retros}

\* The member's rows that have left DRAFT.
Stored(m) ==
    {row \in UNION {MyRows(m, t) : t \in Retros} : status[row] \in {"SUBMITTED", "ANALYZED"}}

\* The range of the request keeps those submitted since some day.
StorageRows(m, recent) ==
    /\ at = "idle"
    /\ recent # {}
    /\ recent \subseteq Stored(m)
    /\ at' = "retros"
    /\ asked' = "storage"
    /\ client' = m
    /\ found' = recent
    /\ times' = [row \in Requests |-> IF row \in recent THEN submittedAt[row] ELSE None]
    /\ UNCHANGED <<about, insightOf, names, listed, texts>>

\* The retrospects of these rows that are still there.
StorageRetros ==
    /\ at = "retros"
    /\ at' = "counts"
    /\ listed' = {target[row] : row \in found} \intersect exists
    /\ UNCHANGED <<asked, client, about, insightOf, found, times, names, texts>>

\* The dates a retrospect may be listed under: the time of one of the rows, or
\* (None) the retrospect's own, when no row has one.
DatesOf(t) ==
    LET timed == {row \in found : target[row] = t /\ times[row] # None}
    IN  IF timed = {} THEN {None} ELSE {times[row] : row \in timed}

\* The participants are counted last, whoever they are.
MemberCount(t) == Cardinality(Participants(t))

ShowStorage ==
    /\ at = "counts"
    /\ Answered

(***************************************************************************)
(* get_retrospect_detail and export_retrospect, as far as they are alike   *)
(***************************************************************************)

\* The retrospect, and the client's membership in its room.
Open(kind, m, t) ==
    /\ at = "idle"
    /\ t \in exists
    /\ m \in roomMembers
    /\ at' = "rows"
    /\ asked' = kind
    /\ about' = t
    /\ insightOf' = insight[t]
    /\ UNCHANGED <<client, found, times, names, listed, texts>>

OpenDetail(m, t) == Open("detail", m, t)

\* The name of the room is read too; it changes nothing here.
OpenExport(m, t) == Open("export", m, t)

ReadRows ==
    /\ at = "rows"
    /\ found' = Participants(about)
    /\ at' = "names"
    /\ UNCHANGED <<asked, client, about, insightOf, times, names, listed, texts>>

\* The names of those whose member_id is not NULL.
ReadNames ==
    /\ at = "names"
    /\ names' = {who[row] : row \in found} \ withdrawn
    /\ at' = "answers"
    /\ UNCHANGED <<asked, client, about, insightOf, found, times, listed, texts>>

(***************************************************************************)
(* The rest of get_retrospect_detail                                       *)
(***************************************************************************)

\* Rows without a member, or whose name was not found, are not listed.
DetailMembers == {who[row] : row \in found} \intersect names

\* The retrospect has had answers to all its questions since it was created.
ReadQuestions ==
    /\ at = "answers"
    /\ asked = "detail"
    /\ texts' = IF about \in exists THEN Questions ELSE {}
    /\ at' = "totals"
    /\ UNCHANGED <<asked, client, about, insightOf, found, times, names, listed>>

\* The likes and comments are counted (module ResponseFeed has them).
ShowDetail ==
    /\ at = "totals"
    /\ Answered

(***************************************************************************)
(* The rest of export_retrospect, and generate_pdf                         *)
(***************************************************************************)

\* Blank answers are not printed.
ReadAnswers ==
    /\ at = "answers"
    /\ asked = "export"
    /\ texts' = {<<row, answer[row][q]>> : row \in Participants(about), q \in Questions}
                  \ (Requests \X {None})
    /\ at' = "authors"
    /\ UNCHANGED <<asked, client, about, insightOf, found, times, names, listed>>

\* The member of an answer's member_response, if it is still there and the
\* name was read before; otherwise (None) the author is Anonymous.
AuthorOf(x) ==
    IF x[1] \in rows /\ who[x[1]] \in names \ withdrawn THEN who[x[1]] ELSE None

\* The participants as they are printed, those who withdrew without a name
\* (None), and the answers.
PrintedNames == [row \in found |-> IF who[row] \in names THEN who[row] ELSE None]
PrintedLines == {[text |-> x[2], author |-> AuthorOf(x)] : x \in texts}

\* The authors are read and the PDF is generated; or the fonts are not there,
\* or rendering fails (PdfGenerationFailed).
GeneratePdf ==
    /\ at = "authors"
    /\ Answered

-----------------------------------------------------------------------------

Read ==
    \/ \E m \in Members : \E recent \in SUBSET Stored(m) : StorageRows(m, recent)
    \/ StorageRetros
    \/ ShowStorage
    \/ \E m \in Members, t \in Retros : OpenDetail(m, t) \/ OpenExport(m, t)
    \/ ReadRows \/ ReadNames \/ ReadQuestions \/ ShowDetail
    \/ ReadAnswers \/ GeneratePdf

ReaderNext ==
    \/ Next /\ UNCHANGED readerVars
    \/ Read /\ UNCHANGED vars

ReaderSpec == Init /\ ReaderInit /\ [][ReaderNext]_<<vars, readerVars>>

\* As in FairSpec; a reader is not obliged to come to its end.
FairReaderSpec == ReaderSpec /\ \A r \in Requests : WF_vars(Serve(r))

-----------------------------------------------------------------------------
(***************************************************************************)
(* Properties                                                              *)
(***************************************************************************)

\* The storage lists a retrospect under the date of a submission that its
\* client made to it, never under the day it was created, although dates,
\* retrospects and counts are read one after the other; and it counts at least
\* that participant unless the retrospect is gone (get_storage, steps 1 to 6).
StorageDated ==
    at = "counts" =>
        \A t \in listed : \A date \in DatesOf(t) :
            /\ date # None
            /\ pc[date] = "submitted"
            /\ who[date] = client
            /\ target[date] = t
            /\ t \in exists => MemberCount(t) >= 1

\* A PDF gives an answer to the member who wrote it or to nobody, whoever
\* joins, withdraws or saves a draft between its five queries
\* (export_retrospect, steps 3 to 4-1).
PrintedUnderAuthor ==
    at = "authors" => \A line \in PrintedLines : line.author \in {None, who[line.text]}

\* A report of an analysed retrospect lists every participant whose answers
\* went into the insight, unless the retrospect was deleted meanwhile; the PDF
\* also those who have withdrawn (export_retrospect and generate_pdf), the
\* detail those who have a name (get_retrospect_detail).
AnalysedListed ==
    at \in {"authors", "totals"} /\ insightOf # None /\ about \in exists =>
        \A row \in snap[insightOf] :
            IF asked = "export" THEN row \in DOMAIN PrintedNames
            ELSE who[row] \in DetailMembers \union withdrawn

\* What these rest on besides RetrospectLifecycle's invariants.  An insight is
\* of an analysis that is over, and whose rows are there as long as the
\* retrospect is.
AnalysesOver ==
    \A t \in exists :
        insight[t] # None =>
            /\ pc[insight[t]] = "analysed" /\ target[insight[t]] = t
            /\ snap[insight[t]] \subseteq rows

\* The rows of a storage are the client's, each with a submission of its own.
StorageFound ==
    /\ at \in {"retros", "counts"} =>
         \A row \in found :
            /\ row \in Requests /\ pc[row] = "joined"
            /\ target[row] \in exists => row \in rows
            /\ times[row] \in Requests /\ pc[times[row]] = "submitted"
            /\ who[times[row]] = client /\ target[times[row]] = target[row]
    /\ at = "counts" => listed \subseteq {target[row] : row \in found}

\* The insight of a report is of an analysis whose rows the report has found;
\* so the names of its participants, unless they have withdrawn.
ReportFound ==
    /\ at \in {"rows", "names", "answers", "totals", "authors"} /\ insightOf # None =>
         /\ insightOf \in Requests /\ pc[insightOf] = "analysed" /\ target[insightOf] = about
         /\ about \in exists => snap[insightOf] \subseteq rows
         /\ at # "rows" /\ about \in exists => snap[insightOf] \subseteq found
    /\ at \in {"names", "answers", "totals", "authors"} =>
         \A row \in found : row \in Requests /\ pc[row] = "joined"
    /\ at \in {"answers", "totals", "authors"} =>
         \A row \in found : who[row] \in names \union withdrawn
    /\ at = "authors" =>
         \A x \in texts :
            /\ {x[1], x[2]} \subseteq Requests
            /\ pc[x[1]] = "joined" /\ pc[x[2]] \in {"drafted", "submitted"}
            /\ who[x[1]] = who[x[2]]

=============================================================================
