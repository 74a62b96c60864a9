------------------------------ MODULE RestList ------------------------------
(***************************************************************************)
(* netbox_rest.py, _rest_list_traverse_async: one exhaustive traversal of  *)
(* a NetBox list through its pages, with the checks that decide between    *)
(* returning (and caching) the collection and refusing with a 502.         *)
(*                                                                         *)
(* NetBox is external: an ordered list of records, identified by ids that  *)
(* are never used twice, which other clients and this process edit between *)
(* the answers; an answer is on its way while the next edit lands.  A      *)
(* faulty server answers with any small page, count and next link.         *)
(*                                                                         *)
(* Two tests of the code cannot fail and are not modelled: the page limit  *)
(* at the head of the loop (WithinLimits: its foot refuses first) and      *)
(* seen_pages (the offset of an accepted next link is always larger).      *)
(***************************************************************************)
EXTENDS Naturals, Sequences

CONSTANTS
    Records,       \* the ids NetBox may hand out
    Initial,       \* the list NetBox holds when the traversal starts
    Queries,       \* the callers' queries: see Query
    HardPages,     \* NETBOX_REST_LIST_HARD_MAX_PAGES
    HardRecords,   \* NETBOX_REST_LIST_HARD_MAX_RECORDS
    MaxRetries,    \* netbox_max_retries
    Workloads,     \* sets of edits, "insert", "delete", "create"; with "faulty" the
                   \* server may break the paging protocol
    MaxEdits,      \* bound: edits during the traversal
    None

Elements(s) == {s[i] : i \in DOMAIN s}
Distinct(s) == \A i, j \in DOMAIN s : s[i] = s[j] => i = j
From(s, o) == SubSeq(s, o + 1, Len(s))

Bound == Nat \cup {None}
Query == [offset : Nat, limit : Nat \ {0}, maxRecords : Bound, maxOffset : Bound]

\* The body of one page.
Answer == [results : Seq(Records), count : Bound, next : Bound]

ASSUME PagingConstants ==
    /\ HardPages \in Nat \ {0} /\ HardRecords \in Nat \ {0}
    /\ MaxRetries \in Nat /\ MaxEdits \in Nat
    /\ Initial \in Seq(Records) /\ Distinct(Initial)
    /\ Queries \subseteq Query
    /\ \A w \in Workloads : w \subseteq {"insert", "delete", "create", "faulty"}
    /\ None \notin Nat /\ None \notin BOOLEAN
    /\ None \notin Seq(Records) /\ None \notin Answer

\* rest_list_async: no bounds of the caller's.
UnboundedQuery(offset, limit) ==
    [offset |-> offset, limit |-> limit, maxRecords |-> None, maxOffset |-> None]

\* rest_list_paginated_async: the record cap that goes with an offset cap.  It
\* also refuses an offset above the cap, as Begin does.
PaginatedQuery(offset, limit, maxOffset) ==
    [offset |-> offset, limit |-> limit, maxOffset |-> maxOffset,
     maxRecords |-> IF offset > maxOffset THEN 0 ELSE maxOffset - offset + limit]

VARIABLES
    server,      \* NetBox: the list in its order
    ever,        \* NetBox: ids handed out
    workload,    \* the kinds of edits in this run
    edits,       \* edits made so far (bound)
    answer,      \* the answer on its way, or None
    query,       \* the caller's query
    phase,       \* "start", "fetch", "done" or "error"
    attempt,     \* of the current page
    offset,      \* current_offset
    expected,    \* expected_count: None before the first page
    paginated,   \* response_is_paginated: None, TRUE or FALSE
    pages,       \* page_count
    aggregated,  \* the records collected
    cached,      \* the GET cache entry of this query, or None
    first,       \* history: NetBox's list when it answered for the first page
    posted,      \* records this process has POSTed: landed, the answer still due
    own,         \* history: records whose create this process has seen succeed
    raced        \* history: those of them acknowledged with the last page on its way

netbox == <<server, ever, workload, edits>>
cursor == <<offset, expected, paginated, pages, aggregated>>
creates == <<posted, own, raced>>
vars == <<netbox, answer, query, phase, attempt, cursor, cached, first, creates>>

TypeOK ==
    /\ server \in Seq(Records) /\ Distinct(server)
    /\ Elements(server) \subseteq ever /\ ever \subseteq Records
    /\ workload \in Workloads /\ edits \in Nat
    /\ answer \in Answer \cup {None}
    /\ query \in Queries
    /\ phase \in {"start", "fetch", "done", "error"}
    /\ attempt \in Nat /\ offset \in Nat /\ pages \in Nat
    /\ expected \in Nat \cup {None}
    /\ paginated \in BOOLEAN \cup {None}
    /\ aggregated \in Seq(Records)
    /\ cached \in Seq(Records) \cup {None}
    /\ first \in Seq(Records) \cup {None}
    /\ posted \subseteq ever /\ own \subseteq ever /\ raced \subseteq own

Init ==
    /\ server = Initial /\ ever = Elements(Initial)
    /\ workload \in Workloads /\ edits = 0
    /\ answer = None
    /\ query \in Queries
    /\ phase = "start"
    /\ attempt = 0
    /\ offset = query.offset
    /\ expected = None
    /\ paginated = None
    /\ pages = 0
    /\ aggregated = << >>
    /\ cached \in {None, From(Initial, query.offset)}
    /\ first = None
    /\ posted = {} /\ own = {} /\ raced = {}

(***************************************************************************)
(* NetBox.                                                                 *)
(***************************************************************************)
PageEnd(s, o) == IF o + query.limit < Len(s) THEN o + query.limit ELSE Len(s)

NetBoxAnswer(s, o) ==
    [results |-> SubSeq(s, o + 1, PageEnd(s, o)),
     count |-> Len(s),
     next |-> IF o + query.limit < Len(s) THEN o + query.limit ELSE None]

\* A faulty server: records again, a bare array (count None), a next link
\* anywhere.  Offset 0 stands for every link to another path, with other
\* filters or without a single offset: neither is what Continues asks for.
FaultyAnswers ==
    [results : {<< >>} \cup {<<r>> : r \in Records} \cup {<<r, r>> : r \in Records},
     count : {1, 2, 3}, next : {None, 0, 1, 2}]
    \cup [results : {<<r>> : r \in Records}, count : {None}, next : {None}]

Answers(s, o) ==
    {NetBoxAnswer(s, o)} \cup (IF "faulty" \in workload THEN FaultyAnswers ELSE {})

Reply ==
    /\ phase = "fetch" /\ answer = None
    /\ \E a \in Answers(server, offset) : answer' = a
    /\ first' = IF pages = 0 THEN server ELSE first
    /\ UNCHANGED <<netbox, query, phase, attempt, cursor, cached, creates>>

With(s, i, r) == SubSeq(s, 1, i) \o <<r>> \o SubSeq(s, i + 1, Len(s))
Without(s, i) == SubSeq(s, 1, i - 1) \o SubSeq(s, i + 1, Len(s))

InsertAt(i, r) ==
    /\ server' = With(server, i, r)
    /\ ever' = ever \cup {r}
    /\ edits < MaxEdits /\ edits' = edits + 1
    /\ UNCHANGED workload

\* Another client's record.
Insert ==
    /\ "insert" \in workload
    /\ \E r \in Records \ ever, i \in 0..Len(server) : InsertAt(i, r)
    /\ UNCHANGED <<answer, query, phase, attempt, cursor, cached, first, creates>>

(***************************************************************************)
(* rest_create_async on another task: the POST lands, and the answer comes *)
(* later or never.                                                         *)
(***************************************************************************)
Post ==
    /\ "create" \in workload
    /\ \E r \in Records \ ever, i \in 0..Len(server) :
          InsertAt(i, r) /\ posted' = posted \cup {r}
    /\ UNCHANGED <<answer, query, phase, attempt, cursor, cached, first, own, raced>>

\* The answer for the last page is on its way.
LastPageDue == answer # None /\ answer.next = None

\* Mutant: a create leaves the cached lists of its path.
CreateAnsweredKeepsCache(r) ==
    /\ r \in posted
    /\ posted' = posted \ {r}
    /\ own' = own \cup {r}
    /\ raced' = IF LastPageDue THEN raced \cup {r} ELSE raced
    /\ UNCHANGED <<netbox, answer, query, phase, attempt, cursor, cached, first>>

\* The answer is received and parsed: only then the GET cache entries of the path
\* are dropped.
CreateAnswered(r) ==
    /\ r \in posted
    /\ posted' = posted \ {r}
    /\ own' = own \cup {r}
    /\ raced' = IF LastPageDue THEN raced \cup {r} ELSE raced
    /\ cached' = None
    /\ UNCHANGED <<netbox, answer, query, phase, attempt, cursor, first>>

\* The answer is lost, or is not a JSON object: whether the caller gets the error or
\* the record that the lookup of a retry finds, the cached lists stay.
CreateLost(r) ==
    /\ r \in posted
    /\ posted' = posted \ {r}
    /\ UNCHANGED <<netbox, answer, query, phase, attempt, cursor, cached, first, own, raced>>

Delete ==
    /\ "delete" \in workload
    /\ \E i \in 1..Len(server) : server' = Without(server, i)
    /\ edits < MaxEdits /\ edits' = edits + 1
    /\ UNCHANGED <<ever, workload, answer, query, phase, attempt, cursor, cached, first, creates>>

(***************************************************************************)
(* The traversal.                                                          *)
(***************************************************************************)
Within(n, bound) == bound # None => n <= bound

\* The checks before the first request, and the GET cache.
Begin ==
    /\ phase = "start"
    /\ \/ /\ ~Within(query.offset, query.maxOffset)
          /\ phase' = "error"
          /\ UNCHANGED aggregated
       \/ /\ Within(query.offset, query.maxOffset)
          /\ cached # None
          /\ ~Within(Len(cached), query.maxRecords)
          /\ phase' = "error"
          /\ UNCHANGED aggregated
       \/ /\ Within(query.offset, query.maxOffset)
          /\ cached # None
          /\ Within(Len(cached), query.maxRecords)
          /\ phase' = "done"
          /\ aggregated' = cached
       \/ /\ Within(query.offset, query.maxOffset)
          /\ cached = None
          /\ phase' = "fetch"
          /\ UNCHANGED aggregated
    /\ UNCHANGED <<netbox, answer, query, attempt, offset, expected, paginated, pages,
                   cached, first, creates>>

RetryForever ==
    /\ phase = "fetch"
    /\ \/ attempt' = attempt /\ UNCHANGED phase
       \/ phase' = "error" /\ UNCHANGED attempt
    /\ answer' = None
    /\ UNCHANGED <<netbox, query, cursor, cached, first, creates>>

\* _fetch_page fails, with its answer lost if there was one: a transient error
\* is retried, any other error and a malformed body are raised.
FetchFails ==
    /\ phase = "fetch"
    /\ \/ attempt < MaxRetries /\ attempt' = attempt + 1 /\ UNCHANGED phase
       \/ phase' = "error" /\ UNCHANGED attempt
    /\ answer' = None
    /\ UNCHANGED <<netbox, query, cursor, cached, first, creates>>

SameShape(a) == paginated # None => paginated = (a.count # None)

\* Every page has the count and the shape of the first one.
SameCollection(a) == paginated # None => paginated = (a.count # None) /\ a.count = expected

PageFitsOverlapping(a) ==
    LET total == Len(aggregated) + Len(a.results)
    IN  /\ a.count # None /\ a.results # << >> => offset + Len(a.results) <= a.count
        /\ Distinct(a.results)
        /\ total <= HardRecords
        /\ Within(total, query.maxRecords)

\* The records of the page are new and within the declared and asked bounds.
PageFits(a) ==
    LET total == Len(aggregated) + Len(a.results)
    IN  /\ a.count # None /\ a.results # << >> => offset + Len(a.results) <= a.count
        /\ Distinct(a.results)
        /\ Elements(a.results) \cap Elements(aggregated) = {}
        /\ total <= HardRecords
        /\ Within(total, query.maxRecords)

\* The list ends where the count says it does.
Complete(a) ==
    a.count # None =>
        Len(aggregated) + Len(a.results) =
            IF a.count > query.offset THEN a.count - query.offset ELSE 0

ContinuesToTheLimit(a) ==
    LET total == Len(aggregated) + Len(a.results)
    IN  /\ a.results # << >>
        /\ a.next = offset + Len(a.results)
        /\ Within(a.next, query.maxOffset)
        /\ Within(total, query.maxRecords)
        /\ total <= HardRecords
        /\ pages + 1 < HardPages

\* The next link continues exactly after this page and within the bounds.
Continues(a) ==
    LET total == Len(aggregated) + Len(a.results)
    IN  /\ a.results # << >>
        /\ a.next = offset + Len(a.results)
        /\ Within(a.next, query.maxOffset)
        /\ Within(total + 1, query.maxRecords)
        /\ total < HardRecords
        /\ pages + 1 < HardPages

\* An accepted page: the last one ends the traversal and fills the cache.
Collect(a) ==
    /\ SameCollection(a) /\ PageFits(a)
    /\ pages' = pages + 1
    /\ attempt' = 0
    /\ paginated' = (a.count # None)
    /\ expected' = a.count
    /\ aggregated' = aggregated \o a.results
    /\ \/ /\ a.next = None /\ Complete(a)
          /\ phase' = "done"
          /\ cached' = aggregated'
          /\ UNCHANGED offset
       \/ /\ a.next # None /\ Continues(a)
          /\ offset' = a.next
          /\ UNCHANGED <<phase, cached>>

\* A page that fails a check: the 502, and nothing is returned.
Refuse(a) ==
    /\ ~(SameCollection(a) /\ PageFits(a) /\ IF a.next = None THEN Complete(a) ELSE Continues(a))
    /\ phase' = "error"
    /\ UNCHANGED <<attempt, cursor, cached>>

Page ==
    /\ phase = "fetch" /\ answer # None
    /\ Collect(answer) \/ Refuse(answer)
    /\ answer' = None
    /\ UNCHANGED <<netbox, query, first, creates>>

Next ==
    \/ Reply \/ Insert \/ Post \/ Delete \/ Begin \/ FetchFails \/ Page
    \/ \E r \in Records : CreateAnswered(r) \/ CreateLost(r)

Spec == Init /\ [][Next]_vars

\* The client's requests have a timeout: each ends with an answer or an error.
\* NetBox may fail forever.
FairSpec == Spec /\ WF_vars(Begin) /\ WF_vars(FetchFails \/ Page)

-----------------------------------------------------------------------------
(***************************************************************************)
(* Properties.                                                             *)
(***************************************************************************)

\* The loop never holds a record twice and its cursor is where the records
\* collected so far end, whatever the server answers: the two facts that make
\* the final count test mean "complete" (netbox_rest.py 1139-1274).
CollectedOnce ==
    /\ phase = "fetch" => offset = query.offset + Len(aggregated)
    /\ phase \in {"fetch", "done"} /\ pages # 0 => Distinct(aggregated)

\* No request is sent at or past a limit, so the test at the head of the loop
\* (netbox_rest.py 1133-1137) never fires, and what is returned is within them.
WithinLimits ==
    /\ phase = "fetch" =>
          /\ pages < HardPages
          /\ Len(aggregated) < HardRecords
          /\ Within(offset, query.maxOffset)
    /\ phase = "done" => Within(Len(aggregated), query.maxRecords)

\* NetBox keeps its protocol, and during the traversal records are only added or
\* only removed.
OneWayEdits ==
    /\ "faulty" \notin workload
    /\ "delete" \in workload => "insert" \notin workload /\ "create" \notin workload

SnapshotReturned ==
    /\ phase = "done" /\ pages # 0 => aggregated = From(first, query.offset)
    /\ cached # None =>
          \/ cached = From(Initial, query.offset)
          \/ first # None /\ cached = From(first, query.offset)

\* While other clients only add records, or only remove them, the result and
\* the cache entry are NetBox's list as it was at one instant, page boundaries
\* notwithstanding: every change under the traversal is refused.
ReturnsSnapshot == OneWayEdits => SnapshotReturned

\* A record whose create this process has seen succeed is in the cached list, however
\* the create and the pages interleave, unless the answer for the last page was on its
\* way when the create was acknowledged: the acknowledgement drops the list, a traversal
\* that goes on asking NetBox refuses the changed count, and one that starts later sees
\* the record (netbox_rest.py 1182-1279, 1330-1348).
OwnWritesSeen ==
    OneWayEdits /\ cached # None /\ query.offset = 0 =>
        \A r \in (own \ raced) \cap Elements(server) : r \in Elements(cached)

\* The traversal ends, even if NetBox fails or breaks its protocol forever.
Terminates == <>(phase \in {"done", "error"})
=============================================================================
