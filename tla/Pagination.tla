----------------------------- MODULE Pagination -----------------------------
(* A client that walks through a list, page by page or from cursor to cursor, *)
(* while rows are created and deleted.                                        *)
(*                                                                            *)
(* All the lists are read the same way: findMany for the rows and count for   *)
(* the total, two statements at once, in whatever order the database takes    *)
(* them.  The rows come latest first, and those created in the same           *)
(* millisecond (createMany gives all its rows one createdAt) in any order.    *)
(* The client is none of this repository: it asks for page after page up to   *)
(* totalPages, or sends the last id it got until a page comes back short.     *)
EXTENDS Integers, SoftDelete, SequencesExt

CONSTANTS
    InitTables,     \* the list at the start: createdAt of each row, by id
    Walks,          \* the ways of walking tried: "page", "cursor", "cursor only"
    PageSizes,
    MaxInserts,     \* bound: rows created during the walk
    MaxDeletes      \* bound: rows deleted during the walk

\* A createdAt is given by its rank: the rows of a list have no more of them than
\* there are rows, and a new row has a later one.  PaginationQueryDto wants pages
\* of one row at least.
ASSUME InputsAreTyped ==
    /\ \A created \in InitTables :
         /\ created \in Seq(Nat)
         /\ \A id \in DOMAIN created : created[id] <= Len(created)
    /\ Walks \subseteq {"page", "cursor", "cursor only"}
    /\ PageSizes \subseteq Nat \ {0}

None == 0           \* a field of the query that is missing
Unknown == -1       \* a total that has not been counted
NoData(status) == [status |-> status, rows |-> << >>, live |-> 0]

VARIABLES
    table,      \* the rows, as created and deleted
    walk,       \* which way the client walks
    query,      \* the request being served
    data,       \* the answer of its findMany
    total,      \* the answer of its count
    seen,       \* how often the client got each row, up to twice (a cursor's
                \* row that comes again as the first of its page is not counted)
    pc,         \* "asked", "done" or "failed"
    inserts, deletes

vars == <<table, walk, query, data, total, seen, pc, inserts, deletes>>

NewRow(created) == [created |-> created, deleted |-> FALSE]

Init ==
    /\ \E created \in InitTables :
         table = [id \in DOMAIN created |-> NewRow(created[id])]
    /\ walk \in Walks
    /\ \E size \in PageSizes : query = [page |-> 1, pageSize |-> size, lastItemId |-> None]
    /\ data = NoData("pending") /\ total = Unknown
    /\ seen = [id \in DOMAIN table |-> 0]
    /\ pc = "asked"
    /\ inserts = 0 /\ deletes = 0
-----------------------------------------------------------------------------
\* Slip: pages are counted from 0.
SkipFromZero(q) == q.page * q.pageSize

\* validatePaginationQueryDto: a page or a last item must be there, and skip is
\* computed from the page.
Refused(q) == q.page = None /\ q.lastItemId = None
Skip(q) == (q.page - 1) * q.pageSize

\* Rows whose place in the order is certain: no other has their createdAt.
Untied(id) == \A i \in DOMAIN table \ {id} : table[i].created # table[id].created
Tied == {id \in Live(table) : ~Untied(id)}

\* Slip: no order is added, and the database takes any.
OrdersByChance == SetToSeqs(Live(table))

\* Which of two rows comes first: the later one, or as p has it when they were
\* created together; and with it the place of a row among the live ones.
Before(p, i, j) ==
    \/ table[i].created > table[j].created
    \/ table[i].created = table[j].created /\ p[i] < p[j]
Place(p, id) == Cardinality({i \in Live(table) \ {id} : Before(p, i, id)}) + 1

\* findManyByCreatedTimeDesc: the orders in which the live rows may come.
Orders ==
    {[k \in 1..Cardinality(Live(table)) |-> CHOOSE id \in Live(table) : Place(p, id) = k] :
        p \in Injection(Tied, Tied)}

\* Slip: the cursor is not passed on.
FromStart(s, id) == s

\* What findMany makes of cursor, skip and take: the rows from the cursor's
\* on, none when it is not among them.
FromCursor(s, id) ==
    IF id = None THEN s
    ELSE IF \E k \in DOMAIN s : s[k] = id
         THEN SubSeq(s, CHOOSE k \in DOMAIN s : s[k] = id, Len(s))
         ELSE << >>

\* Slip: one row more is taken, to see whether a page follows.
PageAndNext(s, q) ==
    LET rows == FromCursor(s, q.lastItemId)
    IN SubSeq(rows, Skip(q) + 1, IF Skip(q) + q.pageSize + 1 < Len(rows)
                                 THEN Skip(q) + q.pageSize + 1 ELSE Len(rows))

Page(s, q) ==
    LET rows == FromCursor(s, q.lastItemId)
    IN SubSeq(rows, Skip(q) + 1, IF Skip(q) + q.pageSize < Len(rows)
                                 THEN Skip(q) + q.pageSize ELSE Len(rows))

FindMany ==
    /\ pc = "asked" /\ ~Refused(query) /\ data.status = "pending"
    /\ IF query.page = None
       THEN data' = NoData("failed")     \* skip is NaN, and findMany refuses it
       ELSE \E s \in Orders :
              data' = [status |-> "found", rows |-> Page(s, query),
                       live |-> Cardinality(Live(table))]
    /\ UNCHANGED <<table, walk, query, total, seen, pc, inserts, deletes>>

Count ==
    /\ pc = "asked" /\ ~Refused(query) /\ total = Unknown
    /\ total' = Cardinality(Live(table))
    /\ UNCHANGED <<table, walk, query, data, seen, pc, inserts, deletes>>

\* Slip: the rest that fills no page is rounded away.
TotalPagesFloor == total \div query.pageSize

\* Math.ceil(total / pageSize)
TotalPages == (total + query.pageSize - 1) \div query.pageSize

\* What the client has got grows by ids.
Got(ids) == seen' = [id \in DOMAIN seen |->
                        IF id \in ids /\ seen[id] < 2 THEN seen[id] + 1 ELSE seen[id]]

\* The client has the answer: it stops after the last page, or after a page
\* that came back short, and asks for the next one otherwise.
NextPage ==
    /\ walk = "page"
    /\ Got(ToSet(data.rows))
    /\ IF query.page < TotalPages
       THEN query' = [query EXCEPT !.page = @ + 1] /\ UNCHANGED pc
       ELSE pc' = "done" /\ UNCHANGED query

NextCursor(page) ==
    /\ Got(ToSet(data.rows) \ {query.lastItemId})
    /\ IF Len(data.rows) = query.pageSize
       THEN /\ query' = [query EXCEPT !.lastItemId = Last(data.rows), !.page = page]
            /\ UNCHANGED pc
       ELSE pc' = "done" /\ UNCHANGED query

Answer ==
    /\ pc = "asked" /\ data.status = "found" /\ total # Unknown
    /\ \/ NextPage
       \/ walk = "cursor" /\ NextCursor(1)
       \/ walk = "cursor only" /\ NextCursor(None)
    /\ IF pc' = "done" THEN UNCHANGED <<data, total>>
                       ELSE data' = NoData("pending") /\ total' = Unknown
    /\ UNCHANGED <<table, walk, inserts, deletes>>

\* The query is refused with status 422, or Promise.all rejects with 500.
AnswerError ==
    /\ pc = "asked"
    /\ Refused(query) \/ data.status = "failed"
    /\ pc' = "failed"
    /\ UNCHANGED <<table, walk, query, data, total, seen, inserts, deletes>>

\* Other requests.
Insert ==
    /\ inserts < MaxInserts /\ inserts' = inserts + 1
    /\ table' = CreateMany(table, <<NewRow(Len(table) + 1)>>)
    /\ seen' = Append(seen, 0)
    /\ UNCHANGED <<walk, query, data, total, pc, deletes>>

Delete ==
    /\ deletes < MaxDeletes /\ deletes' = deletes + 1
    /\ \E id \in Live(table) : table' = DeleteMany(table, {id})
    /\ UNCHANGED <<walk, query, data, total, seen, pc, inserts>>

Done == pc \in {"done", "failed"} /\ UNCHANGED vars

Next == FindMany \/ Count \/ Answer \/ AnswerError \/ Insert \/ Delete \/ Done

Spec == Init /\ [][Next]_vars

\* The database answers every statement, and the client goes on.
FairSpec == Spec /\ WF_vars(FindMany) /\ WF_vars(Count) /\ WF_vars(Answer) /\ WF_vars(AnswerError)
-----------------------------------------------------------------------------
\* Types; a page never holds more rows than were asked for.
TypeOK ==
    /\ table \in Seq([created : Nat, deleted : BOOLEAN])
    /\ walk \in Walks
    /\ query \in [page : Nat, pageSize : PageSizes, lastItemId : DOMAIN table \cup {None}]
    /\ data \in [status : {"pending", "found", "failed"}, rows : Seq(DOMAIN table), live : Nat]
    /\ Len(data.rows) <= query.pageSize
    /\ total \in Nat \cup {Unknown}
    /\ seen \in [DOMAIN table -> 0..2]
    /\ pc \in {"asked", "done", "failed"}

\* The live rows that come before row id whatever the order among equals, those
\* created together with it, and those that come no earlier than it.
Ahead(id) == {i \in Live(table) : table[i].created > table[id].created}
Peers(id) == {i \in Live(table) : table[i].created = table[id].created}
NoNewer(id) == {i \in Live(table) : table[i].created <= table[id].created}

\* The places that row id and its equals share are all on one page.
OnOnePage(id) ==
    LET first == Cardinality(Ahead(id))
    IN first \div query.pageSize = (first + Cardinality(Peers(id)) - 1) \div query.pageSize

\* While nothing changes, a walk by pages shows every row exactly once, those
\* created together included, unless a page ends in the midst of them: each
\* query may then put others of them on the page.
QuietWalkIsExact ==
    (pc = "done" /\ walk = "page" /\ inserts = 0 /\ deletes = 0) =>
        \A id \in Live(table) : OnOnePage(id) => seen[id] = 1

\* Rows that are created push the others back: a walk by pages may repeat rows,
\* and a row from the start that it never shows is one of the last, of which it
\* hides no more than were created between the two statements of its last query,
\* after the count and before the page.
InsertsHideOnlyUncounted ==
    (pc = "done" /\ walk = "page" /\ deletes = 0) =>
        \A id \in 1..(Len(table) - inserts) :
            Untied(id) /\ seen[id] = 0 => total + Cardinality(NoNewer(id)) <= data.live

\* Rows that are deleted pull the others forward: a walk by pages misses rows
\* but repeats none.
DeletesRepeatNothing ==
    (walk = "page" /\ inserts = 0) =>
        \A id \in DOMAIN table : Untied(id) => seen[id] <= 1

\* The row that the client has as its cursor is deleted.
Lost == query.lastItemId # None /\ query.lastItemId \notin Live(table)

\* A walk by cursors shows every row once that was there from beginning to end.
\* When the row it has as its cursor is deleted it ends there, as if all had been
\* seen, but what it leaves out then comes after that row.
CursorMissesNothing ==
    (pc = "done" /\ walk = "cursor") =>
        \A id \in Live(table) \cap 1..(Len(table) - inserts) : Untied(id) =>
            \/ seen[id] = 1
            \/ seen[id] = 0 /\ Lost /\ table[id].created < table[query.lastItemId].created

\* What validatePaginationQueryDto lets through is answered: its message says
\* "page or lastItemId is required depending on the query type (page-based or
\* cursor-based)".  Without a page, skip is NaN and findMany fails.
PageOrCursorSuffices == ~(pc = "failed" /\ ~Refused(query))

\* Every walk comes to a good end, but for those by cursors that can get nothing
\* but the cursor's row, with pages of one row or among rows created together,
\* and those by cursors alone: validatePaginationQueryDto lets the page be left
\* out ("page or lastItemId is required"), and the second query fails for it.
WalkEnds ==
    <>(\/ pc = "done"
       \/ walk = "cursor only" /\ pc = "failed" /\ query.lastItemId # None
       \/ walk # "page" /\ (query.pageSize = 1 \/ \E id \in DOMAIN table : ~Untied(id)))
=============================================================================
