------------------------------ MODULE OrmPages ------------------------------
(* Paging through an in-memory collection that changes meanwhile             *)
(* (src/orm/query.ts over src/orm/memory.ts).  cursorPaginate walks the _id  *)
(* order from the last _id it returned; paginate counts, then skips.  A page *)
(* is read in one step, so writes come between pages, and between the count  *)
(* and the find of one.  Ids are texts, as create() makes them, and the      *)
(* query's projection, if any, keeps them: the next cursor is String(_id) of *)
(* the projected document, so neither number ids nor a projection without    *)
(* _id survive a cursor walk.                                                *)
EXTENDS Integers, FiniteSets, Sequences

CONSTANTS Key,         \* _id values, as places in the order of texts
          PageSize,
          IdBound,     \* the query's own condition: _id no greater than this
          MaxInsert    \* bound on the rows inserted

ASSUME PagesAssumption ==
    /\ Key \subseteq Nat /\ IsFiniteSet(Key) /\ IdBound \in Nat
    /\ PageSize \in Nat \ {0} /\ MaxInsert \in Nat

\* A stored document: its _id, its serial number as an object, and whether the other
\* conditions of the query hold of it.
Row == [key : Key, serial : 1..MaxInsert, fit : BOOLEAN]

None == -1

\* Bound on the pages, which cuts none off: a cursor page moves past an _id, and an
\* offset page is one of those counted.
MaxPage == Cardinality(Key) + MaxInsert + 1

VARIABLES
    walk,      \* which of the two the program uses, "cursor" or "offset"
    rows,      \* MemoryCollection.rows
    inserted,  \* rows inserted so far
    after,     \* the cursor of the next page, or None
    page,      \* number of the next page, 1 before the walk
    total,     \* what paginate counted, or None when it is not under way
    got,       \* the rows returned so far
    done,      \* the walk has come to its last page
    steady,    \* serials of the rows that fitted when the walk began and have not
               \* been written since
    written    \* history: something was written since the walk began

walkVars == <<walk, rows, inserted, after, page, total, got, done, steady, written>>

WalkTypeOK ==
    /\ walk \in {"cursor", "offset"}
    /\ rows \in Seq(Row) /\ got \in Seq(Row)
    /\ inserted \in 0..MaxInsert
    /\ after \in Key \cup {None}
    /\ page \in 1..(MaxPage + 1)
    /\ total \in {None} \cup 0..MaxInsert
    /\ done \in BOOLEAN /\ written \in BOOLEAN
    /\ steady \subseteq 1..inserted

WalkInit ==
    /\ walk \in {"cursor", "offset"}
    /\ rows = <<>> /\ inserted = 0
    /\ after = None /\ page = 1 /\ total = None
    /\ got = <<>> /\ done = FALSE
    /\ steady = {} /\ written = FALSE

Begun == page > 1 \/ total # None
Elements(s) == {s[i] : i \in DOMAIN s}
-----------------------------------------------------------------------------
(* Queries                                                                   *)

\* match: the query's conditions; with a cursor its own condition on _id gives way
\* to the cursor's.  A faulty one repeats the row the cursor names.
MatchFrom(r, a) == r.fit /\ (IF a = None THEN r.key <= IdBound ELSE r.key >= a)
Match(r, a) == r.fit /\ (IF a = None THEN r.key <= IdBound ELSE r.key > a)

\* The places of the rows that match, and those rows in _id order, rows of one _id as
\* they were inserted (a stable sort).
Matching(a) == {i \in DOMAIN rows : Match(rows[i], a)}
Before(i, j) == \/ rows[i].key < rows[j].key
                \/ rows[i].key = rows[j].key /\ i < j
Rank(i, a) == 1 + Cardinality({j \in Matching(a) : Before(j, i)})
Sorted(a) ==
    [k \in 1..Cardinality(Matching(a)) |->
        rows[CHOOSE i \in Matching(a) : Rank(i, a) = k]]

\* materialize, as both kinds of page use it: filter, sort, skip, limit.
Smaller(a, b) == IF a < b THEN a ELSE b
Materialize(a, skip, limit) ==
    SubSeq(Sorted(a), skip + 1, Smaller(skip + limit, Len(Sorted(a))))
-----------------------------------------------------------------------------
(* Writes, until the walk is over: what comes later bears on no page.        *)

\* insertOne appends a copy, also under an _id that is there already.
Insert(k, f) ==
    /\ ~done /\ inserted < MaxInsert
    /\ rows' = Append(rows, [key |-> k, serial |-> inserted + 1, fit |-> f])
    /\ inserted' = inserted + 1
    /\ written' = Begun
    /\ UNCHANGED <<walk, after, page, total, got, done, steady>>

\* The row where({_id: k}) finds first.
First(k) == CHOOSE i \in DOMAIN rows :
    rows[i].key = k /\ \A j \in 1..(i - 1) : rows[j].key # k

\* updateOne lays $set over the row, with another _id (m) and what the query's other
\* conditions see (f) if the program sets them.
SetOver(r, m, f) == [r EXCEPT !.key = m, !.fit = f]

Update(k, m, f) ==
    /\ ~done /\ \E r \in Elements(rows) : r.key = k
    /\ rows' = [rows EXCEPT ![First(k)] = SetOver(@, m, f)]
    /\ steady' = steady \ {rows[First(k)].serial}
    /\ written' = Begun
    /\ UNCHANGED <<walk, inserted, after, page, total, got, done>>

\* deleteOne
Destroy(k) ==
    /\ ~done /\ \E r \in Elements(rows) : r.key = k
    /\ rows' = SubSeq(rows, 1, First(k) - 1) \o SubSeq(rows, First(k) + 1, Len(rows))
    /\ steady' = steady \ {rows[First(k)].serial}
    /\ written' = Begun
    /\ UNCHANGED <<walk, inserted, after, page, total, got, done>>
-----------------------------------------------------------------------------
(* Pages                                                                     *)

Begin ==
    IF Begun THEN UNCHANGED <<steady, written>>
    ELSE /\ steady' = {rows[i].serial : i \in Matching(None)}
         /\ written' = FALSE

\* cursorPaginate asks for one row more than it returns.  A faulty one does not.
LimitExact == PageSize
Limit == PageSize + 1

CursorPage ==
    /\ walk = "cursor" /\ ~done /\ page <= MaxPage
    /\ LET items == Materialize(after, 0, Limit)
           more == Len(items) > PageSize
       IN  /\ got' = got \o (IF more THEN SubSeq(items, 1, PageSize) ELSE items)
           /\ after' = IF more THEN items[PageSize].key ELSE after
           /\ done' = ~more
    /\ page' = page + 1
    /\ Begin
    /\ UNCHANGED <<walk, rows, inserted, total>>

\* paginate: countDocuments is awaited first.
Count ==
    /\ walk = "offset" /\ ~done /\ total = None
    /\ total' = Cardinality(Matching(None))
    /\ Begin
    /\ UNCHANGED <<walk, rows, inserted, after, page, got, done>>

\* pages, at least one; a faulty count of them drops a part page.
PagesFloor(n) == IF n < PageSize THEN 1 ELSE n \div PageSize
Pages(n) == IF n = 0 THEN 1 ELSE (n + PageSize - 1) \div PageSize

\* When a walk stops.
LastPage == page >= Pages(total)

\* Then the find; the walk goes on while the page says there are more.
OffsetPage ==
    /\ walk = "offset" /\ total # None /\ page <= MaxPage
    /\ got' = got \o Materialize(None, (page - 1) * PageSize, PageSize)
    /\ done' = LastPage
    /\ page' = page + 1
    /\ total' = None
    /\ UNCHANGED <<walk, rows, inserted, after, steady, written>>

WalkNext ==
    \/ \E k \in Key : \/ \E f \in BOOLEAN : Insert(k, f) \/ \E m \in Key : Update(k, m, f)
                      \/ Destroy(k)
    \/ CursorPage \/ Count \/ OffsetPage

WalkSpec == WalkInit /\ [][WalkNext]_walkVars
FairWalk == WalkSpec /\ WF_walkVars(CursorPage) /\ WF_walkVars(Count) /\ WF_walkVars(OffsetPage)
-----------------------------------------------------------------------------
(* Properties                                                                *)

KeyOf(serial) == (CHOOSE r \in Elements(rows) : r.serial = serial).key

\* A cursor walk misses no _id: for every row that fitted when it began and was not
\* written since, a row of its _id is in a page, whatever is inserted, changed, given
\* another _id and deleted between pages.  (Of two rows of one _id it may miss one.)
WalkComplete ==
    walk = "cursor" /\ done =>
        \A n \in steady : \E r \in Elements(got) : r.key = KeyOf(n)

\* A cursor walk goes forward: pages are in _id order, and a row is in one at most,
\* though it may have been changed, or deleted and its _id inserted anew, unless it was
\* given another _id: then it may come again, under a greater one.
WalkForward ==
    walk = "cursor" => \A i, j \in DOMAIN got : i < j =>
        /\ got[i].key <= got[j].key
        /\ got[i].serial = got[j].serial => got[i].key < got[j].key

\* As long as nothing is written, offset pages are a partition of what matches, in
\* order, and the page count says when to stop.
OffsetExact ==
    walk = "offset" /\ done /\ ~written =>
        got = Sorted(None)

\* A walk ends: the cursor moves past at least one _id with each page, and an offset
\* page is never the last but one for ever.
WalkEnds == [](Begun => <>done)
=============================================================================
