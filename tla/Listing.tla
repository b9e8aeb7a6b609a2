------------------------------ MODULE Listing ------------------------------
(***************************************************************************)
(* The lists that a screen loads page by page: the journal of events, the  *)
(* history, the knowledge base and the resolved incidents a user follows.  *)
(*                                                                         *)
(* A page continues after a cursor, the place of the last row of the page  *)
(* before it: its sort column and its id.  PostgreSQL keeps the column to  *)
(* the microsecond; the cursor is a JavaScript date, to the millisecond.   *)
(* Rows are written while the pages are read: NOW() is the start of the    *)
(* transaction, so all the rows it writes share one instant, and a row may *)
(* be committed after later ones were read.  The answers may be late: each *)
(* screen decides what it does with one that it no longer waits for.       *)
(***************************************************************************)
EXTENDS Naturals, Sequences, SequencesExt, FiniteSets

CONSTANTS
  Screens,   \* the screens to open, among AllScreens
  Filters,   \* what a user may search for
  Scopes,    \* sets of filters that a row may match
  PageSize,  \* limit of a page
  PerMs,     \* instants of the database in one millisecond
  Batch,     \* bound: rows of one transaction
  MaxRows,   \* bound: rows of the table, for each screen
  MaxNow,    \* bound: the last instant, for each screen
  Null

AllScreens == {"journal", "history", "knowledge", "followed"}

ConstantsOK ==
  /\ Screens \subseteq AllScreens
  /\ Scopes \subseteq SUBSET Filters
  /\ {PageSize, PerMs, Batch} \subseteq Nat \ {0}
  /\ MaxRows \in [AllScreens -> Nat]
  /\ MaxNow \in [AllScreens -> Nat]
  /\ Null \notin [at : Nat, id : Nat]

VARIABLES
  screen,     \* the screen that is open
  now,        \* the clock of the database
  table,      \* rows in the order of their ids: sort column, filters matched
  filter,     \* the filter of baseParams
  settled,    \* FALSE while the search is being typed, or the list is hidden
  list,       \* rows on the screen: their places when read, and the filter read for
  cursor,     \* nextCursor
  loaded,     \* the first page of this filter is on the screen
  known,      \* history: the rows that match since that page was read
  first,      \* request of the first page in flight, or its page
  more,       \* request of a next page in flight
  requested,  \* the incident named by the address of the screen
  fetch,      \* request of that incident in flight
  selected    \* selectedId

vars == <<screen, now, table, filter, settled, list, cursor, loaded,
          known, first, more, requested, fetch, selected>>

database == <<now, table>>
selection == <<requested, fetch, selected>>

\* A request on its way, before the server reads.
Asked == [page |-> Null]

Selects == screen \in {"history", "knowledge"}

Init ==
  /\ screen \in Screens
  /\ now = 0
  /\ table = <<>>
  /\ filter \in Filters
  /\ settled = TRUE
  /\ list = <<>>
  /\ cursor = Null
  /\ loaded = FALSE
  /\ known = {}
  /\ first = Asked
  /\ more = Null
  /\ requested \in (IF Selects THEN {Null, 1} ELSE {Null})
  /\ fetch = requested
  /\ selected = Null
-----------------------------------------------------------------------------
(* The database. *)

Tick ==
  /\ now < MaxNow[screen]
  /\ now' = now + 1
  /\ UNCHANGED <<screen, table, filter, settled, list, cursor, loaded, known,
                 first, more, selection>>

\* A transaction that began at t commits its rows, all of that instant: the
\* events of the incidents that a forced archiving cancels, or the one of a
\* service.
Commit(t) ==
  /\ \E n \in 1..Batch, s \in Scopes :
       /\ Len(table) + n <= MaxRows[screen]
       /\ table' = table \o [i \in 1..n |-> [at |-> t, in |-> s]]
  /\ UNCHANGED <<screen, now, filter, settled, list, cursor, loaded, known, first, more,
                 selection>>

\* An incident changes: the filters that it and its events match, and the place
\* of its record in the knowledge base, which sorts by updated_at.
Touch(r) ==
  /\ \E s \in Scopes \ {table[r].in} :
       /\ table' = [table EXCEPT ![r] = [at |-> IF screen = "knowledge" THEN now ELSE @.at,
                                         in |-> s]]
       /\ known' = IF filter \in s THEN known ELSE known \ {r}
  /\ UNCHANGED <<screen, now, filter, settled, list, cursor, loaded, first, more,
                 selection>>

Place(r) == [at |-> table[r].at, id |-> r]

Matching(f) == {r \in DOMAIN table : f \in table[r].in}

\* (column, id) < (column, id)
Below(p, q) == p.at < q.at \/ (p.at = q.at /\ p.id < q.id)

\* toISOString(): the place of a row, to the millisecond.
Cursor(p) == [p EXCEPT !.at = (@ \div PerMs) * PerMs]

\* ORDER BY column DESC, id DESC
Sorted(places) ==
  CHOOSE s \in SetToSeqs(places) : \A i, j \in DOMAIN s : i < j => Below(s[j], s[i])

\* listHistoryEvents, listIncidentWorkspaceRows, listFollowedResolvedIncidents:
\* the first rows below the cursor, and a cursor when there are others.
Page(f, after) ==
  LET rest == Sorted({p \in {Place(r) : r \in Matching(f)} : after = Null \/ Below(p, after)})
  IN IF Len(rest) > PageSize
     THEN [for |-> f, items |-> SubSeq(rest, 1, PageSize), next |-> Cursor(rest[PageSize])]
     ELSE [for |-> f, items |-> rest, next |-> Null]
-----------------------------------------------------------------------------
(* The screen. *)

Ids(rows) == {rows[i].place.id : i \in DOMAIN rows}

\* The rows of a page, as the screen keeps them.
Rows(page) == [i \in DOMAIN page.items |-> [place |-> page.items[i], for |-> page.for]]

\* The effect on [searchParams, incidents]: the incident of the address is
\* selected when it is listed, and asked for when it is not.
Follow(request, rows, chosen) ==
  /\ requested' = request
  /\ selected' = IF request \in Ids(rows) THEN request ELSE chosen
  /\ fetch' = IF request \in Ids(rows) THEN Null ELSE request

\* The search is being typed, or the list of followed incidents is hidden.
\* The journal forgets every request; a hidden list forgets the first page only.
Unsettle ==
  /\ screen \in {"journal", "followed"}
  /\ settled
  /\ settled' = FALSE
  /\ list' = <<>>
  /\ cursor' = Null
  /\ loaded' = FALSE
  /\ known' = {}
  /\ first' = Null
  /\ more' = IF screen = "journal" THEN Null ELSE more
  /\ UNCHANGED <<screen, database, filter, selection>>

\* The effect on baseParams has something to do.
Moved(f) == IF screen = "followed" THEN ~settled /\ f = filter ELSE ~settled \/ f # filter

\* A change of filter changes the address too; clearing the filters leaves the
\* selected incident in it.
Readdress ==
  IF Selects THEN \E r \in {requested, selected} : Follow(r, list, selected)
  ELSE UNCHANGED selection

\* Mutant of Settle: the request of a next page survives a change of filter.
SettleOnly(f) ==
  /\ Moved(f)
  /\ filter' = f
  /\ settled' = TRUE
  /\ first' = Asked
  /\ loaded' = FALSE
  /\ known' = {}
  /\ IF screen = "journal" THEN list' = <<>> /\ cursor' = Null ELSE UNCHANGED <<list, cursor>>
  /\ Readdress
  /\ UNCHANGED <<screen, database, more>>

\* A new filter asks for its first page.  The journal starts from an empty
\* list and forgets the next page it asked for; the other screens keep what
\* they show and what they asked for.
Settle(f) ==
  /\ Moved(f)
  /\ filter' = f
  /\ settled' = TRUE
  /\ first' = Asked
  /\ loaded' = FALSE
  /\ known' = {}
  /\ IF screen = "journal"
     THEN list' = <<>> /\ cursor' = Null /\ more' = Null
     ELSE UNCHANGED <<list, cursor, more>>
  /\ Readdress
  /\ UNCHANGED <<screen, database>>

\* The server reads the first page.
ReadFirst ==
  /\ first # Null /\ first.page = Null
  /\ first' = [first EXCEPT !.page = Page(filter, Null)]
  /\ known' = Matching(filter)
  /\ UNCHANGED <<screen, database, filter, settled, list, cursor, loaded, more, selection>>

\* Mutant of ArriveFirst: the selection is left alone.
ArriveFirstAlone ==
  /\ first # Null /\ first.page # Null
  /\ list' = Rows(first.page)
  /\ cursor' = first.page.next
  /\ loaded' = TRUE
  /\ first' = Null
  /\ UNCHANGED <<screen, database, filter, settled, known, more, selection>>

\* The first page replaces the list; a selection that it does not hold passes
\* to its first row.
ArriveFirst ==
  /\ first # Null /\ first.page # Null
  /\ list' = Rows(first.page)
  /\ cursor' = first.page.next
  /\ loaded' = TRUE
  /\ first' = Null
  /\ IF Selects
     THEN Follow(requested, list', IF list' = <<>> THEN Null
                        ELSE IF selected \in Ids(list') THEN selected ELSE list'[1].place.id)
     ELSE UNCHANGED selection
  /\ UNCHANGED <<screen, database, filter, settled, known, more>>

\* loadMore: refused without a cursor, while another page is asked for, and by
\* the journal while its results are not those of its filter.
LoadMore ==
  /\ cursor # Null
  /\ more = Null
  /\ screen = "journal" => loaded
  /\ more' = [filter |-> filter, after |-> cursor, page |-> Null]
  /\ UNCHANGED <<screen, database, filter, settled, list, cursor, loaded, known, first,
                 selection>>

ReadMore ==
  /\ more # Null /\ more.page = Null
  /\ more' = [more EXCEPT !.page = Page(more.filter, more.after)]
  /\ UNCHANGED <<screen, database, filter, settled, list, cursor, loaded, known, first,
                 selection>>

\* The next page is appended to whatever the list is by now.
ArriveMore ==
  /\ more # Null /\ more.page # Null
  /\ list' = list \o Rows(more.page)
  /\ cursor' = more.page.next
  /\ more' = Null
  /\ IF Selects THEN Follow(requested, list', selected) ELSE UNCHANGED selection
  /\ UNCHANGED <<screen, database, filter, settled, loaded, known, first>>

\* A request fails, or takes too long: what is on the screen stays.
Fail ==
  /\ \/ /\ first # Null
        /\ first' = Null
        /\ loaded' = (screen = "journal")
        /\ known' = {}
        /\ UNCHANGED <<more, fetch>>
     \/ more # Null /\ more' = Null /\ UNCHANGED <<loaded, known, first, fetch>>
     \/ fetch # Null /\ fetch' = Null /\ UNCHANGED <<loaded, known, first, more>>
  /\ UNCHANGED <<screen, database, filter, settled, list, cursor, requested, selected>>

\* The incident of the address arrives before the rows of the list.
ArriveRequested ==
  /\ fetch # Null /\ fetch \in DOMAIN table
  /\ list' = IF fetch \in Ids(list) THEN list ELSE <<[place |-> Place(fetch), for |-> Null]>> \o list
  /\ selected' = fetch
  /\ fetch' = Null
  /\ UNCHANGED <<screen, database, filter, settled, cursor, loaded, known, first, more,
                 requested>>

Select(id) ==
  /\ Selects
  /\ selected # id
  /\ requested' = id
  /\ selected' = id
  /\ fetch' = Null
  /\ UNCHANGED <<screen, database, filter, settled, list, cursor, loaded, known, first, more>>

Next ==
  \/ Tick
  \/ \E t \in 0..now : Commit(t)
  \/ \E r \in DOMAIN table : Touch(r)
  \/ Unsettle
  \/ \E f \in Filters : Settle(f)
  \/ ReadFirst \/ ArriveFirst
  \/ LoadMore \/ ReadMore \/ ArriveMore
  \/ Fail
  \/ ArriveRequested
  \/ \E id \in Ids(list) : Select(id)

Spec == Init /\ [][Next]_vars
-----------------------------------------------------------------------------
(* Properties. *)

Descends(rows) ==
  \A i, j \in DOMAIN rows : i < j => Below(rows[j].place, rows[i].place)

\* Rows that match the filter since its first page was read and that the pages
\* on the screen should hold.
Due == {r \in known : cursor = Null \/ Below(Last(list).place, Place(r))}

Missing == Due \ Ids(list)

SameMs(p, q) == p.at \div PerMs = q.at \div PerMs

\* Whatever is written, typed, changed or late, the journal shows rows read for
\* its filter, in their order, each once, and of those that match it from the
\* beginning it misses none but rows of the millisecond of a row it shows.
JournalIsContiguous ==
  screen = "journal" /\ loaded =>
    /\ Descends(list)
    /\ \A i \in DOMAIN list : list[i].for = filter
    /\ \A r \in Missing : \E i \in DOMAIN list :
         SameMs(Place(r), list[i].place) /\ Below(Place(r), list[i].place)

\* The journal misses no row from one page to the next, as the comment of
\* buildHistoryEventFilters has it.
PagesSkipNothing == screen = "journal" /\ loaded => Missing = {}

\* The incident whose record the history or the knowledge base opens is one of
\* the list beside it, whichever of its requests answers first or never.
SelectionIsListed == Selects => selected \in Ids(list) \cup {Null}

\* What a screen shows is one list, and the record beside it is of that list.
ListIsCoherent == JournalIsContiguous /\ SelectionIsListed
=============================================================================
