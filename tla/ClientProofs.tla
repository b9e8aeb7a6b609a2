---------------------------- MODULE ClientProofs ----------------------------
(***************************************************************************)
(* What the lists that are loaded page by page and the dashboard guarantee *)
(* for any table, page size and interleaving of requests (MCClient).       *)
(*                                                                         *)
(* The lists: a page is the rows below a place in the order of the query   *)
(* (SortedSorts), and so covers what is due below it (Continues).  The     *)
(* journal adds a page only to the rows it was asked to follow             *)
(* (NextPageShown); what the database does meanwhile leaves fewer rows due *)
(* and every place as it was (JournalFramed).                              *)
(*                                                                         *)
(* The dashboard: what the screen shows of the metrics, the one answer on  *)
(* its way and the server are in that order (MetricsInv).                  *)
(***************************************************************************)
EXTENDS MCClient, FiniteSetTheorems, WellFoundedInduction, TLAPS

-----------------------------------------------------------------------------
(* The order of the rows                                                   *)

Places == [at : Nat, id : Nat]

\* A page has the rows below a place in the order of the query.
InOrder(s) == \A i, j \in DOMAIN s : i < j => L!Below(s[j], s[i])

LEMMA Smallest ==
  ASSUME NEW S \in SUBSET Nat, S # {}
  PROVE  \E n \in S : \A m \in S : n <= m
<1> DEFINE Less == {ss \in Nat \X Nat : ss[1] < ss[2]}
<1>1. IsWellFoundedOn(Less, Nat)
  BY NatLessThanWellFounded, Zenon DEF OpToRel
<1>2. \A x, y \in Nat : x < y => <<x, y>> \in Less
  OBVIOUS
<1> HIDE DEF Less
<1>3. PICK n \in S : \A m \in S : <<m, n>> \notin Less
  BY <1>1, WFMin
<1>4. ASSUME NEW m \in S PROVE n <= m
  <2>1. n \in Nat /\ m \in Nat
    OBVIOUS
  <2>2. ~(m < n)
    BY <1>2, <1>3, <2>1
  <2> QED
    BY <2>1, <2>2
<1> QED
  BY <1>4

LEMMA BelowOrders ==
  /\ \A p, q \in Places : p # q => L!Below(p, q) \/ L!Below(q, p)
  /\ \A p, q \in Places : L!Below(p, q) => ~L!Below(q, p) /\ p # q
  /\ \A p, q, r \in Places : L!Below(p, q) /\ L!Below(q, r) => L!Below(p, r)
<1>1. \A p, q \in Places : p.at = q.at /\ p.id = q.id => p = q
  BY DEF Places
<1> QED
  BY <1>1 DEF L!Below, Places

LEMMA Lowest ==
  ASSUME NEW S \in SUBSET Places, S # {}
  PROVE  \E p \in S : \A q \in S \ {p} : L!Below(p, q)
<1>1. PICK a \in Nat : (\E p \in S : p.at = a) /\ \A p \in S : a <= p.at
  <2>1. {p.at : p \in S} \in SUBSET Nat /\ {p.at : p \in S} # {}
    BY DEF Places
  <2>2. PICK n \in {p.at : p \in S} : \A m \in {p.at : p \in S} : n <= m
    BY <2>1, Smallest
  <2> QED
    BY <2>1, <2>2
<1>2. PICK b \in Nat : /\ \E p \in S : p.at = a /\ p.id = b
                       /\ \A p \in S : p.at = a => b <= p.id
  <2> DEFINE T == {p \in S : p.at = a}
  <2>1. {p.id : p \in T} \in SUBSET Nat /\ {p.id : p \in T} # {}
    BY <1>1 DEF Places
  <2>2. PICK n \in {p.id : p \in T} : \A m \in {p.id : p \in T} : n <= m
    BY <2>1, Smallest
  <2> QED
    BY <2>1, <2>2
<1>3. PICK p \in S : p.at = a /\ p.id = b
  BY <1>2
<1>4. ASSUME NEW q \in S \ {p} PROVE L!Below(p, q)
  <2>1. ~L!Below(q, p)
    BY <1>1, <1>2, <1>3 DEF L!Below, Places
  <2> QED
    BY <2>1, BelowOrders
<1> QED
  BY <1>4

\* The places of S, each once, in the order of the query.
Sorts(s, S) ==
  /\ s \in [1..Cardinality(S) -> S]
  /\ InOrder(s)
  /\ \A p \in S : \E i \in DOMAIN s : s[i] = p

LEMMA SortedExists ==
  ASSUME NEW S \in SUBSET Places, IsFiniteSet(S)
  PROVE  \E s : Sorts(s, S)
<1> DEFINE Bad == {n \in Nat : \E T \in SUBSET Places : /\ IsFiniteSet(T) /\ Cardinality(T) = n
                                                        /\ ~ \E s : Sorts(s, T)}
<1> SUFFICES ASSUME Bad # {} PROVE FALSE
  BY FS_CardinalityType
<1>1. PICK n \in Bad : \A m \in Bad : n <= m
  BY Smallest
<1>2. PICK T \in SUBSET Places : /\ IsFiniteSet(T) /\ Cardinality(T) = n
                                 /\ ~ \E s : Sorts(s, T)
  BY <1>1
<1>3. n \in Nat
  BY <1>1
<1>4. CASE T = {}
  <2>1. Sorts([i \in 1..0 |-> i], T)
    BY <1>4, FS_EmptySet DEF Sorts, InOrder
  <2> QED
    BY <1>2, <2>1
<1>5. CASE T # {}
  <2>1. PICK p \in T : \A q \in T \ {p} : L!Below(p, q)
    BY <1>2, <1>5, Lowest
  <2> DEFINE U == T \ {p}
  <2>2. IsFiniteSet(U) /\ Cardinality(U) = n - 1 /\ n - 1 \in Nat /\ U \in SUBSET Places
    <3>1. IsFiniteSet(U) /\ Cardinality(U) = n - 1
      BY <1>2, <2>1, FS_RemoveElement
    <3>2. Cardinality(U) \in Nat /\ U \in SUBSET Places
      BY <3>1, FS_CardinalityType
    <3> QED
      BY <3>1, <3>2
  <2>3. n - 1 \notin Bad
    BY <1>1, <1>3
  <2>4. PICK s : Sorts(s, U)
    BY <2>2, <2>3
  <2> DEFINE t == [i \in 1..n |-> IF i = n THEN p ELSE s[i]]
  <2>5. \A i \in 1..(n - 1) : s[i] \in U /\ t[i] = s[i] /\ i < n
    <3>1. s \in [1..(n - 1) -> U]
      BY <2>2, <2>4 DEF Sorts
    <3>2. \A i \in 1..(n - 1) : i \in 1..n /\ i < n /\ i # n
      BY <1>3
    <3> QED
      BY <3>1, <3>2
  <2>6. t[n] = p /\ DOMAIN t = 1..n /\ n \in 1..n
    BY <1>3, <2>2
  <2>7. \A i \in 1..n : i = n \/ i \in 1..(n - 1)
    BY <1>3
  <2> HIDE DEF t
  <2>8. t \in [1..n -> T]
    <3>1. \A i \in 1..n : t[i] \in T
      BY <2>1, <2>5, <2>6, <2>7
    <3> QED
      BY <3>1 DEF t
  <2>9. InOrder(t)
    <3> SUFFICES ASSUME NEW i \in 1..n, NEW j \in 1..n, i < j PROVE L!Below(t[j], t[i])
      BY <2>6 DEF InOrder
    <3>1. i \in 1..(n - 1)
      BY <1>3, <2>7
    <3>2. CASE j = n
      BY <2>1, <2>5, <2>6, <3>1, <3>2
    <3>3. CASE j \in 1..(n - 1)
      BY <2>2, <2>4, <2>5, <3>1, <3>3 DEF Sorts, InOrder
    <3> QED
      BY <2>7, <3>2, <3>3
  <2>10. \A q \in T : \E i \in 1..n : t[i] = q
    <3> SUFFICES ASSUME NEW q \in T PROVE \E i \in 1..n : t[i] = q
      OBVIOUS
    <3>1. CASE q = p
      BY <2>6, <3>1
    <3>2. CASE q # p
      <4>1. PICK i \in 1..(n - 1) : s[i] = q
        BY <2>2, <2>4, <3>2 DEF Sorts
      <4>2. i \in 1..n
        BY <1>3
      <4> QED
        BY <2>5, <4>1, <4>2
    <3> QED
      BY <3>1, <3>2
  <2> QED
    BY <1>2, <2>6, <2>8, <2>9, <2>10 DEF Sorts
<1> QED
  BY <1>4, <1>5

LEMMA SameCount == ASSUME NEW S PROVE L!Cardinality(S) = Cardinality(S)
BY Zenon DEF L!Cardinality, Cardinality

LEMMA SortedSorts ==
  ASSUME NEW S \in SUBSET Places, IsFiniteSet(S)
  PROVE  Sorts(L!Sorted(S), S)
<1> DEFINE n == Cardinality(S)
<1>1. n \in Nat
  BY FS_CardinalityType
<1>2. L!SetToSeqs(S) = {f \in [1..n -> S] : \A i, j \in 1..n : i # j => f[i] # f[j]}
  BY SameCount DEF L!SetToSeqs
<1>3. \E s \in L!SetToSeqs(S) : \A i, j \in DOMAIN s : i < j => L!Below(s[j], s[i])
  <2>1. PICK s : Sorts(s, S)
    BY SortedExists
  <2>2. ASSUME NEW i \in 1..n, NEW j \in 1..n, i # j PROVE s[i] # s[j]
    <3>1. s[i] \in Places /\ s[j] \in Places /\ DOMAIN s = 1..n
      BY <2>1 DEF Sorts
    <3>2. L!Below(s[i], s[j]) \/ L!Below(s[j], s[i])
      BY <1>1, <2>1, <2>2, <3>1 DEF Sorts, InOrder
    <3> QED
      BY <3>1, <3>2, BelowOrders
  <2> QED
    BY <1>2, <2>1, <2>2 DEF Sorts, InOrder
<1>4. /\ L!Sorted(S) \in L!SetToSeqs(S)
      /\ \A i, j \in DOMAIN L!Sorted(S) : i < j => L!Below(L!Sorted(S)[j], L!Sorted(S)[i])
  BY <1>3 DEF L!Sorted
<1> DEFINE t == L!Sorted(S)
<1> HIDE DEF t
<1>5. t \in [1..n -> S] /\ \A i, j \in 1..n : i # j => t[i] # t[j]
  BY <1>2, <1>4 DEF t
<1>6. ASSUME NEW p \in S PROVE \E i \in DOMAIN t : t[i] = p
  <2> SUFFICES ASSUME \A i \in 1..n : t[i] # p PROVE FALSE
    BY <1>5
  <2>1. PICK J, R : J = 1..n /\ R = S \ {p}
    OBVIOUS
  <2>2. t \in [J -> R]
    BY <1>5, <2>1
  <2>3. IsFiniteSet(R) /\ Cardinality(R) = n - 1
    BY <2>1, FS_RemoveElement
  <2>4. IsFiniteSet(J) /\ Cardinality(J) = n
    BY <1>1, <2>1, FS_Interval
  <2>5. Cardinality(R) < Cardinality(J)
    BY <1>1, <2>3, <2>4
  <2>6. \E i, j \in J : i # j /\ t[i] = t[j]
    BY <2>2, <2>3, <2>4, <2>5, FS_PigeonHole
  <2> QED
    BY <1>5, <2>1, <2>6
<1> QED
  BY <1>4, <1>5, <1>6 DEF Sorts, InOrder, t
-----------------------------------------------------------------------------
(* The pages                                                               *)

\* The rows of the database.
DbRows == [at : Nat, in : SUBSET Filters]

TableOK == table \in Seq(DbRows) /\ now \in Nat

\* A page of the rows below a place, or from the first one: of the places that are
\* due, it leaves out those below its last row only, and then it has a next page.
Continues(pg, after, due) ==
  /\ pg.items \in Seq(Places)
  /\ InOrder(pg.items)
  /\ after # Null => \A i \in DOMAIN pg.items : L!Below(pg.items[i], after)
  /\ pg.next # Null =>
       pg.items # <<>> /\ pg.next = L!Cursor(pg.items[Len(pg.items)])
  /\ \A p \in due : (after = Null \/ L!Below(p, after)) =>
       \/ \E i \in DOMAIN pg.items : pg.items[i] = p
       \/ pg.next # Null /\ L!Below(p, pg.items[Len(pg.items)])

LEMMA PlacesOfRows ==
  ASSUME TableOK
  PROVE  /\ \A r \in DOMAIN table : L!Place(r) \in Places /\ r \in Nat
         /\ IsFiniteSet(DOMAIN table)
         /\ \A f : L!Matching(f) \subseteq DOMAIN table
<1>1. DOMAIN table = 1..Len(table) /\ Len(table) \in Nat
  BY DEF TableOK
<1>2. IsFiniteSet(DOMAIN table)
  BY <1>1, FS_Interval
<1>3. ASSUME NEW r \in DOMAIN table PROVE L!Place(r) \in Places /\ r \in Nat
  <2>1. table[r] \in DbRows /\ r \in Nat
    BY <1>1 DEF TableOK
  <2>2. table[r].at \in Nat
    BY <2>1 DEF DbRows
  <2> QED
    BY <2>1, <2>2 DEF L!Place, Places
<1> QED
  BY <1>2, <1>3 DEF L!Matching

LEMMA PageContinues ==
  ASSUME TableOK, NEW f, NEW after
  PROVE  /\ L!Page(f, after).for = f
         /\ Continues(L!Page(f, after), after, {L!Place(r) : r \in L!Matching(f)})
<1> DEFINE below == {p \in {L!Place(r) : r \in L!Matching(f)} :
                       after = Null \/ L!Below(p, after)}
           rest == L!Sorted(below)
           n == Len(rest)
           pg == L!Page(f, after)
<1>1. below \in SUBSET Places /\ IsFiniteSet(below)
  <2>1. IsFiniteSet(L!Matching(f))
    BY PlacesOfRows, FS_Subset
  <2> DEFINE place == [r \in L!Matching(f) |-> L!Place(r)]
  <2>2. IsFiniteSet({L!Place(r) : r \in L!Matching(f)})
    <3>1. place \in Surjection(L!Matching(f), {L!Place(r) : r \in L!Matching(f)})
      BY DEF Surjection
    <3> QED
      BY <2>1, <3>1, FS_Surjection
  <2>3. IsFiniteSet(below)
    BY <2>2, FS_Subset
  <2> QED
    BY <2>3, PlacesOfRows
<1>2. \A p : p \in below <=> /\ \E r \in L!Matching(f) : p = L!Place(r)
                             /\ after = Null \/ L!Below(p, after)
  OBVIOUS
<1>3. pg = IF n > PageSize
             THEN [for |-> f, items |-> SubSeq(rest, 1, PageSize), next |-> L!Cursor(rest[PageSize])]
             ELSE [for |-> f, items |-> rest, next |-> Null]
  BY DEF L!Page
<1>4. Sorts(rest, below)
  BY <1>1, SortedSorts
<1> HIDE DEF below, rest, pg
<1>5. rest \in Seq(Places) /\ n \in Nat /\ DOMAIN rest = 1..n /\ \A i \in 1..n : rest[i] \in below
  <2>1. rest \in [1..Cardinality(below) -> below] /\ Cardinality(below) \in Nat
    BY <1>1, <1>4, FS_CardinalityType DEF Sorts
  <2> QED
    BY <1>1, <2>1
<1>6. PageSize \in Nat \ {0}
  BY PartsOK DEF L!ConstantsOK
<1>7. CASE ~(n > PageSize)
  <2>1. pg = [for |-> f, items |-> rest, next |-> Null]
    BY <1>3, <1>7
  <2>2. pg.for = f /\ pg.items = rest /\ pg.next = Null
    BY <2>1
  <2>3. \A i \in DOMAIN rest : after # Null => L!Below(rest[i], after)
    BY <1>2, <1>5
  <2>4. \A r \in L!Matching(f) : (after = Null \/ L!Below(L!Place(r), after)) =>
          \E i \in DOMAIN rest : rest[i] = L!Place(r)
    BY <1>2, <1>4 DEF Sorts
  <2> QED
    BY <1>4, <1>5, <2>2, <2>3, <2>4 DEF Continues, Sorts, pg
<1>8. CASE n > PageSize
  <2> DEFINE items == SubSeq(rest, 1, PageSize)
             last == rest[PageSize]
  <2>1. pg = [for |-> f, items |-> items, next |-> L!Cursor(last)]
    BY <1>3, <1>8
  <2>2. /\ items \in Seq(Places) /\ Len(items) = PageSize /\ DOMAIN items = 1..PageSize
        /\ \A i \in 1..PageSize : items[i] = rest[i] /\ i \in 1..n
    BY <1>5, <1>6, <1>8
  <2>3. last \in Places /\ last = items[Len(items)] /\ items # <<>>
    BY <1>5, <1>6, <1>8, <2>2
  <2> HIDE DEF items, last
  <2>4. pg.for = f /\ pg.items = items /\ pg.next = L!Cursor(last)
    BY <2>1
  <2>5. L!Cursor(last) # Null
    <3>1. L!Cursor(last) \in [at : Nat, id : Nat]
      <4>1. PerMs \in Nat \ {0} /\ last.at \in Nat
        BY <2>3, PartsOK DEF L!ConstantsOK, Places
      <4>2. (last.at \div PerMs) * PerMs \in Nat
        BY <4>1
      <4> QED
        BY <2>3, <4>2 DEF L!Cursor, Places
    <3> QED
      BY <3>1, PartsOK DEF L!ConstantsOK
  <2>6. ASSUME NEW r \in L!Matching(f), after = Null \/ L!Below(L!Place(r), after)
        PROVE  \/ \E i \in 1..PageSize : items[i] = L!Place(r)
               \/ L!Below(L!Place(r), last)
    <3>1. L!Place(r) \in below
      BY <1>2, <2>6
    <3>2. PICK i \in 1..n : rest[i] = L!Place(r)
      BY <1>4, <1>5, <3>1 DEF Sorts
    <3>3. CASE i <= PageSize
      BY <1>6, <2>2, <3>2, <3>3
    <3>4. CASE i > PageSize
      <4>1. PageSize \in 1..n
        BY <1>5, <1>6, <1>8
      <4> QED
        BY <1>4, <1>5, <1>6, <3>2, <3>4, <4>1 DEF Sorts, InOrder, last
    <3> QED
      BY <1>5, <1>6, <3>3, <3>4
  <2>7. InOrder(items)
    BY <1>4, <1>5, <2>2 DEF Sorts, InOrder
  <2>8. \A i \in 1..PageSize : after # Null => L!Below(items[i], after)
    BY <1>2, <1>5, <2>2
  <2> QED
    BY <2>2, <2>3, <2>4, <2>5, <2>6, <2>7, <2>8 DEF Continues, pg
<1> QED
  BY <1>7, <1>8 DEF pg
-----------------------------------------------------------------------------
(* The lists                                                               *)

ListRows == [place : Places, for : Filters \cup {Null}]

PageOK(pg) == pg.items \in Seq(Places) /\ pg.for \in Filters

ListTypes ==
  /\ TableOK
  /\ filter \in Filters
  /\ rows \in Seq(ListRows)
  /\ first # Null => DOMAIN first = {"page"} /\ (first.page # Null => PageOK(first.page))
  /\ more # Null => /\ DOMAIN more = {"filter", "after", "page"}
                    /\ more.filter \in Filters
                    /\ more.page # Null => PageOK(more.page)

LEMMA RowsOfPage ==
  ASSUME NEW pg, PageOK(pg)
  PROVE  /\ L!Rows(pg) \in Seq(ListRows)
         /\ Len(L!Rows(pg)) = Len(pg.items)
         /\ DOMAIN L!Rows(pg) = DOMAIN pg.items
         /\ \A i \in DOMAIN pg.items :
              L!Rows(pg)[i].place = pg.items[i] /\ L!Rows(pg)[i].for = pg.for
<1> DEFINE n == Len(pg.items)
<1>1. n \in Nat /\ DOMAIN pg.items = 1..n /\ \A i \in 1..n : pg.items[i] \in Places
  BY DEF PageOK
<1>2. L!Rows(pg) = [i \in 1..n |-> [place |-> pg.items[i], for |-> pg.for]]
  BY <1>1 DEF L!Rows
<1>3. \A i \in 1..n : /\ L!Rows(pg)[i] \in ListRows
                      /\ L!Rows(pg)[i].place = pg.items[i] /\ L!Rows(pg)[i].for = pg.for
  BY <1>1, <1>2 DEF ListRows, PageOK
<1> HIDE DEF n
<1>4. L!Rows(pg) \in [1..n -> ListRows]
  BY <1>2, <1>3
<1>5. L!Rows(pg) \in Seq(ListRows) /\ Len(L!Rows(pg)) = n
  BY <1>1, <1>4
<1> QED
  BY <1>1, <1>3, <1>4, <1>5 DEF n

LEMMA RowsAppended ==
  ASSUME NEW a \in Seq(ListRows), NEW b \in Seq(ListRows)
  PROVE  /\ a \o b \in Seq(ListRows)
         /\ \A i \in DOMAIN (a \o b) :
              \/ i \in DOMAIN a /\ (a \o b)[i] = a[i]
              \/ /\ i - Len(a) \in DOMAIN b /\ i > Len(a) /\ (a \o b)[i] = b[i - Len(a)]
         /\ \A i \in DOMAIN a : i \in DOMAIN (a \o b) /\ (a \o b)[i] = a[i]
         /\ \A i \in DOMAIN b : i + Len(a) \in DOMAIN (a \o b) /\ (a \o b)[i + Len(a)] = b[i]
OBVIOUS


\* What a commit leaves as it was: the rows there were.
LEMMA CommitAppends ==
  ASSUME TableOK, NEW t \in 0..now, L!Commit(t)
  PROVE  /\ TableOK'
         /\ \A r \in DOMAIN table : r \in DOMAIN table' /\ table'[r] = table[r]
<1>1. PICK n \in 1..Batch, s \in Scopes :
        table' = table \o [i \in 1..n |-> [at |-> t, in |-> s]]
  BY Zenon DEF L!Commit
<1>2. n \in Nat /\ t \in Nat /\ s \in SUBSET Filters /\ now' = now
  BY PartsOK DEF L!ConstantsOK, L!Commit, TableOK
<1> DEFINE new == [i \in 1..n |-> [at |-> t, in |-> s]]
<1>3. new \in Seq(DbRows)
  <2>1. [at |-> t, in |-> s] \in DbRows
    BY <1>2 DEF DbRows
  <2> QED
    BY <1>2, <2>1
<1> HIDE DEF new
<1>4. table' = table \o new
  BY <1>1 DEF new
<1> QED
  BY <1>2, <1>3, <1>4 DEF TableOK

\* A row keeps its place on the screens that do not sort by the last change.
LEMMA TouchKeeps ==
  ASSUME TableOK, NEW r \in DOMAIN table, L!Touch(r)
  PROVE  /\ TableOK'
         /\ DOMAIN table' = DOMAIN table
         /\ \A q \in DOMAIN table : q # r => table'[q] = table[q]
         /\ screen = "journal" => table'[r].at = table[r].at
<1>1. PICK s \in Scopes :
        /\ table' = [table EXCEPT ![r] = [at |-> IF screen = "knowledge" THEN now ELSE @.at,
                                          in |-> s]]
        /\ now' = now
  BY Zenon DEF L!Touch
<1> DEFINE new == [at |-> IF screen = "knowledge" THEN now ELSE table[r].at, in |-> s]
<1>2. s \in SUBSET Filters /\ now \in Nat /\ table[r] \in DbRows
  BY PartsOK DEF L!ConstantsOK, TableOK
<1>3. new \in DbRows /\ (screen = "journal" => new.at = table[r].at)
  BY <1>2 DEF DbRows
<1>4. table' = [table EXCEPT ![r] = new]
  BY <1>1
<1> HIDE DEF new
<1> QED
  BY <1>1, <1>3, <1>4 DEF TableOK

LEMMA TypesStart ==
  ASSUME L!Init
  PROVE  ListTypes
<1>1. table \in Seq(DbRows) /\ rows \in Seq(ListRows) /\ now \in Nat /\ filter \in Filters
  BY DEF L!Init
<1>2. DOMAIN first = {"page"} /\ first.page = Null /\ more = Null
  BY DEF L!Init, L!Asked
<1> QED
  BY <1>1, <1>2 DEF ListTypes, TableOK

LEMMA TypesKept ==
  ASSUME ListTypes, L!Next
  PROVE  ListTypes'
<1>1. CASE L!Tick
  BY <1>1 DEF L!Tick, ListTypes, TableOK, PageOK, L!selection
<1>2. ASSUME NEW t \in 0..now, L!Commit(t) PROVE ListTypes'
  BY <1>2, CommitAppends DEF L!Commit, ListTypes, PageOK
<1>3. ASSUME NEW r \in DOMAIN table, L!Touch(r) PROVE ListTypes'
  BY <1>3, TouchKeeps DEF L!Touch, ListTypes, PageOK
<1>4. CASE L!Unsettle
  <2>1. rows' \in Seq(ListRows)
    BY <1>4 DEF L!Unsettle
  <2>2. more' = Null \/ more' = more
    BY <1>4 DEF L!Unsettle
  <2>3. first' = Null /\ UNCHANGED <<now, table, filter>>
    BY <1>4 DEF L!Unsettle, L!database
  <2> QED
    BY <2>1, <2>2, <2>3 DEF ListTypes, TableOK, PageOK
<1>5. ASSUME NEW f \in Filters, L!Settle(f) PROVE ListTypes'
  <2>1. rows' \in Seq(ListRows) /\ (more' = Null \/ more' = more)
    <3>1. CASE screen = "journal"
      BY <1>5, <3>1 DEF L!Settle
    <3>2. CASE screen # "journal"
      BY <1>5, <3>2 DEF L!Settle, ListTypes
    <3> QED
      BY <3>1, <3>2
  <2>2. DOMAIN first' = {"page"} /\ first'.page = Null
    BY <1>5 DEF L!Settle, L!Asked
  <2>3. filter' \in Filters /\ UNCHANGED <<now, table>>
    BY <1>5 DEF L!Settle, L!database
  <2> QED
    BY <2>1, <2>2, <2>3 DEF ListTypes, TableOK, PageOK
<1>6. CASE L!ReadFirst
  <2>1. PageOK(L!Page(filter, Null))
    BY PageContinues DEF PageOK, Continues, ListTypes
  <2>2. DOMAIN first' = {"page"} /\ first'.page = L!Page(filter, Null)
    BY <1>6 DEF L!ReadFirst, ListTypes
  <2>3. UNCHANGED <<now, table, filter, rows, more>>
    BY <1>6 DEF L!ReadFirst, L!database
  <2> QED
    BY <2>1, <2>2, <2>3 DEF ListTypes, TableOK, PageOK
<1>7. CASE L!ArriveFirst
  <2>1. PageOK(first.page)
    BY <1>7 DEF L!ArriveFirst, ListTypes
  <2>2. rows' = L!Rows(first.page) /\ first' = Null /\ UNCHANGED <<now, table, filter, more>>
    BY <1>7 DEF L!ArriveFirst, L!database
  <2>3. rows' \in Seq(ListRows)
    BY <2>1, <2>2, RowsOfPage
  <2> QED
    BY <2>2, <2>3 DEF ListTypes, TableOK, PageOK
<1>8. CASE L!LoadMore
  <2>1. /\ DOMAIN more' = {"filter", "after", "page"}
        /\ more'.filter = filter /\ more'.page = Null
    BY <1>8 DEF L!LoadMore
  <2>2. UNCHANGED <<now, table, filter, rows, first>>
    BY <1>8 DEF L!LoadMore, L!database
  <2> QED
    BY <2>1, <2>2 DEF ListTypes, TableOK, PageOK
<1>9. CASE L!ReadMore
  <2>1. PageOK(L!Page(more.filter, more.after))
    BY <1>9, PageContinues DEF PageOK, Continues, ListTypes, L!ReadMore
  <2>2. /\ DOMAIN more' = {"filter", "after", "page"}
        /\ more'.filter = more.filter /\ more'.page = L!Page(more.filter, more.after)
    BY <1>9 DEF L!ReadMore, ListTypes
  <2>3. UNCHANGED <<now, table, filter, rows, first>> /\ more # Null
    BY <1>9 DEF L!ReadMore, L!database
  <2> QED
    BY <2>1, <2>2, <2>3 DEF ListTypes, TableOK, PageOK
<1>10. CASE L!ArriveMore
  <2>1. PageOK(more.page)
    BY <1>10 DEF L!ArriveMore, ListTypes
  <2>2. rows' = rows \o L!Rows(more.page) /\ more' = Null /\ UNCHANGED <<now, table, filter, first>>
    BY <1>10 DEF L!ArriveMore, L!database
  <2>3. rows' \in Seq(ListRows)
    BY <2>1, <2>2, RowsOfPage, RowsAppended DEF ListTypes
  <2> QED
    BY <2>2, <2>3 DEF ListTypes, TableOK, PageOK
<1>11. CASE L!Fail
  <2>1. /\ first' = Null \/ first' = first
        /\ more' = Null \/ more' = more
        /\ UNCHANGED <<now, table, filter, rows>>
    BY <1>11 DEF L!Fail, L!database
  <2> QED
    BY <2>1 DEF ListTypes, TableOK, PageOK
<1>12. CASE L!ArriveRequested
  <2>1. rows' \in Seq(ListRows)
    <3>1. [place |-> L!Place(fetch), for |-> Null] \in ListRows
      BY <1>12, PlacesOfRows DEF L!ArriveRequested, ListTypes, ListRows
    <3> QED
      BY <1>12, <3>1 DEF L!ArriveRequested, ListTypes
  <2>2. UNCHANGED <<now, table, filter, first, more>>
    BY <1>12 DEF L!ArriveRequested, L!database
  <2> QED
    BY <2>1, <2>2 DEF ListTypes, TableOK, PageOK
<1>13. ASSUME NEW i \in L!Ids(rows), L!Select(i) PROVE ListTypes'
  BY <1>13 DEF L!Select, L!database, ListTypes, TableOK, PageOK
<1> QED
  BY <1>1, <1>2, <1>3, <1>4, <1>5, <1>6, <1>7, <1>8, <1>9, <1>10, <1>11, <1>12, <1>13
     DEF L!Next
-----------------------------------------------------------------------------
(* The record beside the list                                              *)

LEMMA IdsOfRows ==
  ASSUME NEW a \in Seq(ListRows), NEW b \in Seq(ListRows)
  PROVE  L!Ids(a) \subseteq L!Ids(a \o b) /\ L!Ids(b) \subseteq L!Ids(a \o b)
<1>1. /\ \A i \in DOMAIN a : i \in DOMAIN (a \o b) /\ (a \o b)[i] = a[i]
      /\ \A i \in DOMAIN b : i + Len(a) \in DOMAIN (a \o b) /\ (a \o b)[i + Len(a)] = b[i]
  BY RowsAppended
<1> QED
  BY <1>1 DEF L!Ids

LEMMA SelectionKept ==
  ASSUME ListTypes, L!Next, L!SelectionIsListed
  PROVE  L!SelectionIsListed'
<1> SUFFICES ASSUME L!Selects' PROVE chosen' \in L!Ids(rows') \cup {Null}
  BY DEF L!SelectionIsListed
<1>1. screen' = screen
  BY Zenon DEF L!Next, L!Tick, L!Commit, L!Touch, L!Unsettle, L!Settle, L!ReadFirst,
     L!ArriveFirst, L!LoadMore, L!ReadMore, L!ArriveMore, L!Fail, L!ArriveRequested, L!Select
<1>2. L!Selects /\ screen # "journal" /\ screen # "followed"
  BY <1>1 DEF L!Selects
<1>3. chosen \in L!Ids(rows) \cup {Null}
  BY <1>2 DEF L!SelectionIsListed
<1>4. ASSUME rows' = rows, chosen' = chosen
      PROVE  chosen' \in L!Ids(rows') \cup {Null}
  BY <1>3, <1>4
<1>5. CASE \/ L!Tick \/ (\E t \in 0..now : L!Commit(t)) \/ (\E r \in DOMAIN table : L!Touch(r))
           \/ L!ReadFirst \/ L!LoadMore \/ L!ReadMore \/ L!Fail
  <2>1. rows' = rows /\ chosen' = chosen
    BY <1>5, Zenon DEF L!Tick, L!Commit, L!Touch, L!ReadFirst, L!LoadMore, L!ReadMore, L!Fail,
       L!selection
  <2> QED
    BY <1>4, <2>1
<1>6. CASE L!Unsettle
  BY <1>2, <1>6 DEF L!Unsettle
<1>7. ASSUME NEW f \in Filters, L!Settle(f) PROVE chosen' \in L!Ids(rows') \cup {Null}
  <2>1. rows' = rows
    BY <1>2, <1>7 DEF L!Settle
  <2>2. PICK r \in {requested, chosen} : L!Follow(r, rows, chosen)
    BY <1>2, <1>7 DEF L!Settle, L!Readdress
  <2> QED
    BY <1>3, <2>1, <2>2 DEF L!Follow
<1>8. CASE L!ArriveFirst
  <2>1. rows' = L!Rows(first.page) /\ PageOK(first.page)
    BY <1>8 DEF L!ArriveFirst, ListTypes
  <2>2. L!Follow(requested, rows', IF rows' = <<>> THEN Null
                    ELSE IF chosen \in L!Ids(rows') THEN chosen ELSE rows'[1].place.id)
    BY <1>2, <1>8 DEF L!ArriveFirst
  <2>3. rows' # <<>> => rows'[1].place.id \in L!Ids(rows')
    <3>1. rows' \in Seq(ListRows)
      BY <2>1, RowsOfPage
    <3>2. rows' # <<>> => 1 \in DOMAIN rows'
      BY <3>1
    <3> QED
      BY <3>2 DEF L!Ids
  <2>4. \/ chosen' = requested /\ requested \in L!Ids(rows')
        \/ chosen' = Null
        \/ chosen' = chosen /\ chosen \in L!Ids(rows')
        \/ chosen' = rows'[1].place.id /\ rows' # <<>>
    BY <2>2, Zenon DEF L!Follow
  <2> QED
    BY <2>3, <2>4
<1>9. CASE L!ArriveMore
  <2>1. rows' = rows \o L!Rows(more.page) /\ PageOK(more.page)
    BY <1>9 DEF L!ArriveMore, ListTypes
  <2>2. L!Ids(rows) \subseteq L!Ids(rows')
    BY <2>1, RowsOfPage, IdsOfRows DEF ListTypes
  <2>3. L!Follow(requested, rows', chosen)
    BY <1>2, <1>9 DEF L!ArriveMore
  <2> QED
    BY <1>3, <2>2, <2>3 DEF L!Follow
<1>10. CASE L!ArriveRequested
  <2>1. chosen' = fetch /\ fetch \in DOMAIN table
        /\ rows' = IF fetch \in L!Ids(rows) THEN rows
                   ELSE <<[place |-> L!Place(fetch), for |-> Null]>> \o rows
    BY <1>10 DEF L!ArriveRequested
  <2>2. CASE fetch \in L!Ids(rows)
    BY <2>1, <2>2
  <2>3. CASE fetch \notin L!Ids(rows)
    <3> DEFINE row1 == [place |-> L!Place(fetch), for |-> Null]
    <3>1. row1 \in ListRows /\ row1.place.id = fetch
      BY <2>1, PlacesOfRows DEF ListTypes, ListRows, L!Place
    <3> HIDE DEF row1
    <3>2. <<row1>> \in Seq(ListRows) /\ rows' = <<row1>> \o rows
      BY <2>1, <2>3, <3>1 DEF row1
    <3>3. fetch \in L!Ids(<<row1>>)
      <4>1. 1 \in DOMAIN <<row1>> /\ <<row1>>[1] = row1
        OBVIOUS
      <4> QED
        BY <3>1, <4>1 DEF L!Ids
    <3>4. L!Ids(<<row1>>) \subseteq L!Ids(rows')
      <4>1. L!Ids(<<row1>>) \subseteq L!Ids(<<row1>> \o rows)
        BY <3>2, IdsOfRows, Zenon DEF ListTypes
      <4> QED
        BY <3>2, <4>1
    <3> QED
      BY <2>1, <3>3, <3>4
  <2> QED
    BY <2>2, <2>3
<1>11. ASSUME NEW i \in L!Ids(rows), L!Select(i) PROVE chosen' \in L!Ids(rows') \cup {Null}
  BY <1>11 DEF L!Select
<1> QED
  BY <1>5, <1>6, <1>7, <1>8, <1>9, <1>10, <1>11, Zenon DEF L!Next
-----------------------------------------------------------------------------
(* The cursor of a page, to the millisecond                                *)

LEMMA Times ==
  ASSUME NEW x \in Nat, NEW y \in Nat, NEW p \in Nat \ {0}, x * p < y * p
  PROVE  x < y
<1>1. CASE x >= y
  <2>1. PICK d \in Nat : x = y + d
    <3>1. x - y \in Nat
      BY <1>1
    <3> QED
      BY <3>1
  <2>2. x * p = y * p + d * p
    BY <2>1
  <2>3. d * p \in Nat /\ y * p \in Nat /\ x * p \in Nat
    OBVIOUS
  <2> QED
    BY <2>2, <2>3
<1> QED
  BY <1>1

LEMMA Floor ==
  ASSUME NEW a \in Nat, NEW p \in Nat \ {0}
  PROVE  /\ a \div p \in Nat
         /\ (a \div p) * p <= a
         /\ a < (a \div p) * p + p
OBVIOUS

LEMMA Same ==
  ASSUME NEW a \in Nat, NEW b \in Nat, NEW p \in Nat \ {0}, (a \div p) * p <= b, b <= a
  PROVE  a \div p = b \div p
<1> DEFINE q == a \div p
           r == b \div p
<1>1. q \in Nat /\ q * p <= a /\ a < q * p + p /\ r \in Nat /\ r * p <= b /\ b < r * p + p
  BY Floor
<1>2. q * p \in Nat /\ r * p \in Nat
  BY <1>1
<1>3. (q + 1) * p = q * p + p /\ (r + 1) * p = r * p + p
  BY <1>1
<1>4. r * p < (q + 1) * p
  BY <1>1, <1>2, <1>3
<1>5. q * p < (r + 1) * p
  BY <1>1, <1>2, <1>3
<1> HIDE DEF q, r
<1>6. r < q + 1 /\ q < r + 1
  BY <1>1, <1>4, <1>5, Times
<1> QED
  BY <1>1, <1>6 DEF q, r

\* Below the cursor is below the row, and what is below the row but not below the
\* cursor is of the row's millisecond.
LEMMA CursorBelow ==
  ASSUME NEW p \in Places, NEW q \in Places
  PROVE  /\ L!Cursor(p) # Null
         /\ L!Below(q, L!Cursor(p)) => L!Below(q, p)
         /\ L!Below(q, p) => L!Below(q, L!Cursor(p)) \/ L!SameMs(q, p)
<1> DEFINE floor == (p.at \div PerMs) * PerMs
           c == L!Cursor(p)
<1>1. PerMs \in Nat \ {0} /\ Null \notin Places
  BY PartsOK DEF L!ConstantsOK, Places
<1>2. p.at \in Nat /\ p.id \in Nat /\ q.at \in Nat /\ q.id \in Nat
  BY DEF Places
<1>3. floor \in Nat /\ floor <= p.at
  BY <1>1, <1>2, Floor
<1>4. q.at <= p.at /\ floor <= q.at => L!SameMs(q, p)
  BY <1>1, <1>2, Same DEF L!SameMs
<1>5. c = [p EXCEPT !.at = floor]
  BY DEF L!Cursor
<1> HIDE DEF floor, c
<1>6. c \in Places /\ c.at = floor /\ c.id = p.id
  BY <1>3, <1>5 DEF Places
<1>7. /\ L!Below(q, c) => L!Below(q, p)
      /\ L!Below(q, p) => L!Below(q, c) \/ (q.at <= p.at /\ floor <= q.at)
  BY <1>2, <1>3, <1>6 DEF L!Below
<1> QED
  BY <1>1, <1>4, <1>6, <1>7 DEF c
-----------------------------------------------------------------------------
(* The journal                                                             *)

\* The places of the rows that match since the first page was read.
Known == {L!Place(r) : r \in known}

\* Of the places that are due, the list holds those that are not below its last
\* row, but for some of the millisecond of a row that it holds.
Covers(s, next, due) ==
  \A p \in due : (next = Null \/ L!Below(s[Len(s)].place, p)) =>
    \/ p.id \in L!Ids(s)
    \/ \E i \in DOMAIN s : L!SameMs(p, s[i].place) /\ L!Below(p, s[i].place)

\* The cursor that a list was left with.
EndsAt(s, next) == next # Null => s # <<>> /\ next = L!Cursor(s[Len(s)].place)

LEMMA FirstPageShown ==
  ASSUME NEW pg, PageOK(pg), NEW due \in SUBSET Places, Continues(pg, Null, due)
  PROVE  /\ L!Descends(L!Rows(pg)) /\ EndsAt(L!Rows(pg), pg.next)
         /\ Covers(L!Rows(pg), pg.next, due)
<1> DEFINE s == L!Rows(pg)
<1>1. /\ s \in Seq(ListRows) /\ Len(s) = Len(pg.items) /\ DOMAIN s = DOMAIN pg.items
      /\ \A i \in DOMAIN s : s[i].place = pg.items[i]
  BY RowsOfPage
<1> HIDE DEF s
<1>2. pg.items # <<>> => Len(pg.items) \in DOMAIN s /\ s # <<>>
  BY <1>1 DEF PageOK
<1>3. L!Descends(s)
  BY <1>1 DEF L!Descends, Continues, InOrder
<1>4. EndsAt(s, pg.next)
  BY <1>1, <1>2 DEF EndsAt, Continues
<1>5. ASSUME NEW p \in due, pg.next = Null \/ L!Below(s[Len(s)].place, p)
      PROVE  p.id \in L!Ids(s)
  <2>1. CASE \E i \in DOMAIN pg.items : pg.items[i] = p
    BY <1>1, <2>1 DEF L!Ids
  <2>2. CASE pg.next # Null /\ L!Below(p, pg.items[Len(pg.items)])
    <3>1. pg.items # <<>>
      BY <2>2 DEF Continues
    <3>2. s[Len(s)].place = pg.items[Len(pg.items)] /\ pg.items[Len(pg.items)] \in Places
      BY <1>1, <1>2, <3>1 DEF PageOK
    <3>3. L!Below(pg.items[Len(pg.items)], p)
      BY <1>5, <2>2, <3>2
    <3> QED
      BY <2>2, <3>2, <3>3, BelowOrders
  <2> QED
    BY <2>1, <2>2 DEF Continues
<1> QED
  BY <1>3, <1>4, <1>5 DEF Covers, s

LEMMA NextPageShown ==
  ASSUME NEW s \in Seq(ListRows), s # <<>>, L!Descends(s),
         NEW pg, PageOK(pg), NEW due \in SUBSET Places,
         NEW after, after = L!Cursor(s[Len(s)].place), Covers(s, after, due),
         Continues(pg, after, due)
  PROVE  LET t == s \o L!Rows(pg)
         IN  L!Descends(t) /\ EndsAt(t, pg.next) /\ Covers(t, pg.next, due)
<1> DEFINE u == L!Rows(pg)
           t == s \o u
           m == Len(s)
           n == Len(pg.items)
           last == s[m].place
<1>1. /\ u \in Seq(ListRows) /\ Len(u) = n /\ DOMAIN u = DOMAIN pg.items
      /\ \A i \in DOMAIN u : u[i].place = pg.items[i]
  BY RowsOfPage
<1>2. m \in Nat /\ n \in Nat /\ DOMAIN s = 1..m /\ DOMAIN pg.items = 1..n /\ m \in 1..m
  BY DEF PageOK
<1>3. /\ t \in Seq(ListRows) /\ DOMAIN t = 1..(m + n) /\ Len(t) = m + n
      /\ \A i \in 1..m : t[i] = s[i]
      /\ \A i \in 1..n : t[m + i].place = pg.items[i]
  <2>1. t \in Seq(ListRows) /\ Len(t) = m + n
    BY <1>1
  <2>2. \A i \in 1..m : t[i] = s[i]
    BY <1>1
  <2>3. \A i \in 1..n : t[m + i] = u[i]
    BY <1>1, <1>2
  <2>4. \A i \in 1..n : t[m + i].place = pg.items[i]
    BY <1>1, <1>2, <2>3
  <2> HIDE DEF t
  <2>5. DOMAIN t = 1..(m + n)
    BY <1>2, <2>1
  <2> QED
    BY <2>1, <2>2, <2>4, <2>5
<1>4. /\ \A i \in 1..m : s[i] \in ListRows /\ s[i].place \in Places
      /\ \A i \in 1..n : pg.items[i] \in Places
      /\ last \in Places
  <2>1. \A x \in ListRows : x.place \in Places
    BY DEF ListRows
  <2>2. \A i \in 1..m : s[i] \in ListRows
    BY <1>2
  <2>3. \A i \in 1..n : pg.items[i] \in Places
    BY <1>2 DEF PageOK
  <2> QED
    BY <1>2, <2>1, <2>2, <2>3
<1> HIDE DEF u, t
<1>5. \A i \in 1..n : L!Below(pg.items[i], after) /\ L!Below(pg.items[i], last)
  <2>1. after # Null
    BY <1>4, CursorBelow
  <2> QED
    BY <1>2, <1>4, <2>1, CursorBelow DEF Continues
<1>6. L!Descends(t)
  <2> SUFFICES ASSUME NEW i \in 1..(m + n), NEW j \in 1..(m + n), i < j
               PROVE  L!Below(t[j].place, t[i].place)
    BY <1>3 DEF L!Descends
  <2>1. CASE j <= m
    BY <1>2, <1>3, <2>1 DEF L!Descends
  <2>2. CASE i > m
    <3>1. PICK a \in 1..n, b \in 1..n : i = m + a /\ j = m + b /\ a < b
      <4>1. i - m \in 1..n /\ j - m \in 1..n /\ i = m + (i - m) /\ j = m + (j - m) /\ i - m < j - m
        BY <1>2, <2>2
      <4> QED
        BY <4>1
    <3>2. L!Below(pg.items[b], pg.items[a])
      BY <1>2, <3>1 DEF Continues, InOrder
    <3> QED
      BY <1>3, <3>1, <3>2
  <2>3. CASE i <= m /\ j > m
    <3>1. PICK b \in 1..n : j = m + b
      <4>1. j - m \in 1..n /\ j = m + (j - m)
        BY <1>2, <2>3
      <4> QED
        BY <4>1
    <3>2. i \in 1..m /\ t[i].place = s[i].place /\ t[j].place = pg.items[b]
      BY <1>2, <1>3, <2>3, <3>1
    <3>3. i = m \/ L!Below(last, s[i].place)
      <4>1. i \in DOMAIN s /\ m \in DOMAIN s
        BY <1>2, <3>2, Zenon
      <4>2. i # m => i < m
        <5>1. \A x \in Nat : \A y \in 1..x : y # x => y < x
          OBVIOUS
        <5> QED
          BY <1>2, <3>2, <5>1, Zenon
      <4> QED
        BY <4>1, <4>2 DEF L!Descends
    <3> QED
      BY <1>4, <1>5, <3>2, <3>3, BelowOrders
  <2> QED
    BY <1>2, <2>1, <2>2, <2>3
<1>7. n > 0 => t[Len(t)].place = pg.items[n]
  BY <1>2, <1>3
<1>8. EndsAt(t, pg.next)
  <2> SUFFICES ASSUME pg.next # Null PROVE t # <<>> /\ pg.next = L!Cursor(t[Len(t)].place)
    BY DEF EndsAt
  <2>1. n > 0 /\ pg.next = L!Cursor(pg.items[n])
    BY <1>2 DEF Continues, PageOK
  <2> QED
    BY <1>2, <1>3, <1>7, <2>1
<1>9. L!Ids(s) \subseteq L!Ids(t)
  BY <1>1, IdsOfRows DEF t
<1>10. ASSUME NEW p \in due, pg.next = Null \/ L!Below(t[Len(t)].place, p)
       PROVE  \/ p.id \in L!Ids(t)
              \/ \E i \in DOMAIN t : L!SameMs(p, t[i].place) /\ L!Below(p, t[i].place)
  <2>1. CASE L!Below(last, p)
    <3>1. \/ p.id \in L!Ids(s)
          \/ \E i \in 1..m : L!SameMs(p, s[i].place) /\ L!Below(p, s[i].place)
      BY <1>2, <2>1 DEF Covers
    <3>2. \A i \in 1..m : i \in DOMAIN t
      BY <1>2, <1>3
    <3> QED
      BY <1>3, <1>9, <3>1, <3>2
  <2>2. CASE p = last
    BY <1>2, <1>9, <2>2 DEF L!Ids
  <2>3. CASE L!Below(p, after)
    <3>1. CASE \E i \in 1..n : pg.items[i] = p
      <4>1. PICK i \in 1..n : pg.items[i] = p
        BY <3>1
      <4>2. m + i \in DOMAIN t /\ t[m + i].place = p
        BY <1>2, <1>3, <4>1
      <4> QED
        BY <4>2 DEF L!Ids
    <3>2. CASE pg.next # Null /\ L!Below(p, pg.items[n])
      <4>1. n > 0
        BY <1>2, <3>2 DEF Continues, PageOK
      <4>2. L!Below(pg.items[n], p) /\ pg.items[n] \in Places
        BY <1>2, <1>4, <1>7, <1>10, <3>2, <4>1
      <4> QED
        BY <3>2, <4>2, BelowOrders
    <3> QED
      BY <1>2, <2>3, <3>1, <3>2 DEF Continues
  <2>4. CASE L!Below(p, last) /\ ~L!Below(p, after)
    <3>1. L!SameMs(p, last)
      BY <1>4, <2>4, CursorBelow
    <3>2. m \in DOMAIN t /\ t[m].place = last
      BY <1>2, <1>3
    <3> QED
      BY <2>4, <3>1, <3>2
  <2> QED
    BY <1>4, <2>1, <2>2, <2>3, <2>4, BelowOrders
<1> QED
  BY <1>6, <1>8, <1>10 DEF Covers, t, u

JournalOK ==
  screen = "journal" =>
    /\ known \subseteq L!Matching(filter)
    /\ ~loaded => rows = <<>> /\ cursor = Null /\ more = Null
    /\ first # Null => ~loaded
    /\ fetch = Null
    /\ L!Descends(rows)
    /\ \A i \in DOMAIN rows : rows[i].for = filter
    /\ EndsAt(rows, cursor)
    /\ loaded => Covers(rows, cursor, Known)
    /\ first # Null /\ first.page # Null =>
         first.page.for = filter /\ Continues(first.page, Null, Known)
    /\ more # Null => /\ cursor # Null /\ more.filter = filter /\ more.after = cursor
                      /\ more.page # Null =>
                           more.page.for = filter /\ Continues(more.page, cursor, Known)

ListInv == ListTypes /\ L!SelectionIsListed /\ JournalOK

LEMMA KnownPlaces ==
  ASSUME ListTypes, JournalOK, screen = "journal"
  PROVE  Known \in SUBSET Places /\ known \subseteq DOMAIN table
<1>1. known \subseteq DOMAIN table
  BY PlacesOfRows DEF JournalOK, ListTypes
<1> QED
  BY <1>1, PlacesOfRows DEF ListTypes, Known

\* Fewer places are due: what was shown and read still shows them.
LEMMA FewerDue ==
  ASSUME NEW due, NEW less \in SUBSET due
  PROVE  /\ \A s, next : Covers(s, next, due) => Covers(s, next, less)
         /\ \A pg, after : Continues(pg, after, due) => Continues(pg, after, less)
BY DEF Covers, Continues

\* The database moves under the journal.
LEMMA JournalFramed ==
  ASSUME JournalOK, known' \subseteq L!Matching(filter)', Known' \subseteq Known,
         UNCHANGED <<screen, filter, rows, cursor, loaded, first, more, fetch>>
  PROVE  JournalOK'
<1> SUFFICES ASSUME screen = "journal" PROVE JournalOK'
  BY DEF JournalOK
<1>1. PICK K, K1 : K = Known /\ K1 = Known' /\ K1 \subseteq K
  OBVIOUS
<1>2. loaded => Covers(rows, cursor, K1)
  BY <1>1, FewerDue DEF JournalOK
<1>3. first # Null /\ first.page # Null => Continues(first.page, Null, K1)
  BY <1>1, FewerDue DEF JournalOK
<1>4. more # Null /\ more.page # Null => Continues(more.page, cursor, K1)
  BY <1>1, FewerDue DEF JournalOK
<1> QED
  BY <1>1, <1>2, <1>3, <1>4 DEF JournalOK

LEMMA JournalKept ==
  ASSUME ListTypes, JournalOK, L!Next
  PROVE  JournalOK'
<1>1. screen' = screen
  BY Zenon DEF L!Next, L!Tick, L!Commit, L!Touch, L!Unsettle, L!Settle, L!ReadFirst,
     L!ArriveFirst, L!LoadMore, L!ReadMore, L!ArriveMore, L!Fail, L!ArriveRequested, L!Select
<1> SUFFICES ASSUME screen = "journal" PROVE JournalOK'
  BY <1>1 DEF JournalOK
<1>2. ~L!Selects
  BY DEF L!Selects
<1>3. Known \in SUBSET Places /\ known \subseteq DOMAIN table
  BY KnownPlaces
<1>4. CASE L!Tick
  <2>1. UNCHANGED <<screen, table, known, filter, rows, cursor, loaded, first, more, fetch>>
    BY <1>4 DEF L!Tick, L!selection
  <2>2. known' \subseteq L!Matching(filter)' /\ Known' \subseteq Known
    BY <2>1 DEF JournalOK, Known, L!Matching, L!Place
  <2> QED
    BY <2>1, <2>2, JournalFramed
<1>5. ASSUME NEW t \in 0..now, L!Commit(t) PROVE JournalOK'
  <2>1. UNCHANGED <<screen, known, filter, rows, cursor, loaded, first, more, fetch>>
    BY <1>5 DEF L!Commit, L!selection
  <2>2. \A r \in DOMAIN table : r \in DOMAIN table' /\ table'[r] = table[r]
    BY <1>5, CommitAppends DEF ListTypes
  <2>3. known' \subseteq L!Matching(filter)' /\ Known' \subseteq Known
    BY <1>3, <2>1, <2>2 DEF JournalOK, Known, L!Matching, L!Place
  <2> QED
    BY <2>1, <2>3, JournalFramed
<1>6. ASSUME NEW r \in DOMAIN table, L!Touch(r) PROVE JournalOK'
  <2>1. UNCHANGED <<screen, filter, rows, cursor, loaded, first, more, fetch>>
    BY <1>6 DEF L!Touch, L!selection
  <2>2. /\ DOMAIN table' = DOMAIN table
        /\ \A q \in DOMAIN table : q # r => table'[q] = table[q]
        /\ table'[r].at = table[r].at
    BY <1>6, TouchKeeps DEF ListTypes
  <2>3. known' \subseteq known
    BY <1>6 DEF L!Touch
  <2>4. Known' \subseteq Known
    BY <1>3, <2>2, <2>3 DEF Known, L!Place
  <2>5. r \in known' => filter \in table'[r].in
    BY <1>6 DEF L!Touch
  <2>6. known' \subseteq L!Matching(filter)'
    BY <1>3, <2>1, <2>2, <2>3, <2>5 DEF JournalOK, L!Matching
  <2> QED
    BY <2>1, <2>4, <2>6, JournalFramed
<1>7. ASSUME \/ L!Unsettle
             \/ \E f \in Filters : L!Settle(f)
      PROVE  JournalOK'
  <2>1. /\ rows' = <<>> /\ cursor' = Null /\ loaded' = FALSE /\ known' = {} /\ more' = Null
        /\ fetch' = fetch
        /\ first' = Null \/ first' = L!Asked
    BY <1>2, <1>7, Zenon DEF L!Unsettle, L!Settle, L!Readdress, L!selection
  <2>2. L!Asked.page = Null
    BY DEF L!Asked
  <2> QED
    BY <1>1, <2>1, <2>2 DEF JournalOK, L!Descends, EndsAt
<1>8. CASE L!ReadFirst
  <2>1. /\ UNCHANGED <<screen, table, filter, rows, cursor, loaded, more, fetch>>
        /\ known' = L!Matching(filter) /\ first # Null /\ first'.page = L!Page(filter, Null)
    BY <1>8 DEF L!ReadFirst, L!database, L!selection, ListTypes
  <2>2. Known' = {L!Place(r) : r \in L!Matching(filter)}
    BY <2>1 DEF Known, L!Place
  <2>3. first'.page.for = filter' /\ Continues(first'.page, Null, Known')
    BY <2>1, <2>2, PageContinues DEF ListTypes
  <2>4. ~loaded /\ rows = <<>> /\ cursor = Null /\ more = Null /\ fetch = Null
    BY <2>1 DEF JournalOK
  <2>5. known' \subseteq L!Matching(filter)'
    BY <2>1 DEF L!Matching
  <2> QED
    BY <2>1, <2>3, <2>4, <2>5 DEF JournalOK, L!Descends, EndsAt
<1>9. CASE L!ArriveFirst
  <2>1. /\ UNCHANGED <<screen, table, filter, known, more, fetch>>
        /\ first # Null /\ first.page # Null
        /\ rows' = L!Rows(first.page) /\ cursor' = first.page.next /\ loaded' = TRUE /\ first' = Null
    BY <1>2, <1>9 DEF L!ArriveFirst, L!database, L!selection
  <2>2. PageOK(first.page) /\ first.page.for = filter /\ Continues(first.page, Null, Known)
    BY <2>1 DEF ListTypes, JournalOK
  <2>3. more = Null /\ fetch = Null
    BY <2>1 DEF JournalOK
  <2>4. Known' = Known /\ known' \subseteq L!Matching(filter)'
    BY <2>1 DEF JournalOK, Known, L!Place, L!Matching
  <2>5. L!Descends(rows') /\ EndsAt(rows', cursor') /\ Covers(rows', cursor', Known)
    BY <1>3, <2>1, <2>2, FirstPageShown
  <2>6. \A i \in DOMAIN rows' : rows'[i].for = filter
    BY <2>1, <2>2, RowsOfPage
  <2> QED
    BY <2>1, <2>3, <2>4, <2>5, <2>6 DEF JournalOK
<1>10. CASE L!LoadMore
  <2>1. /\ UNCHANGED <<screen, table, filter, known, rows, cursor, loaded, first, fetch>>
        /\ cursor # Null
        /\ more'.filter = filter /\ more'.after = cursor /\ more'.page = Null
        /\ loaded
    BY <1>10 DEF L!LoadMore, L!database, L!selection
  <2>2. Known' = Known /\ known' \subseteq L!Matching(filter)'
    BY <2>1 DEF JournalOK, Known, L!Place, L!Matching
  <2> QED
    BY <2>1, <2>2 DEF JournalOK
<1>11. CASE L!ReadMore
  <2>1. /\ UNCHANGED <<screen, table, filter, known, rows, cursor, loaded, first, fetch>>
        /\ more # Null
        /\ more'.filter = more.filter /\ more'.after = more.after
        /\ more'.page = L!Page(more.filter, more.after)
    BY <1>11 DEF L!ReadMore, L!database, L!selection, ListTypes
  <2>2. Known' = Known /\ known' \subseteq L!Matching(filter)'
    BY <2>1 DEF JournalOK, Known, L!Place, L!Matching
  <2>3. more.filter = filter /\ more.after = cursor /\ cursor # Null
    BY <2>1 DEF JournalOK
  <2>4. /\ more'.page.for = filter
        /\ Continues(more'.page, cursor, {L!Place(r) : r \in L!Matching(filter)})
    BY <2>1, <2>3, PageContinues DEF ListTypes
  <2>5. Known \subseteq {L!Place(r) : r \in L!Matching(filter)}
    BY DEF Known, JournalOK
  <2>6. Continues(more'.page, cursor, Known)
    BY <2>4, <2>5, FewerDue
  <2>7. loaded
    BY <2>1 DEF JournalOK
  <2> QED
    BY <2>1, <2>2, <2>3, <2>4, <2>6, <2>7 DEF JournalOK
<1>12. CASE L!ArriveMore
  <2>1. /\ UNCHANGED <<screen, table, filter, known, loaded, first, fetch>>
        /\ more # Null /\ more.page # Null
        /\ rows' = rows \o L!Rows(more.page) /\ cursor' = more.page.next /\ more' = Null
    BY <1>2, <1>12 DEF L!ArriveMore, L!database, L!selection
  <2>2. /\ PageOK(more.page) /\ more.page.for = filter /\ Continues(more.page, cursor, Known)
        /\ cursor # Null /\ loaded /\ rows \in Seq(ListRows)
    BY <2>1 DEF ListTypes, JournalOK
  <2>3. /\ rows # <<>> /\ cursor = L!Cursor(rows[Len(rows)].place)
        /\ L!Descends(rows) /\ Covers(rows, cursor, Known)
    BY <2>2 DEF JournalOK, EndsAt
  <2>4. L!Descends(rows') /\ EndsAt(rows', cursor') /\ Covers(rows', cursor', Known)
    BY <1>3, <2>1, <2>2, <2>3, NextPageShown
  <2>5. Known' = Known /\ known' \subseteq L!Matching(filter)'
    BY <2>1 DEF JournalOK, Known, L!Place, L!Matching
  <2>6. \A i \in DOMAIN rows' : rows'[i].for = filter
    <3>1. /\ L!Rows(more.page) \in Seq(ListRows)
          /\ \A i \in DOMAIN L!Rows(more.page) : L!Rows(more.page)[i].for = filter
      BY <2>2, RowsOfPage
    <3>2. \A i \in DOMAIN rows : rows[i].for = filter
      BY DEF JournalOK
    <3> QED
      BY <2>1, <2>2, <3>1, <3>2, RowsAppended
  <2>7. first = Null
    BY <2>2 DEF JournalOK
  <2> QED
    BY <2>1, <2>2, <2>4, <2>5, <2>6, <2>7 DEF JournalOK
<1>13. CASE L!Fail
  <2>1. /\ UNCHANGED <<screen, table, filter, rows, cursor>>
        /\ \/ first # Null /\ first' = Null /\ loaded' = TRUE /\ known' = {} /\ UNCHANGED <<more, fetch>>
           \/ more # Null /\ more' = Null /\ UNCHANGED <<loaded, known, first, fetch>>
           \/ fetch # Null
    BY <1>13 DEF L!Fail, L!database
  <2>2. CASE first # Null /\ first' = Null /\ loaded' = TRUE /\ known' = {} /\ UNCHANGED <<more, fetch>>
    <3>1. Known' = {}
      BY <2>2 DEF Known
    <3>2. more = Null
      BY <2>2 DEF JournalOK
    <3> QED
      BY <2>1, <2>2, <3>1, <3>2 DEF JournalOK, Covers
  <2>3. CASE more # Null /\ more' = Null /\ UNCHANGED <<loaded, known, first, fetch>>
    <3>1. Known' = Known /\ known' \subseteq L!Matching(filter)'
      BY <2>1, <2>3 DEF JournalOK, Known, L!Place, L!Matching
    <3> QED
      BY <2>1, <2>3, <3>1 DEF JournalOK
  <2> QED
    BY <2>1, <2>2, <2>3 DEF JournalOK
<1>14. CASE L!ArriveRequested
  BY <1>14 DEF L!ArriveRequested, JournalOK
<1>15. ASSUME NEW i \in L!Ids(rows), L!Select(i) PROVE JournalOK'
  BY <1>2, <1>15 DEF L!Select
<1> QED
  BY <1>4, <1>5, <1>6, <1>7, <1>8, <1>9, <1>10, <1>11, <1>12, <1>13, <1>14, <1>15, Zenon
     DEF L!Next

LEMMA JournalOKContiguous ==
  ASSUME ListTypes, JournalOK
  PROVE  L!JournalIsContiguous
<1> SUFFICES ASSUME screen = "journal", loaded
             PROVE  /\ L!Descends(rows)
                    /\ \A i \in DOMAIN rows : rows[i].for = filter
                    /\ \A r \in L!Missing : \E i \in DOMAIN rows :
                         L!SameMs(L!Place(r), rows[i].place) /\ L!Below(L!Place(r), rows[i].place)
  BY DEF L!JournalIsContiguous
<1>1. ASSUME NEW r \in L!Missing
      PROVE  \E i \in DOMAIN rows :
               L!SameMs(L!Place(r), rows[i].place) /\ L!Below(L!Place(r), rows[i].place)
  <2>1. /\ r \in known /\ r \notin L!Ids(rows)
        /\ cursor = Null \/ L!Below(rows[Len(rows)].place, L!Place(r))
    BY DEF L!Missing, L!Due, L!Last
  <2>2. L!Place(r) \in Known /\ L!Place(r).id = r
    BY <2>1 DEF Known, L!Place
  <2> QED
    BY <2>1, <2>2 DEF JournalOK, Covers
<1> QED
  BY <1>1 DEF JournalOK

LEMMA ListStart ==
  ASSUME L!Init
  PROVE  ListInv
<1>1. L!SelectionIsListed
  BY DEF L!Init, L!SelectionIsListed
<1>2. JournalOK
  <2> SUFFICES ASSUME screen = "journal" PROVE JournalOK
    BY DEF JournalOK
  <2>1. ~L!Selects
    BY DEF L!Selects
  <2>2. /\ rows = <<>> /\ cursor = Null /\ loaded = FALSE /\ known = {} /\ more = Null
        /\ fetch = Null /\ first.page = Null
    BY <2>1 DEF L!Init, L!Asked
  <2> QED
    BY <2>2 DEF JournalOK, L!Descends, EndsAt
<1> QED
  BY <1>1, <1>2, TypesStart DEF ListInv

\* Whatever is written, typed, changed or late, the journal shows the rows of its
\* filter in their order, each once, without a gap but within a millisecond
\* (useJournalData), and the record that the history or the knowledge base opens
\* is one of the list beside it (useHistoryData, useKnowledgeData).
THEOREM ListsCohere == L!Spec => []ListIsCoherent
<1>1. L!Init => ListInv
  BY ListStart
<1>2. ListInv /\ [L!Next]_listVars => ListInv'
  <2> SUFFICES ASSUME ListInv, [L!Next]_listVars PROVE ListInv'
    OBVIOUS
  <2>1. CASE L!Next
    BY <2>1, TypesKept, SelectionKept, JournalKept DEF ListInv
  <2>2. CASE UNCHANGED listVars
    <3>1. ListTypes'
      BY <2>2 DEF ListInv, listVars, ListTypes, TableOK, PageOK
    <3>2. L!SelectionIsListed'
      BY <2>2 DEF ListInv, listVars, L!SelectionIsListed, L!Selects
    <3>3. JournalOK'
      <4>1. UNCHANGED <<screen, filter, rows, cursor, loaded, first, more, fetch, known, table>>
        BY <2>2 DEF listVars
      <4>2. CASE screen = "journal"
        <5>1. Known' = Known /\ known' \subseteq L!Matching(filter)'
          BY <4>1, <4>2 DEF ListInv, JournalOK, Known, L!Place, L!Matching
        <5> QED
          BY <4>1, <5>1, JournalFramed DEF ListInv
      <4> QED
        BY <4>1, <4>2 DEF JournalOK
    <3> QED
      BY <3>1, <3>2, <3>3 DEF ListInv
  <2> QED
    BY <2>1, <2>2
<1>3. ListInv => ListIsCoherent
  BY JournalOKContiguous DEF ListInv, ListIsCoherent, L!ListIsCoherent
<1> QED
  BY <1>1, <1>2, <1>3, PTL DEF L!Spec, L!vars, listVars, L!database, L!selection

-----------------------------------------------------------------------------
(* The dashboard                                                           *)

Changes == incident.changes

Shaped(inc) == DOMAIN inc = {"open", "changes", "request"}

\* An answer of the server that counted the changes: all those that the screen
\* shows were there.
Counts(answer) ==
  answer \notin {Null, Waiting} =>
    /\ answer \in Nat /\ answer <= Changes
    /\ metrics # Null => metrics <= answer

\* Who asks for the metrics waits for one answer at a time, and what the screen
\* shows of them, the answer on its way and the server are in that order.
MetricsInv ==
  /\ Shaped(incident) /\ Changes \in Nat
  /\ metrics # Null => metrics \in Nat /\ metrics <= Changes
  /\ dash # Null => DOMAIN dash = {"list", "metrics"} /\ Counts(dash.metrics)
  /\ Counts(measuring)
  /\ measuring # Null => dash = Null

\* A decision of the dialogue never is the direct cancelation.
DecisionInv ==
  /\ Shaped(incident) /\ Changes \in Nat
  /\ mutation # Null =>
       /\ DOMAIN mutation = {"op", "dialogue", "counted", "answer"}
       /\ mutation.dialogue => mutation.op # "cancel directly"
  /\ late # Null /\ late.dialogue => late.op # "cancel directly"

\* What a service does to the incident.
LEMMA AfterWrites ==
  ASSUME Shaped(incident), Changes \in Nat, NEW op
  PROVE  /\ Shaped(D!After(op)) /\ D!After(op).changes \in {Changes, Changes + 1}
         /\ op \notin {"approve cancel", "cancel directly"} =>
              D!After(op).open = incident.open
<1>1. ASSUME NEW r
      PROVE  /\ Shaped(D!Changed(incident, r))
             /\ D!Changed(incident, r).changes = Changes + 1
             /\ D!Changed(incident, r).open = incident.open
             /\ Shaped(D!Canceled(incident))
             /\ D!Canceled(incident).changes = Changes + 1
  BY DEF D!Changed, D!Canceled, Changes, Shaped
<1>2. \/ D!After(op) = incident
      \/ \E r : D!After(op) = D!Changed(incident, r)
      \/ D!After(op) = D!Canceled(incident) /\ op \in {"approve cancel", "cancel directly"}
  BY DEF D!After
<1> QED
  BY <1>1, <1>2 DEF Changes

LEMMA ChangesGrow ==
  ASSUME Shaped(incident), Changes \in Nat, D!Next
  PROVE  Shaped(incident') /\ Changes' \in Nat /\ Changes' >= Changes
<1>1. CASE UNCHANGED incident
  BY <1>1 DEF Changes
<1>2. CASE D!Elsewhere
  <2>1. ASSUME NEW r
        PROVE  /\ Shaped(D!Changed(incident, r))
               /\ D!Changed(incident, r).changes = Changes + 1
               /\ Shaped(D!Canceled(incident))
               /\ D!Canceled(incident).changes = Changes + 1
    BY DEF D!Changed, D!Canceled, Changes, Shaped
  <2>2. (\E r : incident' = D!Changed(incident, r)) \/ incident' = D!Canceled(incident)
    BY <1>2 DEF D!Elsewhere
  <2> QED
    BY <2>1, <2>2 DEF Changes
<1>3. CASE D!Serve \/ D!ServeLate
  <2>1. UNCHANGED incident \/ \E op : incident' = D!After(op)
    BY <1>3 DEF D!Serve, D!ServeLate
  <2>2. ASSUME NEW op, incident' = D!After(op)
        PROVE  Shaped(incident') /\ Changes' \in {Changes, Changes + 1}
    BY <2>2, AfterWrites DEF Changes, Shaped
  <2> QED
    BY <1>1, <2>1, <2>2
<1> QED
  BY <1>1, <1>2, <1>3 DEF D!Next, D!ReadList, D!ReadCounts, D!Frame, D!Poll, D!Return, D!Leave,
     D!Arrive, D!ArriveCounts, D!Fail, D!Select, D!Back, D!Review, D!Report, D!Decide, D!Act,
     D!Recount, D!Succeed, D!Refuse, D!server

LEMMA MetricsStep ==
  ASSUME MetricsInv, D!Next
  PROVE  /\ MetricsInv'
         /\ Null \notin {metrics, metrics'} => metrics' >= metrics
<1> DEFINE Good == /\ MetricsInv'
                   /\ Null \notin {metrics, metrics'} => metrics' >= metrics
<1>0. /\ Shaped(incident') /\ Changes' \in Nat /\ Changes' >= Changes /\ Changes \in Nat
      /\ metrics # Null => metrics \in Nat
  BY ChangesGrow DEF MetricsInv
<1>1. CASE UNCHANGED <<metrics, dash, measuring>>
  BY <1>0, <1>1 DEF MetricsInv, Counts
<1>2. CASE dash' = D!NoAnswer /\ measuring' = Null /\ (UNCHANGED metrics \/ metrics' = Null)
  BY <1>0, <1>2 DEF MetricsInv, Counts, D!NoAnswer
<1>3. CASE UNCHANGED <<metrics, dash>> /\ D!RefreshMetrics
  BY <1>0, <1>3, PartsOK DEF MetricsInv, Counts, D!RefreshMetrics, D!ConstantsOK
<1>4. CASE D!ReadList
  BY <1>0, <1>4 DEF MetricsInv, Counts, D!ReadList
<1>5. CASE D!ReadCounts
  BY <1>0, <1>5, PartsOK DEF MetricsInv, Counts, D!ReadCounts, Changes, D!server, D!ConstantsOK
<1>6. CASE D!Arrive
  BY <1>0, <1>6 DEF MetricsInv, Counts, D!Arrive
<1>7. CASE D!ArriveCounts
  BY <1>0, <1>7 DEF MetricsInv, Counts, D!ArriveCounts
<1>8. CASE D!Fail
  BY <1>0, <1>1, <1>8 DEF MetricsInv, Counts, D!Fail
<1>9. CASE D!Succeed
  BY <1>1, <1>3, <1>9 DEF D!Succeed, D!Recounted
<1>10. CASE D!Recount
  BY <1>3, <1>10 DEF D!Recount
<1>11. CASE D!Poll \/ D!Return \/ D!Leave
  BY <1>2, <1>11 DEF D!Poll, D!Return, D!Leave
<1>12. CASE \/ D!Elsewhere \/ D!Serve \/ D!ServeLate \/ D!Frame \/ D!Select \/ D!Back
            \/ D!Review \/ D!Report \/ D!Decide \/ D!Act \/ D!Refuse
  BY <1>1, <1>12 DEF D!Elsewhere, D!Serve, D!ServeLate, D!Frame, D!Select, D!Back, D!Review,
     D!Report, D!Decide, D!Act, D!Refuse
<1> QED
  BY <1>4, <1>5, <1>6, <1>7, <1>8, <1>9, <1>10, <1>11, <1>12, Zenon DEF D!Next

\* The counts on the screen never go back, however many changes and disturbances
\* there are and whichever of the two requests answers first.
THEOREM MetricsForward == D!Spec => MetricsNeverGoBack
<1> DEFINE Forward == Null \notin {metrics, metrics'} => metrics' >= metrics
<1>1. D!Init => MetricsInv
  BY DEF D!Init, MetricsInv, Shaped, Counts, Changes, D!NoAnswer
<1>2. MetricsInv /\ [D!Next]_D!vars => MetricsInv' /\ [Forward]_D!vars
  <2> SUFFICES ASSUME MetricsInv, [D!Next]_D!vars PROVE MetricsInv' /\ [Forward]_D!vars
    OBVIOUS
  <2>1. CASE UNCHANGED D!vars
    <3>1. UNCHANGED <<incident, metrics, dash, measuring>>
      BY <2>1 DEF D!vars
    <3> QED
      BY <2>1, <3>1 DEF MetricsInv, Counts, Changes
  <2> QED
    BY <2>1, MetricsStep
<1> QED
  BY <1>1, <1>2, PTL DEF D!Spec, MetricsNeverGoBack, D!MetricsNeverGoBack

LEMMA DecisionKept ==
  ASSUME DecisionInv, D!Next
  PROVE  DecisionInv'
<1>0. Shaped(incident)' /\ (Changes \in Nat)'
  BY ChangesGrow DEF DecisionInv, Shaped
<1>1. CASE UNCHANGED <<mutation, late>>
  BY <1>0, <1>1 DEF DecisionInv
<1>2. ASSUME NEW answer, UNCHANGED late \/ D!GiveUp,
             \/ mutation' \in {Null, mutation}
             \/ /\ mutation # Null
                /\ mutation' \in {[mutation EXCEPT !.answer = answer],
                                  [mutation EXCEPT !.counted = TRUE]}
      PROVE  DecisionInv'
  <2>1. mutation' # Null =>
          /\ mutation # Null /\ mutation'.op = mutation.op
          /\ mutation'.dialogue = mutation.dialogue /\ DOMAIN mutation' = DOMAIN mutation
    BY <1>2 DEF DecisionInv
  <2>2. \/ late' = late
        \/ mutation # Null /\ late' = [op |-> mutation.op, dialogue |-> mutation.dialogue]
    BY <1>2 DEF D!GiveUp
  <2>3. \/ late' = late
        \/ mutation # Null /\ late'.op = mutation.op /\ late'.dialogue = mutation.dialogue
    BY <2>2
  <2> QED
    BY <1>0, <1>2, <2>1, <2>3 DEF DecisionInv
<1>3. CASE D!Serve
  BY <1>2, <1>3 DEF D!Serve
<1>4. CASE D!ServeLate
  BY <1>0, <1>4 DEF D!ServeLate, DecisionInv
<1>5. CASE D!Leave \/ D!Fail
  BY <1>2, <1>5 DEF D!Leave, D!Fail, D!server
<1>6. CASE D!Decide
  <2>1. "cancel directly" \notin D!Decision(review.type)
    BY DEF D!Decision
  <2>2. PICK op \in D!Decision(review.type) : UNCHANGED late /\
          mutation' = [op |-> op, dialogue |-> TRUE, counted |-> FALSE, answer |-> Waiting]
    BY <1>6 DEF D!Decide, D!server
  <2>3. /\ DOMAIN mutation' = {"op", "dialogue", "counted", "answer"}
        /\ mutation'.op = op
    BY <2>2
  <2>4. late' # Null /\ late'.dialogue => late'.op # "cancel directly"
    BY <2>2 DEF DecisionInv
  <2> QED
    BY <1>0, <2>1, <2>2, <2>3, <2>4 DEF DecisionInv
<1>7. CASE D!Act
  <2>1. UNCHANGED late /\ \E op :
          mutation' = [op |-> op, dialogue |-> FALSE, counted |-> FALSE, answer |-> Waiting]
    BY <1>7 DEF D!Act, D!server
  <2>2. /\ DOMAIN mutation' = {"op", "dialogue", "counted", "answer"}
        /\ ~mutation'.dialogue
    BY <2>1
  <2> QED
    BY <1>0, <2>1, <2>2 DEF DecisionInv
<1>8. CASE D!Recount \/ D!Succeed \/ D!Refuse
  BY <1>2, <1>8 DEF D!Recount, D!Succeed, D!Refuse, D!server
<1>9. CASE \/ D!Elsewhere \/ D!ReadList \/ D!ReadCounts \/ D!Frame \/ D!Poll \/ D!Return
           \/ D!Arrive \/ D!ArriveCounts \/ D!Select \/ D!Back \/ D!Review \/ D!Report
  BY <1>1, <1>9 DEF D!Elsewhere, D!ReadList, D!ReadCounts, D!Frame, D!Poll, D!Return,
     D!Arrive, D!ArriveCounts, D!Select, D!Back, D!Review, D!Report, D!server
<1> QED
  BY <1>3, <1>4, <1>5, <1>6, <1>7, <1>8, <1>9, Zenon DEF D!Next

\* A decision of the dialogue cancels the incident only for a request of
\* cancelation that is still there, however late the server executes it.
THEOREM ApprovalsRequested == D!Spec => ApprovalNeedsRequest
<1> DEFINE Requested ==
      (D!Serve /\ mutation.dialogue) \/ (D!ServeLate /\ late.dialogue)
        => (incident.open /\ ~incident'.open
              => incident.request # Null /\ incident.request.type = "cancel")
<1>1. D!Init => DecisionInv
  BY DEF D!Init, DecisionInv, Shaped, Changes
<1>2. DecisionInv => Requested
  <2> SUFFICES ASSUME DecisionInv, NEW op, op # "cancel directly", D!Accepts(op),
                      incident' = D!After(op), incident.open, ~incident'.open
               PROVE  incident.request # Null /\ incident.request.type = "cancel"
    BY DEF DecisionInv, D!Serve, D!ServeLate
  <2>1. op = "approve cancel"
    BY AfterWrites DEF DecisionInv
  <2> QED
    BY <2>1, PartsOK DEF D!Accepts, D!Needs, D!ConstantsOK
<1>3. DecisionInv /\ [D!Next]_D!vars => DecisionInv'
  <2> SUFFICES ASSUME DecisionInv, UNCHANGED D!vars PROVE DecisionInv'
    BY DecisionKept
  <2>1. UNCHANGED <<incident, mutation, late>>
    BY DEF D!vars
  <2> QED
    BY <2>1 DEF DecisionInv, Changes
<1> QED
  BY <1>1, <1>2, <1>3, PTL DEF D!Spec, ApprovalNeedsRequest, D!ApprovalNeedsRequest

-----------------------------------------------------------------------------
\* The behaviours that the run follows are behaviours of the parts, so that what
\* is proved of a part holds of them.
THEOREM ScreensFollowed == Spec => L!Spec /\ D!Spec
<1>1. Init => L!Init /\ D!Init
  BY DEF Init
<1>2. [Next]_vars => [L!Next]_(L!vars) /\ [D!Next]_(D!vars)
  BY Zenon DEF Next, vars, listVars, dashboardVars, boardVars, sessionVars, L!vars, D!vars,
     L!database, L!selection
<1> QED
  BY <1>1, <1>2, PTL DEF Spec, L!Spec, D!Spec
=============================================================================
