------------------------------ MODULE Listing ------------------------------
(***************************************************************************)
(* GET /movies and GET /users: MovieRepository.paginate and                *)
(* UserRepository.paginate, and a client that walks through the pages      *)
(* until it has got as many rows as the last answer counted.               *)
(*                                                                         *)
(* A page is one query, its total another one, and nothing keeps the table *)
(* as it is from one page to the next.                                     *)
(***************************************************************************)
EXTENDS Integers, FiniteSets

CONSTANTS
  Databases,  \* the databases there are: one for the service, maybe others
  MovieIds,   \* rows of "movies"
  UserIds,    \* rows of "users"
  Instants,   \* bound: the values of created_at, DEFAULT now()
  Limits      \* bound: the page sizes asked for (PaginationQueryDto: 1..100)

Ids    == MovieIds \union UserIds
Tables == {"movies", "users"}

ASSUME ListingAssumption ==
  /\ MovieIds \intersect UserIds = {}
  /\ IsFiniteSet(Ids)
  /\ Instants \subseteq Nat /\ Instants # {}
  /\ Limits \subseteq Nat \ {0}

VARIABLES
  rows,    \* the rows of each database
  home,    \* the database of the service
  stage,   \* the walk: idle, a query it waits for, or done
  query,   \* the table, page and limit it asks for
  data,    \* the page that was read and not yet answered
  got,     \* the rows the client has
  twice,   \* history: the rows it got more than once
  stayed,  \* history: the rows that were live from the start of the walk
  came,    \* history: a row appeared during the walk
  left     \* history: a row disappeared during the walk

walk == <<stage, query, data, got, twice>>
past == <<stayed, came, left>>
listing == <<rows, home, walk, past>>

NoRow == [state |-> "absent", created |-> 0]

RowsOf(table) == IF table = "movies" THEN MovieIds ELSE UserIds

\* withDeleted: false
LiveRows(table) == {x \in RowsOf(table) : rows[home][x].state = "live"}

ListingInit ==
  /\ rows = [d \in Databases |-> [x \in Ids |-> NoRow]]
  /\ home \in Databases
  /\ stage = "idle"
  /\ query = [table |-> "movies", page |-> 1, limit |-> 1]
  /\ data = {} /\ got = {} /\ twice = {} /\ stayed = {}
  /\ came = FALSE /\ left = FALSE

-----------------------------------------------------------------------------
(* The page query.                                                         *)

\* Mutants: pages counted from zero; one row more, to see if there is a next page
SkipFromZero(q) == q.page * q.limit

TakeOneMore(q) == q.limit + 1

Skip(q) == (q.page - 1) * q.limit

Take(q) == q.limit

\* order: { createdAt: 'DESC' } for movies, no order at all for users. Rows that
\* are not ordered come as the database likes, and every time anew
Before(x, y) ==
  x \in MovieIds /\ y \in MovieIds /\ rows[home][x].created > rows[home][y].created

AtMost(n, m) == IF n < m THEN n ELSE m

\* The results of findAndCount's first query: limit rows after skip others in
\* some order that Before allows
PagesOf(q) ==
  LET live == LiveRows(q.table)
      skip == AtMost(Skip(q), Cardinality(live))
  IN
  {page \in SUBSET live :
     /\ Cardinality(page) = AtMost(Take(q), Cardinality(live) - skip)
     /\ \E first \in SUBSET (live \ page) :
          /\ Cardinality(first) = skip
          /\ \A x \in first, y \in live \ first : ~Before(y, x)
          /\ \A x \in page, y \in live \ (first \union page) : ~Before(y, x)}

\* The client asks for the first page
Walk ==
  /\ stage = "idle"
  /\ \E table \in Tables, limit \in Limits :
       /\ query' = [table |-> table, page |-> 1, limit |-> limit]
       /\ stayed' = LiveRows(table)
  /\ stage' = "page"
  /\ UNCHANGED <<rows, home, data, got, twice, came, left>>

\* The answer: the client has these rows, and asks for the next page unless the
\* total says there is none
Receive(page, total) ==
  /\ twice' = twice \union (got \intersect page)
  /\ got' = got \union page
  /\ data' = {}
  /\ IF query.page * query.limit >= total
     THEN stage' = "done" /\ UNCHANGED query
     ELSE stage' = "page" /\ query' = [query EXCEPT !.page = @ + 1]

\* TypeORM counts only if the page does not tell the total by itself: when it is
\* full, or empty and not the first
ReadPage ==
  /\ stage = "page"
  /\ \E page \in PagesOf(query) :
       IF \/ Cardinality(page) = Take(query)
          \/ page = {} /\ Skip(query) > 0
       THEN stage' = "count" /\ data' = page /\ UNCHANGED <<query, got, twice>>
       ELSE Receive(page, Skip(query) + Cardinality(page))
  /\ UNCHANGED <<rows, home, past>>

CountRows ==
  /\ stage = "count"
  /\ Receive(data, Cardinality(LiveRows(query.table)))
  /\ UNCHANGED <<rows, home, past>>

\* A query fails or the process dies: the client asks for the page again
PageFails ==
  /\ stage \in {"page", "count"}
  /\ stage' = "page"
  /\ data' = {}
  /\ UNCHANGED <<rows, home, query, got, twice, past>>

-----------------------------------------------------------------------------
(* What the other requests do to the two tables: see Movies and Sessions.  *)

Walking(x) == stage \in {"page", "count"} /\ x \in RowsOf(query.table)

Appears(x, t) ==
  /\ rows' = [rows EXCEPT ![home][x] = [state |-> "live", created |-> t]]
  /\ came' = (came \/ Walking(x))
  /\ UNCHANGED <<home, walk, stayed, left>>

\* created_at is the time the transaction began, so a row may appear after one
\* that is younger. A PATCH revives a deleted movie with its created_at
Insert(x) == rows[home][x].state = "absent" /\ \E t \in Instants : Appears(x, t)

Revive(x) ==
  /\ x \in MovieIds
  /\ rows[home][x].state = "deleted"
  /\ Appears(x, rows[home][x].created)

SoftDelete(x) ==
  /\ x \in MovieIds
  /\ rows[home][x].state = "live"
  /\ rows' = [rows EXCEPT ![home][x].state = "deleted"]
  /\ left' = (left \/ Walking(x))
  /\ stayed' = stayed \ {x}
  /\ UNCHANGED <<home, walk, came>>

-----------------------------------------------------------------------------
(* Properties.                                                             *)

\* The variables have their types; what waits for its total is one page at most,
\* and the client gets rows of the table it asks for.
ListingTypeOK ==
  /\ rows \in [Databases -> [Ids -> [state : {"absent", "live", "deleted"},
                                     created : Instants \union {0}]]]
  /\ home \in Databases
  /\ stage \in {"idle", "page", "count", "done"}
  /\ query \in [table : Tables, page : Nat \ {0}, limit : Limits \union {1}]
  /\ data \subseteq RowsOf(query.table)
  /\ IsFiniteSet(data) /\ Cardinality(data) <= query.limit
  /\ stage = "count" \/ data = {}
  /\ got \subseteq RowsOf(query.table) /\ twice \subseteq got
  /\ stayed \subseteq Ids
  /\ came \in BOOLEAN /\ left \in BOOLEAN

\* A row whose place among the others is not fixed: every one of two users, and
\* movies created at the same time, as the two examples of seedMovies are
Tied(x) ==
  \E y \in RowsOf(query.table) \ {x} :
    /\ rows[home][y].state # "absent"
    /\ ~Before(x, y) /\ ~Before(y, x)

\* A client that has walked through all the pages has every row that was there
\* all the time, unless some other row was removed meanwhile and moved it over a
\* page boundary, or its place was never fixed.
WalkMissesOnlyAfterRemoval ==
  stage = "done" /\ ~left => \A x \in stayed : x \in got \/ Tied(x)

\* ... and has no row twice unless one appeared, or its place was never fixed.
WalkRepeatsOnlyAfterArrival == ~came => \A x \in twice : Tied(x)
=============================================================================
