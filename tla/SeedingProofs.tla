--------------------------- MODULE SeedingProofs ---------------------------
(***************************************************************************)
(* Theorems of Seeding: what runs of seed.ts leave, and what a client gets *)
(* that walks through the pages of Listing while rows come and go.         *)
(***************************************************************************)
EXTENDS Seeding, FiniteSetTheorems, TLAPS

\* The client of Listing has nothing before it starts
ListingInv == ListingTypeOK /\ (stage = "idle" => got = {})

BootOK ==
  /\ tables \in [Databases -> {"none", "migrated", "synchronized"}]
  /\ synchronize \in BOOLEAN
  /\ names \in Namings
  /\ serving \in BOOLEAN
  /\ seeder \in [Seeders -> {"idle", "admin", "count", "examples", "done", "failed"}]

LEMMA LimitIsNat ==
  ASSUME NEW q \in [table : Tables, page : Nat \ {0}, limit : Limits \union {1}]
  PROVE  q.limit \in Nat
<1>1. q.limit \in Limits \union {1}
  OBVIOUS
<1>2. Limits \subseteq Nat \ {0}
  BY ListingAssumption
<1>3. \A n \in Limits : n \in Nat
  BY <1>2
<1>4. q.limit \in Limits \/ q.limit = 1
  BY <1>1
<1> QED
  BY <1>3, <1>4

LEMMA RowsOfTable ==
  ASSUME NEW q \in [table : Tables, page : Nat \ {0}, limit : Limits \union {1}]
  PROVE  RowsOf(q.table) \subseteq Ids /\ IsFiniteSet(RowsOf(q.table))
<1>1. RowsOf(q.table) \subseteq Ids
  BY DEF RowsOf, Ids
<1> QED
  BY <1>1, ListingAssumption, FS_Subset

\* A page is rows of the table, no more of them than the limit
LEMMA PageFacts ==
  ASSUME ListingTypeOK, NEW page \in PagesOf(query)
  PROVE  page \subseteq RowsOf(query.table) /\ IsFiniteSet(page)
<1>1. page \subseteq LiveRows(query.table)
  BY DEF PagesOf
<1>2. page \subseteq RowsOf(query.table)
  BY <1>1 DEF LiveRows
<1> QED
  BY <1>2, RowsOfTable, FS_Subset DEF ListingTypeOK

-----------------------------------------------------------------------------
(* Types.                                                                  *)

LEMMA ReceiveOK ==
  ASSUME ListingInv, NEW page, page \subseteq RowsOf(query.table), NEW total,
         stage \in {"page", "count"}, Receive(page, total),
         UNCHANGED <<rows, home, past>>
  PROVE  ListingInv'
<1>1. ListingTypeOK
  BY DEF ListingInv
<1>2. /\ query' \in [table : Tables, page : Nat \ {0}, limit : Limits \union {1}]
      /\ query'.table = query.table
  BY <1>1 DEF Receive, ListingTypeOK
<1>3. stage' \in {"page", "done"} /\ data' = {}
  BY DEF Receive
<1>4. /\ got' = got \union page
      /\ twice' = twice \union (got \intersect page)
  BY DEF Receive
<1>5. /\ got' \subseteq RowsOf(query'.table)
      /\ twice' \subseteq got'
      /\ data' \subseteq RowsOf(query'.table)
  BY <1>1, <1>2, <1>3, <1>4 DEF ListingTypeOK, RowsOf
<1>6. IsFiniteSet(data') /\ Cardinality(data') <= query'.limit
  <2>1. query'.limit \in Nat
    BY <1>2, LimitIsNat
  <2> QED
    BY <1>3, <2>1, FS_EmptySet
<1> QED
  BY <1>1, <1>2, <1>3, <1>5, <1>6 DEF ListingInv, ListingTypeOK, past

LEMMA WalkOK == ASSUME ListingInv, Walk PROVE ListingInv'
<1>1. ListingTypeOK /\ got = {} /\ twice = {} /\ data = {}
  BY DEF ListingInv, ListingTypeOK, Walk
<1>2. PICK table \in Tables, limit \in Limits :
        /\ query' = [table |-> table, page |-> 1, limit |-> limit]
        /\ stayed' = LiveRows(table)
  BY DEF Walk
<1>3. query' \in [table : Tables, page : Nat \ {0}, limit : Limits \union {1}]
  BY <1>2
<1>4. stayed' \subseteq Ids
  BY <1>2 DEF LiveRows, RowsOf, Ids
<1>5. /\ stage' = "page" /\ data' = {} /\ got' = {} /\ twice' = {}
      /\ UNCHANGED <<rows, home, came, left>>
  BY <1>1 DEF Walk
<1>6. IsFiniteSet(data') /\ Cardinality(data') <= query'.limit
  <2>1. query'.limit \in Nat
    BY <1>3, LimitIsNat
  <2> QED
    BY <1>5, <2>1, FS_EmptySet
<1> QED
  BY <1>1, <1>3, <1>4, <1>5, <1>6 DEF ListingInv, ListingTypeOK

LEMMA ReadPageOK == ASSUME ListingInv, ReadPage PROVE ListingInv'
<1>1. ListingTypeOK /\ stage = "page" /\ UNCHANGED <<rows, home, past>>
  BY DEF ListingInv, ReadPage
<1>2. PICK page \in PagesOf(query) :
        IF \/ Cardinality(page) = Take(query)
           \/ page = {} /\ Skip(query) > 0
        THEN stage' = "count" /\ data' = page /\ UNCHANGED <<query, got, twice>>
        ELSE Receive(page, Skip(query) + Cardinality(page))
  BY DEF ReadPage
<1>3. page \subseteq RowsOf(query.table) /\ IsFiniteSet(page)
  BY <1>1, PageFacts
<1>4. query.limit \in Nat
  BY <1>1, LimitIsNat DEF ListingTypeOK
<1>5. CASE /\ stage' = "count" /\ data' = page /\ UNCHANGED <<query, got, twice>>
           /\ Cardinality(page) = Take(query) \/ page = {}
  <2>1. Cardinality(page) <= query.limit
    BY <1>4, <1>5, FS_EmptySet DEF Take
  <2> QED
    BY <1>1, <1>3, <1>5, <2>1 DEF ListingInv, ListingTypeOK, past
<1>6. CASE Receive(page, Skip(query) + Cardinality(page))
  BY <1>1, <1>3, <1>6, ReceiveOK
<1> QED
  BY <1>2, <1>5, <1>6

LEMMA CountRowsOK == ASSUME ListingInv, CountRows PROVE ListingInv'
<1>1. data \subseteq RowsOf(query.table)
  BY DEF ListingInv, ListingTypeOK
<1> QED
  BY <1>1, ReceiveOK DEF CountRows

LEMMA PageFailsOK == ASSUME ListingInv, PageFails PROVE ListingInv'
<1>1. query.limit \in Nat
  BY LimitIsNat DEF ListingInv, ListingTypeOK
<1> QED
  BY <1>1, FS_EmptySet DEF PageFails, ListingInv, ListingTypeOK, past

\* What happens to the rows leaves the walk alone
LEMMA RowsOK ==
  ASSUME ListingInv, UNCHANGED <<home, walk>>, stayed' \subseteq stayed,
         came' \in BOOLEAN, left' \in BOOLEAN,
         rows' \in [Databases -> [Ids -> [state : {"absent", "live", "deleted"},
                                          created : Instants \union {0}]]]
  PROVE  ListingInv'
BY DEF ListingInv, ListingTypeOK, walk

LEMMA AppearsOK ==
  ASSUME ListingInv, NEW x \in Ids, NEW t \in Instants \union {0}, Appears(x, t)
  PROVE  ListingInv'
<1>1. rows' \in [Databases -> [Ids -> [state : {"absent", "live", "deleted"},
                                       created : Instants \union {0}]]]
  BY DEF Appears, ListingInv, ListingTypeOK
<1>2. /\ UNCHANGED <<home, walk, stayed, left>>
      /\ came' \in BOOLEAN
  BY DEF Appears, ListingInv, ListingTypeOK, Walking
<1> QED
  BY <1>1, <1>2, RowsOK DEF ListingInv, ListingTypeOK

LEMMA RequestsOK ==
  ASSUME ListingInv, Requests
  PROVE  ListingInv'
<1>1. ASSUME NEW x \in Ids, Insert(x) PROVE ListingInv'
  BY <1>1, AppearsOK DEF Insert
<1>2. ASSUME NEW x \in MovieIds, Revive(x) PROVE ListingInv'
  <2>1. x \in Ids /\ rows[home][x].created \in Instants \union {0}
    BY DEF Ids, ListingInv, ListingTypeOK
  <2> QED
    BY <1>2, <2>1, AppearsOK DEF Revive
<1>3. ASSUME NEW x \in MovieIds, SoftDelete(x) PROVE ListingInv'
  <2>1. rows' \in [Databases -> [Ids -> [state : {"absent", "live", "deleted"},
                                         created : Instants \union {0}]]]
    <3>1. rows' = [rows EXCEPT ![home][x].state = "deleted"] /\ x \in Ids
      BY <1>3 DEF SoftDelete, Ids
    <3>2. rows \in [Databases -> [Ids -> [state : {"absent", "live", "deleted"},
                                         created : Instants \union {0}]]]
          /\ home \in Databases
      BY DEF ListingInv, ListingTypeOK
    <3>3. [rows[home][x] EXCEPT !.state = "deleted"]
            \in [state : {"absent", "live", "deleted"}, created : Instants \union {0}]
      BY <3>1, <3>2
    <3> QED
      BY <3>1, <3>2, <3>3
  <2>2. /\ UNCHANGED <<home, walk, came>> /\ stayed' \subseteq stayed
        /\ left' \in BOOLEAN
    BY <1>3 DEF SoftDelete, ListingInv, ListingTypeOK, Walking
  <2> QED
    BY <2>1, <2>2, RowsOK DEF ListingInv, ListingTypeOK
<1>4. MovieIds \subseteq Ids /\ UserIds \subseteq Ids
  BY DEF Ids
<1> QED
  BY <1>1, <1>2, <1>3, <1>4, WalkOK, ReadPageOK, CountRowsOK, PageFailsOK
  DEF Requests

LEMMA SeedRowsOK ==
  ASSUME ListingInv, NEW ids \in SUBSET Ids, SeedRows(ids)
  PROVE  ListingInv'
<1>1. PICK t \in Instants :
        rows' = [rows EXCEPT ![SeedDatabase] =
                   [x \in Ids |-> IF x \in ids THEN [state |-> "live", created |-> t]
                                  ELSE @[x]]]
  BY DEF SeedRows
<1>2. rows' \in [Databases -> [Ids -> [state : {"absent", "live", "deleted"},
                                       created : Instants \union {0}]]]
  BY <1>1, SeedingAssumption DEF SeedDatabase, ListingInv, ListingTypeOK
<1>3. /\ UNCHANGED <<home, walk, stayed, left>>
      /\ came' \in BOOLEAN
  BY DEF SeedRows, ListingInv, ListingTypeOK, Walking
<1> QED
  BY <1>2, <1>3, RowsOK DEF ListingInv, ListingTypeOK

LEMMA TypesInit == SeedingInit => ListingInv /\ BootOK
<1> SUFFICES ASSUME SeedingInit PROVE ListingInv /\ BootOK
  OBVIOUS
<1>1. BootOK
  BY DEF SeedingInit, BootOK
<1>2. NoRow \in [state : {"absent", "live", "deleted"}, created : Instants \union {0}]
  BY DEF NoRow
<1>3. query \in [table : Tables, page : Nat \ {0}, limit : Limits \union {1}]
  BY DEF SeedingInit, ListingInit, Tables
<1>4. IsFiniteSet(data) /\ Cardinality(data) <= query.limit
  BY FS_EmptySet DEF SeedingInit, ListingInit
<1>5. ListingInv
  BY <1>2, <1>3, <1>4 DEF SeedingInit, ListingInit, ListingInv, ListingTypeOK
<1> QED
  BY <1>1, <1>5

LEMMA TypesNext ==
  ListingInv /\ BootOK /\ [SeedingNext]_<<listing, boot>> => ListingInv' /\ BootOK'
<1> SUFFICES ASSUME ListingInv, BootOK, [SeedingNext]_<<listing, boot>>
             PROVE  ListingInv' /\ BootOK'
  OBVIOUS
<1>1. ASSUME UNCHANGED listing PROVE ListingInv'
  BY <1>1 DEF listing, walk, past, ListingInv, ListingTypeOK
<1>2. ASSUME UNCHANGED boot PROVE BootOK'
  BY <1>2 DEF boot, rigid, BootOK
<1>3. CASE Connect
  BY <1>1, <1>3 DEF Connect, rigid, BootOK
<1>4. ASSUME NEW s \in Seeders, NEW step, Goes(s, step),
             step \in {"idle", "admin", "count", "examples", "done", "failed"},
             UNCHANGED <<tables, rigid, serving>>
      PROVE  BootOK'
  BY <1>4 DEF Goes, rigid, BootOK
<1>5. ASSUME NEW s \in Seeders, StartSeeding(s) \/ CountMovies(s) \/ SeedingFails(s)
      PROVE  ListingInv' /\ BootOK'
  BY <1>1, <1>4, <1>5 DEF StartSeeding, CountMovies, SeedingFails
<1>6. ASSUME NEW s \in Seeders, SeedUsers(s) \/ SeedMovies(s)
      PROVE  ListingInv' /\ BootOK'
  <2>1. {Admin} \in SUBSET Ids /\ Examples \in SUBSET Ids
    BY SeedingAssumption DEF Ids
  <2> QED
    BY <1>1, <1>4, <1>6, <2>1, SeedRowsOK DEF SeedUsers, SeedMovies
<1>7. CASE Requests
  BY <1>2, <1>7, RequestsOK DEF Requests
<1> QED
  BY <1>1, <1>2, <1>3, <1>5, <1>6, <1>7 DEF SeedingNext

\* The variables have their types, a page that waits for its total is not longer
\* than the limit, and the client gets rows of the table it asks for.
THEOREM SeedingTypeCorrect == SeedingSpec => []SeedingTypeOK
<1>1. ListingInv /\ BootOK => SeedingTypeOK
  BY DEF ListingInv, BootOK, SeedingTypeOK
<1> QED
  BY <1>1, TypesInit, TypesNext, PTL DEF SeedingSpec

-----------------------------------------------------------------------------
(* Who puts a row into which database.                                     *)

\* A row that appears in this step was seeded or asked for
Arrival(d, x) ==
  \/ d = home /\ x \in (MovieIds \ Examples) \union (UserIds \ {Admin})
  \/ d = Default /\ x = Admin
  \/ d = Default /\ x \in Examples /\ \E s \in Seeders : seeder[s] = "examples"

LEMMA SeedRowsFacts ==
  ASSUME ListingInv, NEW ids \in SUBSET Ids, SeedRows(ids),
         NEW d \in Databases, NEW x \in Ids
  PROVE  Present(d, x)' <=> Present(d, x) \/ (d = Default /\ x \in ids)
BY SeedingAssumption
DEF SeedRows, SeedDatabase, Present, ListingInv, ListingTypeOK

LEMMA AppearsFacts ==
  ASSUME ListingInv, NEW y \in Ids, NEW t, Appears(y, t),
         NEW d \in Databases, NEW x \in Ids
  PROVE  Present(d, x)' <=> Present(d, x) \/ (d = home /\ x = y)
BY DEF Appears, Present, ListingInv, ListingTypeOK

LEMMA SoftDeleteFacts ==
  ASSUME ListingInv, NEW y \in MovieIds, SoftDelete(y),
         NEW d \in Databases, NEW x \in Ids
  PROVE  Present(d, x)' <=> Present(d, x)
<1>1. y \in Ids /\ home \in Databases
  BY DEF Ids, ListingInv, ListingTypeOK
<1>2. rows' = [rows EXCEPT ![home][y].state = "deleted"] /\ rows[home][y].state = "live"
  BY DEF SoftDelete
<1>3. rows \in [Databases -> [Ids -> [state : {"absent", "live", "deleted"},
                                     created : Instants \union {0}]]]
  BY DEF ListingInv, ListingTypeOK
<1>4. CASE d = home /\ x = y
  <2>1. rows'[d][x].state = "deleted"
    BY <1>1, <1>2, <1>3, <1>4
  <2> QED
    BY <1>2, <1>4, <2>1 DEF Present
<1>5. CASE ~(d = home /\ x = y)
  BY <1>1, <1>2, <1>3, <1>5 DEF Present
<1> QED
  BY <1>4, <1>5

\* No row is taken away, and one that appears has a reason
LEMMA RowsFacts ==
  ASSUME ListingInv, [SeedingNext]_<<listing, boot>>,
         NEW d \in Databases, NEW x \in Ids
  PROVE  /\ Present(d, x) => Present(d, x)'
         /\ Present(d, x)' => Present(d, x) \/ Arrival(d, x)
<1>1. ASSUME UNCHANGED rows PROVE Present(d, x)' <=> Present(d, x)
  BY <1>1 DEF Present
<1>2. MovieIds \subseteq Ids /\ UserIds \subseteq Ids
  BY DEF Ids
<1>3. CASE Requests
  <2>1. CASE Walk \/ ReadPage \/ CountRows \/ PageFails
    BY <1>1, <2>1 DEF Walk, ReadPage, CountRows, PageFails
  <2>2. ASSUME NEW y \in (MovieIds \ Examples) \union (UserIds \ {Admin}), Insert(y)
        PROVE  Present(d, x)' <=> Present(d, x) \/ (d = home /\ x = y)
    BY <1>2, <2>2, AppearsFacts DEF Insert
  <2>3. ASSUME NEW y \in MovieIds, Revive(y)
        PROVE  Present(d, x)' <=> Present(d, x)
    <3>1. rows[home][y].state = "deleted" /\ Appears(y, rows[home][y].created)
      BY <2>3 DEF Revive
    <3> QED
      BY <1>2, <3>1, AppearsFacts DEF Present
  <2>4. ASSUME NEW y \in MovieIds, SoftDelete(y)
        PROVE  Present(d, x)' <=> Present(d, x)
    BY <2>4, SoftDeleteFacts
  <2> QED
    BY <1>3, <2>1, <2>2, <2>3, <2>4 DEF Requests, Arrival
<1>4. ASSUME NEW s \in Seeders, SeedUsers(s)
      PROVE  Present(d, x)' <=> Present(d, x) \/ (d = Default /\ x = Admin /\ SeedRows({Admin}))
  <2>1. {Admin} \in SUBSET Ids
    BY <1>2, SeedingAssumption
  <2> QED
    BY <1>1, <1>4, <2>1, SeedRowsFacts DEF SeedUsers, listing
<1>5. ASSUME NEW s \in Seeders, SeedMovies(s)
      PROVE  /\ seeder[s] = "examples"
             /\ Present(d, x)' <=>
                   Present(d, x) \/ (d = Default /\ x \in Examples /\ SeedRows(Examples))
  <2>1. Examples \in SUBSET Ids
    BY <1>2, SeedingAssumption
  <2> QED
    BY <1>1, <1>5, <2>1, SeedRowsFacts DEF SeedMovies, listing
<1>6. CASE \/ Connect \/ UNCHANGED <<listing, boot>>
           \/ \E s \in Seeders : StartSeeding(s) \/ CountMovies(s) \/ SeedingFails(s)
  BY <1>1, <1>6 DEF Connect, StartSeeding, CountMovies, SeedingFails, listing
<1> QED
  BY <1>3, <1>4, <1>5, <1>6 DEF SeedingNext, Arrival

-----------------------------------------------------------------------------
(* What the runs of seed.ts have done when they have got so far.           *)

SeededInv ==
  /\ \A d \in Databases : Present(d, Admin) => d = Default
  /\ \A d \in Databases : \A m \in Examples :
       Present(d, m) => d = Default /\ Present(Default, Admin)
  /\ \A s \in Seeders :
       seeder[s] \in {"count", "examples", "done"} => Present(Default, Admin)
  /\ \A s \in Seeders :
       seeder[s] = "done" => \E m \in MovieIds : Present(Default, m)

LEMMA SeededInit == SeedingInit => SeededInv
<1> SUFFICES ASSUME SeedingInit PROVE SeededInv
  OBVIOUS
<1>1. ASSUME NEW d \in Databases, NEW x \in Ids PROVE ~Present(d, x)
  BY DEF SeedingInit, ListingInit, Present, NoRow
<1>2. Admin \in Ids /\ Examples \subseteq Ids
  BY SeedingAssumption DEF Ids
<1>3. \A s \in Seeders : seeder[s] = "idle"
  BY DEF SeedingInit
<1> QED
  BY <1>1, <1>2, <1>3 DEF SeededInv

\* The calls of one run, in their order
LEMMA SeederFacts ==
  ASSUME ListingInv, BootOK, [SeedingNext]_<<listing, boot>>, NEW s \in Seeders
  PROVE  /\ seeder'[s] = "count" => seeder[s] = "count" \/ SeedUsers(s)
         /\ seeder'[s] = "examples" => seeder[s] = "examples" \/ CountMovies(s)
         /\ seeder'[s] = "done" => \/ seeder[s] = "done" \/ CountMovies(s) \/ SeedMovies(s)
<1>1. ASSUME NEW r \in Seeders, r # s,
             \/ StartSeeding(r) \/ SeedUsers(r) \/ CountMovies(r) \/ SeedMovies(r)
             \/ SeedingFails(r)
      PROVE  seeder'[s] = seeder[s]
  BY <1>1 DEF BootOK, StartSeeding, SeedUsers, CountMovies, SeedMovies, SeedingFails, Goes
<1>2. Connect \/ Requests \/ UNCHANGED <<listing, boot>> => seeder'[s] = seeder[s]
  BY DEF Connect, Requests, boot
<1>3. StartSeeding(s) => seeder'[s] = "admin"
  BY DEF BootOK, StartSeeding, Goes
<1>4. SeedUsers(s) => seeder'[s] \in {"count", "failed"}
  BY DEF BootOK, SeedUsers, Goes
<1>5. CountMovies(s) => seeder'[s] \in {"examples", "done", "failed"}
  BY DEF BootOK, CountMovies, Goes
<1>6. SeedMovies(s) => seeder'[s] \in {"done", "failed"}
  BY DEF BootOK, SeedMovies, Goes
<1>7. SeedingFails(s) => seeder'[s] = "failed"
  BY DEF BootOK, SeedingFails, Goes
<1> QED
  BY <1>1, <1>2, <1>3, <1>4, <1>5, <1>6, <1>7 DEF SeedingNext

LEMMA SeededNext ==
  ListingInv /\ BootOK /\ SeededInv /\ [SeedingNext]_<<listing, boot>> => SeededInv'
<1> SUFFICES ASSUME ListingInv, BootOK, SeededInv, [SeedingNext]_<<listing, boot>>
             PROVE  SeededInv'
  OBVIOUS
<1>1. /\ Default \in Databases /\ Admin \in Ids /\ Admin \in UserIds
      /\ Examples \subseteq MovieIds /\ Examples # {}
      /\ MovieIds \subseteq Ids /\ MovieIds \intersect UserIds = {}
  BY SeedingAssumption, ListingAssumption DEF Ids
<1>2. Present(Default, Admin) => Present(Default, Admin)'
  BY <1>1, RowsFacts
<1>3. ASSUME NEW d \in Databases, Present(d, Admin)' PROVE d = Default
  BY <1>1, <1>3, RowsFacts DEF Arrival, SeededInv
<1>4. ASSUME NEW d \in Databases, NEW m \in Examples, Present(d, m)'
      PROVE  d = Default /\ Present(Default, Admin)'
  BY <1>1, <1>2, <1>4, RowsFacts DEF Arrival, SeededInv
<1>5. ASSUME NEW s \in Seeders, seeder'[s] \in {"count", "examples", "done"}
      PROVE  Present(Default, Admin)'
  <2>1. CASE seeder[s] \in {"count", "examples", "done"}
    BY <1>2, <2>1 DEF SeededInv
  <2>2. CASE seeder[s] \notin {"count", "examples", "done"}
    <3>1. SeedUsers(s)
      BY <1>5, <2>2, SeederFacts DEF CountMovies, SeedMovies
    <3>2. SeedRows({Admin})
      BY <1>5, <3>1 DEF SeedUsers, Goes, BootOK
    <3> QED
      BY <1>1, <3>2, SeedRowsFacts
  <2> QED
    BY <2>1, <2>2
<1>6. ASSUME NEW s \in Seeders, seeder'[s] = "done"
      PROVE  \E m \in MovieIds : Present(Default, m)'
  <2>1. CASE seeder[s] = "done"
    <3>1. PICK m \in MovieIds : Present(Default, m)
      BY <2>1 DEF SeededInv
    <3> QED
      BY <1>1, <3>1, RowsFacts
  <2>2. CASE CountMovies(s)
    <3>1. PICK m \in MovieIds : rows[Default][m].state = "live"
      BY <1>6, <2>2 DEF CountMovies, Goes, BootOK, SeedDatabase
    <3>2. Present(Default, m)
      BY <3>1 DEF Present
    <3> QED
      BY <1>1, <3>2, RowsFacts
  <2>3. CASE SeedMovies(s)
    <3>1. SeedRows(Examples)
      BY <1>6, <2>3 DEF SeedMovies, Goes, BootOK
    <3>2. PICK m \in Examples : TRUE
      BY <1>1
    <3> QED
      BY <1>1, <3>1, <3>2, SeedRowsFacts
  <2> QED
    BY <1>6, <2>1, <2>2, <2>3, SeederFacts
<1>7. (\A d \in Databases : Present(d, Admin) => d = Default)'
  BY <1>3
<1>8. (\A d \in Databases : \A m \in Examples :
        Present(d, m) => d = Default /\ Present(Default, Admin))'
  BY <1>4
<1>9. (\A s \in Seeders :
        seeder[s] \in {"count", "examples", "done"} => Present(Default, Admin))'
  BY <1>5
<1>10. (\A s \in Seeders :
         seeder[s] = "done" => \E m \in MovieIds : Present(Default, m))'
  BY <1>6
<1> QED
  BY <1>7, <1>8, <1>9, <1>10 DEF SeededInv

LEMMA SeededAlways == SeedingSpec => [](ListingInv /\ BootOK /\ SeededInv)
BY TypesInit, TypesNext, SeededInit, SeededNext, PTL DEF SeedingSpec

\* No database ever has an example movie without the admin, however the runs of
\* seed.ts overlap, fail and are repeated.
THEOREM ExamplesNeedTheAdmin == SeedingSpec => []ExamplesComeWithTheAdmin
<1>1. SeededInv => ExamplesComeWithTheAdmin
  BY DEF SeededInv, ExamplesComeWithTheAdmin
<1> QED
  BY <1>1, SeededAlways, PTL

\* A run of seed.ts that ends well has filled the default database, and no run fills
\* another one.
THEOREM SeedingIsForTheDefault == SeedingSpec => []SeedingFillsTheDefault
<1>1. SeededInv => SeedingFillsTheDefault
  BY DEF SeededInv, SeedingFillsTheDefault
<1> QED
  BY <1>1, SeededAlways, PTL

\* A database with the admin and without the examples, and no run of seed.ts
\* between the two, stays as it is.
THEOREM HalfSeededForGood == SeedingSpec => HalfSeededStays
<1>1. ListingInv /\ BootOK /\ SeededInv /\ [SeedingNext]_<<listing, boot>>
        => [\A d \in Databases : HalfSeeded(d) => HalfSeeded(d)']_<<listing, boot>>
  <2> SUFFICES ASSUME ListingInv, BootOK, SeededInv, [SeedingNext]_<<listing, boot>>,
                      NEW d \in Databases, HalfSeeded(d)
               PROVE  HalfSeeded(d)'
    OBVIOUS
  <2>1. Admin \in Ids /\ Examples \subseteq MovieIds /\ MovieIds \subseteq Ids
        /\ Admin \in UserIds /\ MovieIds \intersect UserIds = {}
    BY SeedingAssumption, ListingAssumption DEF Ids
  <2>2. Present(d, Admin)' /\ d = Default
    BY <2>1, RowsFacts DEF HalfSeeded, SeededInv
  <2>3. \A m \in Examples : ~Present(d, m)'
    BY <2>1, RowsFacts DEF HalfSeeded, Arrival
  <2>4. ASSUME NEW s \in Seeders PROVE seeder'[s] \notin {"count", "examples"}
    <3>1. ~IsNew({Admin})
      BY <2>2 DEF HalfSeeded, IsNew, Present, SeedDatabase
    <3>2. ~SeedUsers(s) \/ seeder'[s] = "failed"
      BY <3>1 DEF SeedUsers, Goes, BootOK
    <3>3. ~CountMovies(s)
      BY DEF HalfSeeded, CountMovies
    <3> QED
      BY <3>2, <3>3, SeederFacts DEF HalfSeeded
  <2> QED
    BY <2>2, <2>3, <2>4 DEF HalfSeeded
<1> QED
  BY <1>1, SeededAlways, PTL DEF SeedingSpec, HalfSeededStays

-----------------------------------------------------------------------------
(* The walk through the pages. A row whose place is fixed has a position:  *)
(* the number of live rows before it. What the client has is told by it.   *)

Ahead(x)    == {y \in LiveRows(query.table) : Before(y, x)}
Position(x) == Cardinality(Ahead(x))

There(x) == rows[home][x].state # "absent"

LEMMA QueryFacts ==
  ASSUME ListingTypeOK
  PROVE  /\ Skip(query) \in Nat /\ query.page \in Nat \ {0} /\ query.limit \in Nat
         /\ query.page * query.limit = Skip(query) + query.limit
<1>1. query.limit \in Nat /\ query.page \in Nat \ {0}
  BY LimitIsNat DEF ListingTypeOK
<1>2. \A p, l \in Int : (p - 1) * l = p * l - l
  OBVIOUS
<1>3. \A p, l \in Nat : p * l \in Nat
  OBVIOUS
<1> QED
  BY <1>1, <1>2, <1>3 DEF Skip

LEMMA CreatedFacts ==
  ASSUME ListingTypeOK, NEW x \in Ids
  PROVE  rows[home][x].created \in Nat
<1>1. /\ rows \in [Databases -> [Ids -> [state : {"absent", "live", "deleted"},
                                        created : Instants \union {0}]]]
      /\ home \in Databases
  BY DEF ListingTypeOK
<1>2. rows[home][x] \in [state : {"absent", "live", "deleted"}, created : Instants \union {0}]
  BY <1>1
<1>3. rows[home][x].created \in Instants \union {0}
  BY <1>2
<1>4. Instants \union {0} \subseteq Nat
  BY ListingAssumption
<1> QED
  BY <1>3, <1>4

LEMMA LiveFacts ==
  ASSUME ListingTypeOK
  PROVE  /\ IsFiniteSet(LiveRows(query.table)) /\ Cardinality(LiveRows(query.table)) \in Nat
         /\ \A S \in SUBSET LiveRows(query.table) :
              /\ IsFiniteSet(S) /\ Cardinality(S) \in Nat
              /\ Cardinality(S) <= Cardinality(LiveRows(query.table))
<1>1. LiveRows(query.table) \subseteq RowsOf(query.table) /\ IsFiniteSet(RowsOf(query.table))
  BY RowsOfTable DEF ListingTypeOK, LiveRows
<1>2. IsFiniteSet(LiveRows(query.table))
  BY <1>1, FS_Subset
<1> QED
  BY <1>2, FS_Subset, FS_CardinalityType

\* A row is not before itself.
LEMMA LessThan ==
  ASSUME NEW S, IsFiniteSet(S), NEW T \in SUBSET S, NEW x \in S, x \notin T
  PROVE  Cardinality(T) < Cardinality(S)
<1>1. Cardinality(T) <= Cardinality(S) /\ T # S
  BY FS_Subset
<1>2. Cardinality(T) # Cardinality(S)
  BY <1>1, FS_Subset
<1>3. Cardinality(T) \in Nat /\ Cardinality(S) \in Nat
  BY FS_Subset, FS_CardinalityType
<1> QED
  BY <1>1, <1>2, <1>3

\* A page has the rows of its positions.
LEMMA PagePositions ==
  ASSUME ListingTypeOK, NEW page \in PagesOf(query),
         NEW x \in LiveRows(query.table), ~Tied(x)
  PROVE  /\ Position(x) \in Nat /\ Position(x) < Cardinality(LiveRows(query.table))
         /\ x \in page => /\ Skip(query) <= Position(x)
                          /\ Position(x) < query.page * query.limit
         /\ x \notin page /\ Skip(query) <= Position(x) =>
              /\ query.page * query.limit <= Position(x)
              /\ Cardinality(page) = Take(query)
<1> DEFINE live == LiveRows(query.table)
           s == Skip(query)
           l == query.limit
           n == Cardinality(live)
           skip == AtMost(s, n)
           p == Position(x)
<1>1. /\ s \in Nat /\ l \in Nat /\ query.page * query.limit = s + l
      /\ n \in Nat /\ IsFiniteSet(live)
  BY QueryFacts, LiveFacts
<1>2. PICK first \in SUBSET (live \ page) :
        /\ Cardinality(first) = skip
        /\ \A y \in first, z \in live \ first : ~Before(z, y)
        /\ \A y \in page, z \in live \ (first \union page) : ~Before(z, y)
  BY DEF PagesOf
<1>3. page \subseteq live /\ Cardinality(page) = AtMost(l, n - skip)
  BY DEF PagesOf, Take
<1>4. first \subseteq live /\ first \intersect page = {}
  BY <1>2
<1>5. /\ IsFiniteSet(first) /\ IsFiniteSet(page) /\ IsFiniteSet(first \union page)
      /\ Cardinality(first) \in Nat /\ Cardinality(page) \in Nat
      /\ Cardinality(first \union page) = Cardinality(first) + Cardinality(page)
  <2>1. /\ IsFiniteSet(first) /\ IsFiniteSet(page)
        /\ Cardinality(first) \in Nat /\ Cardinality(page) \in Nat
    BY <1>3, <1>4, LiveFacts
  <2>2. /\ IsFiniteSet(first \union page)
        /\ Cardinality(first \union page)
             = Cardinality(first) + Cardinality(page) - Cardinality(first \intersect page)
    BY <2>1, FS_Union
  <2>3. Cardinality(first \intersect page) = 0
    BY <1>4, FS_EmptySet
  <2>4. \A a, b, c \in Int : c = 0 => a + b - c = a + b
    OBVIOUS
  <2> QED
    BY <2>1, <2>2, <2>3, <2>4
<1>6. Ahead(x) \subseteq live /\ x \notin Ahead(x) /\ IsFiniteSet(Ahead(x)) /\ p \in Nat
  <2>1. ~Before(x, x)
    <3>1. x \in MovieIds => rows[home][x].created \in Nat
      BY CreatedFacts DEF Ids
    <3> QED
      BY <3>1 DEF Before
  <2> QED
    BY <2>1, LiveFacts DEF Ahead, Position
<1>7. p < n
  BY <1>1, <1>6, LessThan DEF Position
<1>8. \A y \in live \ {x} : Before(x, y) \/ Before(y, x)
  BY DEF Tied, LiveRows
<1>9. CASE x \in first
  <2>1. Ahead(x) \subseteq first
    BY <1>2, <1>9 DEF Ahead
  <2>2. p < Cardinality(first)
    BY <1>5, <1>6, <1>9, <2>1, LessThan DEF Position
  <2> QED
    BY <1>1, <1>2, <1>4, <1>6, <1>7, <1>9, <2>2 DEF AtMost
<1>10. CASE x \in page
  <2>1. first \subseteq Ahead(x)
    BY <1>2, <1>3, <1>4, <1>8, <1>10 DEF Ahead
  <2>2. Ahead(x) \subseteq first \union page
    BY <1>2, <1>10 DEF Ahead
  <2>3. Cardinality(first) <= p
    BY <1>6, <2>1, FS_Subset DEF Position
  <2>4. p < Cardinality(first) + Cardinality(page)
    BY <1>5, <1>6, <1>10, <2>2, LessThan DEF Position
  <2> QED
    BY <1>1, <1>2, <1>3, <1>5, <1>6, <1>7, <1>10, <2>3, <2>4 DEF AtMost
<1>11. CASE x \notin first \union page
  <2>1. first \union page \subseteq Ahead(x)
    BY <1>2, <1>3, <1>4, <1>8, <1>11 DEF Ahead
  <2>2. Cardinality(first) + Cardinality(page) <= p
    BY <1>5, <1>6, <2>1, FS_Subset DEF Position
  <2> QED
    BY <1>1, <1>2, <1>3, <1>5, <1>6, <1>7, <1>11, <2>2 DEF AtMost, Take
<1> QED
  BY <1>9, <1>10, <1>11

\* What a step of the other requests may do to the rows: none is forgotten, none
\* gets another created_at, and the history tells of the ones that come and go
RowStep ==
  /\ UNCHANGED <<home, walk>>
  /\ \A x \in Ids : There(x) => There(x)' /\ rows'[home][x].created = rows[home][x].created
  /\ stayed' \subseteq stayed
  /\ (came => came') /\ (left => left')
  /\ \A x \in Ids :
       /\ rows[home][x].state = "live" /\ rows'[home][x].state # "live" =>
            x \notin stayed' /\ (Walking(x) => left')
       /\ rows[home][x].state # "live" /\ rows'[home][x].state = "live" =>
            (Walking(x) => came')

LEMMA AppearsRow ==
  ASSUME ListingTypeOK, NEW x \in Ids, NEW t, Appears(x, t),
         ~There(x) \/ (rows[home][x].state = "deleted" /\ t = rows[home][x].created)
  PROVE  RowStep
<1>1. /\ rows' = [rows EXCEPT ![home][x] = [state |-> "live", created |-> t]]
      /\ came' = (came \/ Walking(x))
      /\ UNCHANGED <<home, walk, stayed, left>>
  BY DEF Appears
<1>2. \A y \in Ids : rows'[home][y] = IF y = x THEN [state |-> "live", created |-> t]
                                     ELSE rows[home][y]
  BY <1>1 DEF ListingTypeOK
<1>3. (came => came') /\ (left => left') /\ (Walking(x) => came')
  BY <1>1
<1>4. UNCHANGED <<home, walk>> /\ stayed' = stayed
  BY <1>1
<1>5. ASSUME NEW y \in Ids
      PROVE  /\ There(y) => There(y)' /\ rows'[home][y].created = rows[home][y].created
             /\ rows[home][y].state = "live" => rows'[home][y].state = "live"
             /\ rows[home][y].state # "live" /\ rows'[home][y].state = "live" => y = x
  BY <1>2, <1>4 DEF There
<1> QED
  BY <1>3, <1>4, <1>5 DEF RowStep

LEMMA SoftDeleteRow ==
  ASSUME ListingTypeOK, NEW x \in MovieIds, SoftDelete(x)
  PROVE  RowStep
<1>1. /\ rows' = [rows EXCEPT ![home][x].state = "deleted"]
      /\ rows[home][x].state = "live" /\ x \in Ids
      /\ left' = (left \/ Walking(x)) /\ stayed' = stayed \ {x}
      /\ UNCHANGED <<home, walk, came>>
  BY DEF SoftDelete, Ids
<1>2. rows \in [Databases -> [Ids -> [state : {"absent", "live", "deleted"},
                                     created : Instants \union {0}]]]
      /\ home \in Databases
  BY DEF ListingTypeOK
<1>3. \A y \in Ids \ {x} : rows'[home][y] = rows[home][y]
  BY <1>1, <1>2
<1>4. rows'[home][x] = [rows[home][x] EXCEPT !.state = "deleted"]
  BY <1>1, <1>2
<1>5. rows'[home][x].state = "deleted" /\ rows'[home][x].created = rows[home][x].created
  BY <1>1, <1>2, <1>4
<1> QED
  BY <1>1, <1>3, <1>5 DEF RowStep, There

LEMMA SeedRowsRow ==
  ASSUME ListingTypeOK, NEW ids \in SUBSET Ids, SeedRows(ids), IsNew(ids)
  PROVE  RowStep
<1>1. PICK t \in Instants :
        rows' = [rows EXCEPT ![SeedDatabase] =
                   [x \in Ids |-> IF x \in ids THEN [state |-> "live", created |-> t]
                                  ELSE @[x]]]
  BY DEF SeedRows
<1>2. /\ came' = (came \/ (SeedDatabase = home /\ \E x \in ids : Walking(x)))
      /\ UNCHANGED <<home, walk, stayed, left>>
  BY DEF SeedRows
<1>3. \A y \in Ids :
        rows'[home][y] = IF SeedDatabase = home /\ y \in ids
                         THEN [state |-> "live", created |-> t] ELSE rows[home][y]
  BY <1>1, SeedingAssumption DEF ListingTypeOK, SeedDatabase
<1>4. \A y \in ids : SeedDatabase = home => ~There(y)
  BY DEF IsNew, Present, There
<1> QED
  BY <1>2, <1>3, <1>4 DEF RowStep, There

\* Whatever happens is a step of the walk or a step of the rows.
LEMMA WalkOrRows ==
  ASSUME ListingTypeOK, [SeedingNext]_<<listing, boot>>
  PROVE  RowStep \/ Walk \/ ReadPage \/ CountRows \/ PageFails
<1>1. ASSUME UNCHANGED listing PROVE RowStep
  BY <1>1 DEF RowStep, There, listing, past
<1>2. MovieIds \subseteq Ids /\ UserIds \subseteq Ids /\ {Admin} \in SUBSET Ids
      /\ Examples \in SUBSET Ids
  BY SeedingAssumption DEF Ids
<1>3. ASSUME NEW s \in Seeders, SeedUsers(s) \/ SeedMovies(s) PROVE RowStep
  <2>1. \A ids \in SUBSET Ids : SeedRows(ids) /\ IsNew(ids) => RowStep
    BY SeedRowsRow
  <2>2. \/ UNCHANGED listing
        \/ SeedRows({Admin}) /\ IsNew({Admin})
        \/ SeedRows(Examples) /\ IsNew(Examples)
    BY <1>3 DEF SeedUsers, SeedMovies
  <2>3. SeedRows({Admin}) /\ IsNew({Admin}) => RowStep
    BY <1>2, <2>1
  <2>4. SeedRows(Examples) /\ IsNew(Examples) => RowStep
    BY <1>2, <2>1
  <2> QED
    BY <1>1, <2>2, <2>3, <2>4
<1>4. ASSUME NEW x \in Ids, Insert(x) PROVE RowStep
  BY <1>4, AppearsRow DEF Insert, There
<1>5. ASSUME NEW x \in MovieIds, Revive(x) PROVE RowStep
  BY <1>2, <1>5, AppearsRow DEF Revive
<1> QED
  BY <1>1, <1>2, <1>3, <1>4, <1>5, SoftDeleteRow
  DEF SeedingNext, Connect, StartSeeding, CountMovies, SeedingFails, Requests, boot

\* While the rows change, a row that has no fixed place does not get one; rows that
\* appear move the others down, rows that go move them up.
LEMMA TiedStays ==
  ASSUME ListingTypeOK, RowStep, NEW x \in RowsOf(query.table), There(x), Tied(x)
  PROVE  Tied(x)'
<1>1. RowsOf(query.table) \subseteq Ids /\ query' = query /\ home' = home
  BY RowsOfTable DEF RowStep, walk, ListingTypeOK
<1>2. PICK y \in RowsOf(query.table) \ {x} : There(y) /\ ~Before(x, y) /\ ~Before(y, x)
  BY DEF Tied, There
<1>3. There(y)' /\ ~Before(x, y)' /\ ~Before(y, x)'
  BY <1>1, <1>2 DEF RowStep, Before
<1> QED
  BY <1>1, <1>2, <1>3 DEF Tied, There, RowsOf

LEMMA AheadMoves ==
  ASSUME ListingInv, RowStep, stage \in {"page", "count"},
         NEW x \in RowsOf(query.table), There(x)
  PROVE  /\ Position(x) \in Nat /\ Position(x)' \in Nat
         /\ ~left' => Position(x) <= Position(x)'
         /\ ~came' => Position(x)' <= Position(x)
<1>1. RowsOf(query.table) \subseteq Ids /\ query' = query /\ home' = home /\ ListingTypeOK
  BY RowsOfTable DEF RowStep, walk, ListingTypeOK, ListingInv
<1>2. Ahead(x) \in SUBSET LiveRows(query.table)
      /\ Ahead(x)' \in SUBSET LiveRows(query.table)'
  BY DEF Ahead
<1>3. IsFiniteSet(Ahead(x)) /\ IsFiniteSet(Ahead(x)')
  <2>1. LiveRows(query.table)' \subseteq RowsOf(query.table)
    BY <1>1 DEF LiveRows, RowsOf
  <2>2. IsFiniteSet(RowsOf(query.table))
    BY <1>1, RowsOfTable DEF ListingTypeOK
  <2>3. IsFiniteSet(LiveRows(query.table)')
    BY <2>1, <2>2, FS_Subset
  <2> QED
    BY <1>1, <1>2, <2>3, LiveFacts, FS_Subset
<1>4. \A y \in Ids : There(y) => (Before(y, x)' <=> Before(y, x))
  BY <1>1 DEF RowStep, Before
<1>5. \A y \in RowsOf(query.table) : Walking(y)
  BY DEF Walking
<1>6. \A y \in RowsOf(query.table) :
        /\ ~left' /\ rows[home][y].state = "live" => rows'[home][y].state = "live"
        /\ ~came' /\ rows'[home][y].state = "live" => rows[home][y].state = "live"
  BY <1>1, <1>5 DEF RowStep
<1>7. ~left' => Ahead(x) \subseteq Ahead(x)'
  BY <1>1, <1>4, <1>6 DEF Ahead, LiveRows, There, RowsOf
<1>8. ~came' => Ahead(x)' \subseteq Ahead(x)
  BY <1>1, <1>4, <1>6 DEF Ahead, LiveRows, There, RowsOf
<1>9. ~left' => Cardinality(Ahead(x)) <= Cardinality(Ahead(x)')
  BY <1>3, <1>7, FS_Subset
<1>10. ~came' => Cardinality(Ahead(x)') <= Cardinality(Ahead(x))
  BY <1>3, <1>8, FS_Subset
<1>11. Cardinality(Ahead(x)) \in Nat /\ Cardinality(Ahead(x)') \in Nat
  BY <1>3, FS_CardinalityType
<1> QED
  BY <1>9, <1>10, <1>11 DEF Position

\* What is missing is still to come: as long as no row was removed, a row that was
\* there all the time and has a fixed place is not before the page that is next
MissInv ==
  /\ stage # "idle" => stayed \subseteq LiveRows(query.table)
  /\ ~left =>
       \A x \in stayed :
         ~Tied(x) =>
           /\ stage \in {"page", "count"} => x \in got \/ Skip(query) <= Position(x)
           /\ stage = "count" =>
                x \in got \union data \/ query.page * query.limit <= Position(x)
           /\ stage = "done" => x \in got

\* What the client has is over: as long as no row appeared, what has a fixed place
\* is before the page that is next
RepeatInv ==
  /\ \A x \in got \union data : There(x)
  /\ ~came =>
       /\ \A x \in twice \union (got \intersect data) : Tied(x)
       /\ \A x \in LiveRows(query.table) :
            ~Tied(x) =>
              /\ stage \in {"page", "count"} /\ x \in got => Position(x) < Skip(query)
              /\ x \in data => Position(x) < query.page * query.limit

LEMMA RowsMiss ==
  ASSUME ListingInv, MissInv, RowStep
  PROVE  MissInv'
<1>1. /\ RowsOf(query.table) \subseteq Ids /\ UNCHANGED <<home, stage, query, data, got>>
      /\ (~left' => ~left) /\ stayed' \subseteq stayed
      /\ ListingTypeOK
  BY RowsOfTable DEF RowStep, walk, ListingTypeOK, ListingInv
<1>2. stage # "idle" => stayed' \subseteq LiveRows(query.table)'
  BY <1>1 DEF MissInv, RowStep, LiveRows, RowsOf
<1>3. ASSUME NEW x \in stayed', ~left', ~Tied(x)', stage # "idle"
      PROVE  /\ stage \in {"page", "count"} => x \in got \/ Skip(query) <= Position(x)'
             /\ stage = "count" =>
                  x \in got \union data \/ query.page * query.limit <= Position(x)'
             /\ stage = "done" => x \in got
  <2>1. x \in stayed /\ x \in RowsOf(query.table) /\ There(x) /\ x \in LiveRows(query.table)
    BY <1>1, <1>3 DEF MissInv, LiveRows, There
  <2>2. ~Tied(x)
    BY <1>1, <1>3, <2>1, TiedStays
  <2>3. /\ stage \in {"page", "count"} => x \in got \/ Skip(query) <= Position(x)
        /\ stage = "count" =>
             x \in got \union data \/ query.page * query.limit <= Position(x)
        /\ stage = "done" => x \in got
    BY <1>1, <1>3, <2>1, <2>2 DEF MissInv
  <2>4. Skip(query) \in Nat /\ query.page * query.limit \in Nat
    BY <1>1, QueryFacts
  <2>5. stage \in {"page", "count"} =>
          /\ Position(x) \in Nat /\ Position(x)' \in Nat
          /\ Position(x) <= Position(x)'
    BY <1>3, <2>1, AheadMoves
  <2> QED
    BY <2>3, <2>4, <2>5
<1> QED
  BY <1>1, <1>2, <1>3 DEF MissInv, Skip

LEMMA RowsRepeat ==
  ASSUME ListingInv, RepeatInv, RowStep
  PROVE  RepeatInv'
<1>1. /\ RowsOf(query.table) \subseteq Ids
      /\ UNCHANGED <<home, stage, query, data, got, twice>>
      /\ (~came' => ~came) /\ ListingTypeOK
      /\ got \union data \subseteq RowsOf(query.table) /\ twice \subseteq got
      /\ stage = "count" \/ data = {}
  BY RowsOfTable DEF RowStep, walk, ListingTypeOK, ListingInv
<1>2. ASSUME NEW x \in got \union data PROVE There(x)'
  BY <1>1, <1>2 DEF RepeatInv, RowStep
<1>3. ASSUME NEW x \in twice \union (got \intersect data), ~came' PROVE Tied(x)'
  BY <1>1, <1>3, TiedStays DEF RepeatInv
<1>4. ASSUME NEW x \in RowsOf(query.table), rows'[home][x].state = "live", ~came', ~Tied(x)'
      PROVE  /\ stage \in {"page", "count"} /\ x \in got => Position(x)' < Skip(query)
             /\ x \in data => Position(x)' < query.page * query.limit
  <2> SUFFICES ASSUME stage \in {"page", "count"}, x \in got \union data
               PROVE  /\ x \in got => Position(x)' < Skip(query)
                      /\ x \in data => Position(x)' < query.page * query.limit
    BY <1>1
  <2>1. Walking(x) /\ There(x) /\ x \in Ids
    BY <1>1 DEF Walking, RepeatInv
  <2>2. x \in LiveRows(query.table)
    BY <1>1, <1>4, <2>1 DEF RowStep, LiveRows
  <2>3. ~Tied(x)
    BY <1>1, <1>4, <2>1, TiedStays
  <2>4. /\ x \in got => Position(x) < Skip(query)
        /\ x \in data => Position(x) < query.page * query.limit
    BY <1>1, <1>4, <2>2, <2>3 DEF RepeatInv
  <2>5. Skip(query) \in Nat /\ query.page * query.limit \in Nat
    BY <1>1, QueryFacts
  <2>6. /\ Position(x) \in Nat /\ Position(x)' \in Nat
        /\ Position(x)' <= Position(x)
    BY <1>4, <2>1, AheadMoves
  <2> QED
    BY <2>4, <2>5, <2>6
<1>5. ~came' => \A x \in LiveRows(query.table)' :
        ~Tied(x)' =>
          /\ stage \in {"page", "count"} /\ x \in got => Position(x)' < Skip(query)
          /\ x \in data => Position(x)' < query.page * query.limit
  BY <1>1, <1>4 DEF LiveRows, RowsOf
<1> QED
  BY <1>1, <1>2, <1>3, <1>5 DEF RepeatInv, Skip

\* The walk itself leaves the rows where they are.
LEMMA WalkStands ==
  ASSUME UNCHANGED <<rows, home>>, query'.table = query.table
  PROVE  /\ LiveRows(query.table)' = LiveRows(query.table)
         /\ \A x : /\ There(x)' = There(x) /\ Tied(x)' = Tied(x)
                   /\ Position(x)' = Position(x)
BY DEF LiveRows, RowsOf, There, Tied, Before, Position, Ahead

\* The client has the page whose rows are said to come next
LEMMA ReceiveWalks ==
  ASSUME ListingInv, MissInv, RepeatInv, stage \in {"page", "count"},
         NEW page \in SUBSET RowsOf(query.table), NEW total,
         Receive(page, total), UNCHANGED <<rows, home, past>>,
         \A x \in page : There(x),
         \A x \in stayed : ~left /\ ~Tied(x) /\ x \notin got \union page =>
           query.page * query.limit <= Position(x) /\ ~(query.page * query.limit >= total),
         ~came => \A x \in page \intersect got : Tied(x),
         ~came => \A x \in page \intersect LiveRows(query.table) :
                    ~Tied(x) => Position(x) < query.page * query.limit
  PROVE  MissInv' /\ RepeatInv'
<1>1. ListingTypeOK /\ twice \subseteq got
  BY DEF ListingInv, ListingTypeOK
<1>2. /\ twice' = twice \union (got \intersect page) /\ got' = got \union page /\ data' = {}
      /\ \/ query.page * query.limit >= total /\ stage' = "done" /\ query' = query
         \/ /\ ~(query.page * query.limit >= total) /\ stage' = "page"
            /\ query'.table = query.table /\ Skip(query') = query.page * query.limit
      /\ query'.table = query.table
      /\ UNCHANGED <<stayed, came, left>>
  <2>1. query.page \in Nat /\ query.limit \in Nat
    BY <1>1, QueryFacts
  <2>2. query' = [query EXCEPT !.page = @ + 1] =>
          query'.table = query.table /\ Skip(query') = query.page * query.limit
    <3>1. query' = [query EXCEPT !.page = @ + 1] =>
            /\ query'.table = query.table /\ query'.page = query.page + 1
            /\ query'.limit = query.limit
      BY <1>1 DEF ListingTypeOK
    <3>2. \A n \in Nat : (n + 1) - 1 = n
      OBVIOUS
    <3> QED
      BY <2>1, <3>1, <3>2 DEF Skip
  <2> QED
    BY <2>2 DEF Receive, past
<1>3. /\ LiveRows(query.table)' = LiveRows(query.table)
      /\ \A x : /\ There(x)' = There(x) /\ Tied(x)' = Tied(x)
                /\ Position(x)' = Position(x)
  BY <1>2, WalkStands
<1>4. MissInv'
  BY <1>2, <1>3 DEF MissInv
<1>5. RepeatInv'
  <2>1. \A x \in got' \union data' : There(x)'
    BY <1>2, <1>3 DEF RepeatInv
  <2>2. ~came => \A x \in twice' \union (got' \intersect data') : Tied(x)'
    BY <1>2, <1>3 DEF RepeatInv
  <2>3. ASSUME ~came, NEW x \in LiveRows(query.table), ~Tied(x), x \in got'
        PROVE  Position(x) < query.page * query.limit
    <3>1. CASE x \in page
      BY <2>3, <3>1
    <3>2. CASE x \in got
      <4>1. Position(x) < Skip(query)
        BY <2>3, <3>2 DEF RepeatInv
      <4>2. Position(x) \in Nat
        BY <1>1, LiveFacts DEF Position, Ahead
      <4> QED
        BY <1>1, <4>1, <4>2, QueryFacts
    <3> QED
      BY <1>2, <2>3, <3>1, <3>2
  <2> QED
    BY <1>2, <1>3, <2>1, <2>2, <2>3 DEF RepeatInv
<1> QED
  BY <1>4, <1>5

LEMMA WalkWalks ==
  ASSUME ListingInv, MissInv, RepeatInv, Walk
  PROVE  MissInv' /\ RepeatInv'
<1>1. /\ ListingInv' /\ ListingTypeOK'
      /\ got = {} /\ data = {} /\ twice = {} /\ stage' = "page"
      /\ UNCHANGED <<rows, home, data, got, twice, came, left>>
  BY WalkOK DEF ListingInv, ListingTypeOK, Walk
<1>2. PICK table \in Tables, limit \in Limits :
        /\ query' = [table |-> table, page |-> 1, limit |-> limit]
        /\ stayed' = LiveRows(table)
  BY DEF Walk
<1>3. Skip(query') = 0
  <2>1. limit \in Nat
    BY ListingAssumption
  <2>2. query'.page = 1 /\ query'.limit = limit
    BY <1>2
  <2>3. \A n \in Nat : (1 - 1) * n = 0
    OBVIOUS
  <2> QED
    BY <2>1, <2>2, <2>3 DEF Skip
<1>4. LiveRows(query.table)' = stayed'
  BY <1>1, <1>2 DEF LiveRows, RowsOf
<1>5. ASSUME NEW x PROVE Position(x)' >= 0
  <2>1. Ahead(x)' \subseteq RowsOf(query'.table) /\ IsFiniteSet(RowsOf(query'.table))
    BY <1>1, RowsOfTable DEF Ahead, LiveRows, RowsOf, ListingTypeOK
  <2>2. IsFiniteSet(Ahead(x)')
    BY <2>1, FS_Subset
  <2>3. Cardinality(Ahead(x)') \in Nat
    BY <2>2, FS_CardinalityType
  <2> QED
    BY <2>3 DEF Position
<1>6. MissInv'
  BY <1>1, <1>3, <1>4, <1>5 DEF MissInv
<1>7. RepeatInv'
  BY <1>1 DEF RepeatInv
<1> QED
  BY <1>6, <1>7

LEMMA ReadPageWalks ==
  ASSUME ListingInv, MissInv, RepeatInv, ReadPage
  PROVE  MissInv' /\ RepeatInv'
<1>1. /\ ListingTypeOK /\ stage = "page" /\ data = {} /\ twice \subseteq got
      /\ UNCHANGED <<rows, home, past>>
  BY DEF ListingInv, ListingTypeOK, ReadPage
<1>2. PICK page \in PagesOf(query) :
        IF \/ Cardinality(page) = Take(query)
           \/ page = {} /\ Skip(query) > 0
        THEN stage' = "count" /\ data' = page /\ UNCHANGED <<query, got, twice>>
        ELSE Receive(page, Skip(query) + Cardinality(page))
  BY DEF ReadPage
<1>3. page \subseteq LiveRows(query.table) /\ page \in SUBSET RowsOf(query.table)
      /\ \A x \in page : There(x)
  BY DEF PagesOf, LiveRows, There
<1>4. Skip(query) \in Nat /\ query.page * query.limit = Skip(query) + query.limit
      /\ query.limit \in Nat /\ Cardinality(page) \in Nat
  BY <1>1, <1>3, QueryFacts, LiveFacts
\* of the rows that stayed
<1>5. ASSUME NEW x \in stayed, ~left, ~Tied(x), x \notin got \union page
      PROVE  /\ query.page * query.limit <= Position(x)
             /\ Cardinality(page) = Take(query)
             /\ Skip(query) <= Position(x)
  <2>1. x \in LiveRows(query.table) /\ Skip(query) <= Position(x)
    BY <1>1, <1>5 DEF MissInv
  <2> QED
    BY <1>1, <1>5, <2>1, PagePositions
\* of the rows of the page
<1>6. ASSUME NEW x \in page, ~Tied(x)
      PROVE  Skip(query) <= Position(x) /\ Position(x) < query.page * query.limit
             /\ Position(x) \in Nat
  BY <1>1, <1>3, <1>6, PagePositions
<1>7. ASSUME ~came, NEW x \in page \intersect got PROVE Tied(x)
  <2> SUFFICES ASSUME ~Tied(x) PROVE FALSE
    OBVIOUS
  <2>1. Position(x) < Skip(query)
    BY <1>1, <1>3, <1>7 DEF RepeatInv
  <2> QED
    BY <1>4, <1>6, <2>1
<1>8. CASE stage' = "count" /\ data' = page /\ UNCHANGED <<query, got, twice>>
  <2>1. /\ LiveRows(query.table)' = LiveRows(query.table)
        /\ \A x : /\ There(x)' = There(x) /\ Tied(x)' = Tied(x)
                  /\ Position(x)' = Position(x)
    BY <1>1, <1>8, WalkStands
  <2>2. UNCHANGED <<stayed, came, left, got, twice, query>>
    BY <1>1, <1>8 DEF past
  <2>3. MissInv'
    BY <1>1, <1>5, <1>8, <2>1, <2>2 DEF MissInv
  <2>4. RepeatInv'
    BY <1>1, <1>3, <1>6, <1>7, <1>8, <2>1, <2>2 DEF RepeatInv
  <2> QED
    BY <2>3, <2>4
<1>9. CASE /\ Receive(page, Skip(query) + Cardinality(page))
           /\ Cardinality(page) # Take(query)
  <2>1. \A x \in stayed : ~left /\ ~Tied(x) => x \in got \union page
    BY <1>5, <1>9
  <2> QED
    BY <1>1, <1>3, <1>6, <1>7, <1>9, <2>1, ReceiveWalks
<1> QED
  BY <1>2, <1>8, <1>9

LEMMA CountRowsWalks ==
  ASSUME ListingInv, MissInv, RepeatInv, CountRows
  PROVE  MissInv' /\ RepeatInv'
<1> DEFINE n == Cardinality(LiveRows(query.table))
<1>1. /\ ListingTypeOK /\ stage = "count" /\ data \in SUBSET RowsOf(query.table)
      /\ UNCHANGED <<rows, home, past>> /\ Receive(data, n)
  BY DEF ListingInv, ListingTypeOK, CountRows
<1>2. query.page * query.limit \in Nat /\ n \in Nat
  BY <1>1, QueryFacts, LiveFacts
<1>3. ASSUME NEW x \in stayed, ~left, ~Tied(x), x \notin got \union data
      PROVE  query.page * query.limit <= Position(x) /\ ~(query.page * query.limit >= n)
  <2>1. x \in LiveRows(query.table) /\ query.page * query.limit <= Position(x)
    BY <1>1, <1>3 DEF MissInv
  <2>2. Position(x) \in Nat /\ Position(x) < n
    <3>1. /\ IsFiniteSet(LiveRows(query.table)) /\ Ahead(x) \in SUBSET LiveRows(query.table)
      BY <1>1, LiveFacts DEF Ahead
    <3>2. x \notin Ahead(x)
      <4>1. x \in MovieIds => rows[home][x].created \in Nat
        BY <1>1, CreatedFacts DEF Ids
      <4> QED
        BY <4>1 DEF Ahead, Before
    <3> QED
      BY <1>1, <2>1, <3>1, <3>2, LessThan, LiveFacts DEF Position
  <2> QED
    BY <1>2, <2>1, <2>2
<1>4. ~came => \A x \in data \intersect got : Tied(x)
  BY DEF RepeatInv
<1>5. ~came => \A x \in data \intersect LiveRows(query.table) :
                 ~Tied(x) => Position(x) < query.page * query.limit
  BY DEF RepeatInv
<1>6. \A x \in data : There(x)
  BY DEF RepeatInv
<1> QED
  BY <1>1, <1>3, <1>4, <1>5, <1>6, ReceiveWalks

LEMMA PageFailsWalks ==
  ASSUME ListingInv, MissInv, RepeatInv, PageFails
  PROVE  MissInv' /\ RepeatInv'
<1>1. /\ stage \in {"page", "count"} /\ stage' = "page" /\ data' = {}
      /\ UNCHANGED <<rows, home, query, got, twice, stayed, came, left>>
  BY DEF PageFails, past
<1>2. /\ LiveRows(query.table)' = LiveRows(query.table)
      /\ \A x : /\ There(x)' = There(x) /\ Tied(x)' = Tied(x)
                /\ Position(x)' = Position(x)
  BY <1>1, WalkStands
<1>3. MissInv'
  BY <1>1, <1>2 DEF MissInv
<1>4. RepeatInv'
  BY <1>1, <1>2 DEF RepeatInv
<1> QED
  BY <1>3, <1>4

LEMMA WalksInit == SeedingInit => MissInv /\ RepeatInv
BY DEF SeedingInit, ListingInit, MissInv, RepeatInv

LEMMA WalksNext ==
  ListingInv /\ MissInv /\ RepeatInv /\ [SeedingNext]_<<listing, boot>>
    => MissInv' /\ RepeatInv'
BY WalkOrRows, RowsMiss, RowsRepeat, WalkWalks, ReadPageWalks, CountRowsWalks,
   PageFailsWalks
DEF ListingInv

LEMMA WalksAlways == SeedingSpec => [](ListingInv /\ MissInv /\ RepeatInv)
<1>1. SeedingSpec => []ListingInv
  BY SeededAlways, PTL
<1> QED
  BY <1>1, WalksInit, WalksNext, PTL DEF SeedingSpec

\* A client that has walked through all the pages has every row with a fixed place
\* that was there all the time, unless a row was removed meanwhile: pages that were
\* read again after a failure, and totals of another instant than the page, included.
THEOREM WalksMissWhatMovedUp == SeedingSpec => []WalkMissesOnlyAfterRemoval
<1>1. MissInv => WalkMissesOnlyAfterRemoval
  BY DEF MissInv, WalkMissesOnlyAfterRemoval
<1> QED
  BY <1>1, WalksAlways, PTL

\* ... and it has no row with a fixed place twice, unless a row appeared meanwhile.
THEOREM WalksRepeatWhatMovedDown == SeedingSpec => []WalkRepeatsOnlyAfterArrival
<1>1. RepeatInv => WalkRepeatsOnlyAfterArrival
  BY DEF RepeatInv, WalkRepeatsOnlyAfterArrival
<1> QED
  BY <1>1, WalksAlways, PTL
=============================================================================
