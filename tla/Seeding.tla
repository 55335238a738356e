------------------------------ MODULE Seeding ------------------------------
(***************************************************************************)
(* How the database is made and filled: the service that connects to it,   *)
(* the runs of seed.ts, and Listing over the tables they leave.            *)
(*                                                                         *)
(* seed.ts and typeorm.config.ts make a ConfigService of their own, which  *)
(* knows none of the loaders: they connect with the defaults, whatever the *)
(* environment says. "npm run migrate" is no action: MIGRATION_PATHS       *)
(* matches no file in any build, so it changes no table.                   *)
(***************************************************************************)
EXTENDS Listing

CONSTANTS
  Seeders,    \* the runs of seed.ts, one after another or at the same time
  Default,    \* the database of the default settings
  Admin,      \* the user of seedUsers
  Examples    \* the movies of seedMovies

ASSUME SeedingAssumption ==
  /\ Default \in Databases
  /\ Admin \in UserIds
  /\ Examples \subseteq MovieIds /\ Examples # {}

VARIABLES
  tables,       \* of each database: "none", as "migrated" or "synchronized"
  synchronize,  \* DB_SYNCHRONIZE of the service
  names,        \* the title or the email of each row: a movie the service makes
                \* may have that of an example, a user that of the admin
  serving,      \* a process of the service has connected
  seeder        \* the next call of each run of seed.ts

rigid == <<synchronize, names>>
boot  == <<tables, rigid, serving, seeder>>

\* An id stands for the name that is its own
Namings ==
  {f \in [Ids -> Ids] :
     /\ \A x \in Examples \union {Admin} : f[x] = x
     /\ \A m \in MovieIds : f[m] \in {m} \union Examples
     /\ \A u \in UserIds : f[u] \in {u, Admin}}

\* The databases as an operator made them, or the service with other settings.
\* Bound: one that nobody connects to has no tables
SeedingInit ==
  /\ ListingInit
  /\ tables \in [Databases -> {"none", "migrated", "synchronized"}]
  /\ \A d \in Databases \ {home, Default} : tables[d] = "none"
  /\ synchronize \in BOOLEAN
  /\ names \in Namings
  /\ serving = FALSE
  /\ seeder = [s \in Seeders |-> "idle"]

-----------------------------------------------------------------------------

Present(d, x) == rows[d][x].state # "absent"

\* The unique indices on title and email, which cover the deleted rows
Taken(d, x) == \E y \in Ids \ {x} : names[y] = names[x] /\ Present(d, y)

-----------------------------------------------------------------------------
(* The service.                                                            *)

\* TypeOrmModule connects with the settings, when a process starts
Connect ==
  /\ serving' = TRUE
  /\ tables' = IF synchronize THEN [tables EXCEPT ![home] = "synchronized"] ELSE tables
  /\ UNCHANGED <<listing, rigid, seeder>>

-----------------------------------------------------------------------------
(* seed.ts                                                                 *)

SeedDatabase == Default

Goes(s, step) == seeder' = [seeder EXCEPT ![s] = step]

\* A rejected query ends the run: bootstrap() has no catch
StartSeeding(s) ==
  /\ seeder[s] = "idle"
  /\ Goes(s, "admin")
  /\ UNCHANGED <<listing, tables, rigid, serving>>

SeedRows(ids) ==
  /\ \E t \in Instants :
       rows' = [rows EXCEPT ![SeedDatabase] =
                  [x \in Ids |-> IF x \in ids THEN [state |-> "live", created |-> t]
                                 ELSE @[x]]]
  /\ came' = (came \/ (SeedDatabase = home /\ \E x \in ids : Walking(x)))
  /\ UNCHANGED <<home, walk, stayed, left>>

IsNew(ids) == \A x \in ids : ~Present(SeedDatabase, x) /\ ~Taken(SeedDatabase, x)

\* Mutant: an admin who is there already, or cannot be stored, is passed over
SeedUsersLeniently(s) ==
  /\ seeder[s] = "admin"
  /\ Goes(s, "count")
  /\ IF tables[SeedDatabase] = "synchronized" /\ IsNew({Admin})
     THEN SeedRows({Admin}) ELSE UNCHANGED listing
  /\ UNCHANGED <<tables, rigid, serving>>

\* seedUsers: an INSERT that needs the table, with the column roles as the entity
\* declares it, and an email that is not taken
SeedUsers(s) ==
  /\ seeder[s] = "admin"
  /\ IF tables[SeedDatabase] = "synchronized" /\ IsNew({Admin})
     THEN SeedRows({Admin}) /\ Goes(s, "count")
     ELSE UNCHANGED listing /\ Goes(s, "failed")
  /\ UNCHANGED <<tables, rigid, serving>>

\* seedMovies counts the live movies ...
CountMovies(s) ==
  /\ seeder[s] = "count"
  /\ Goes(s, IF tables[SeedDatabase] = "none" THEN "failed"
             ELSE IF \E m \in MovieIds : rows[SeedDatabase][m].state = "live"
             THEN "done" ELSE "examples")
  /\ UNCHANGED <<listing, tables, rigid, serving>>

\* ... and saves both examples in one transaction, so with one created_at. Their
\* titles must not be taken, by deleted movies neither
SeedMovies(s) ==
  /\ seeder[s] = "examples"
  /\ IF IsNew(Examples)
     THEN SeedRows(Examples) /\ Goes(s, "done")
     ELSE UNCHANGED listing /\ Goes(s, "failed")
  /\ UNCHANGED <<tables, rigid, serving>>

\* The run is killed, or loses the database
SeedingFails(s) ==
  /\ seeder[s] \in {"admin", "count", "examples"}
  /\ Goes(s, "failed")
  /\ UNCHANGED <<listing, tables, rigid, serving>>

-----------------------------------------------------------------------------

Requests ==
  /\ serving
  /\ tables[home] # "none"
  /\ \/ Walk \/ ReadPage \/ CountRows \/ PageFails
     \/ \E m \in MovieIds \ Examples : ~Taken(home, m) /\ Insert(m)
     \/ \E m \in MovieIds : SoftDelete(m) \/ Revive(m)
     \/ /\ tables[home] = "synchronized"
        /\ \E u \in UserIds \ {Admin} : ~Taken(home, u) /\ Insert(u)
  /\ UNCHANGED boot

SeedingNext ==
  \/ Connect
  \/ \E s \in Seeders :
       StartSeeding(s) \/ SeedUsers(s) \/ CountMovies(s) \/ SeedMovies(s) \/ SeedingFails(s)
  \/ Requests

SeedingSpec == SeedingInit /\ [][SeedingNext]_<<listing, boot>>

-----------------------------------------------------------------------------
(* Properties.                                                             *)

\* The variables have their types, and Listing's the relations it states.
SeedingTypeOK ==
  /\ ListingTypeOK
  /\ tables \in [Databases -> {"none", "migrated", "synchronized"}]
  /\ synchronize \in BOOLEAN
  /\ names \in Namings
  /\ serving \in BOOLEAN
  /\ seeder \in [Seeders -> {"idle", "admin", "count", "examples", "done", "failed"}]

\* No database has the example movies without the admin who could manage them,
\* however runs of seed.ts overlap, fail and are repeated.
ExamplesComeWithTheAdmin ==
  \A d \in Databases :
    (\E m \in Examples : Present(d, m)) => Present(d, Admin)

\* A run that ends well has filled the default database, and no run ever fills
\* another one: a service whose settings name another has neither admin nor examples
\* of seed.ts, however often it is run with those settings and ends well.
SeedingFillsTheDefault ==
  /\ (\E s \in Seeders : seeder[s] = "done") =>
       Present(Default, Admin) /\ \E m \in MovieIds : Present(Default, m)
  /\ \A d \in Databases \ {Default}, x \in Examples \union {Admin} : ~Present(d, x)

\* The admin is there and the examples are not, and no run is between the two
HalfSeeded(d) ==
  /\ Present(d, Admin)
  /\ \A m \in Examples : ~Present(d, m)
  /\ \A s \in Seeders : seeder[s] \notin {"count", "examples"}

\* A run that stopped between the users and the movies is never made good: no
\* later run gets past the admin's email.
HalfSeededStays ==
  [][\A d \in Databases : HalfSeeded(d) => HalfSeeded(d)']_<<listing, boot>>
=============================================================================
