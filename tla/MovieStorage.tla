---------------------------- MODULE MovieStorage ----------------------------
(***************************************************************************)
(* The two stores the movie handlers write to: the PostgreSQL table        *)
(* "movies", reached through MovieRepository, and the S3 bucket of poster  *)
(* files, reached through S3Service.                                       *)
(*                                                                         *)
(* Neither store knows of the other, and no transaction spans both: every  *)
(* operation below is one round trip of one handler to one store.          *)
(***************************************************************************)
EXTENDS FiniteSets

CONSTANTS
  Requests,    \* HTTP requests to the movie endpoints. A request also names
               \* the row id (uuid_generate_v4) and the S3 key (randomUUID)
               \* that its handler creates: both are fresh, so the request
               \* that made them identifies them
  Seeds,       \* ids of the rows that are there before the first request:
               \* seeded ones and movies created earlier, with or without a file
  SeedMovies,  \* [Seeds -> title and poster of the row]
  RawTitles,   \* titles a client can send, some with white space around them
  TooLong,     \* those of more than 255 characters. No DTO has a MaxLength
  Trim,        \* String.prototype.trim on RawTitles
  Faults       \* what may go wrong: a subset of {"s3", "db", "crash"}

MovieIds == Requests \union Seeds
Keys     == Requests \union Seeds

\* What the column poster_url can hold, or a DTO can carry: "" (a movie created
\* without a file), a URL outside the bucket, the URL of the object stored under
\* a key (the keys stand for the URLs extractKeyFromUrl resolves); and what it
\* cannot hold: a URL of more than 1024 characters, a JSON null
StoredPosters == {"", "external"} \union Keys
NewPosters    == StoredPosters \union {"long"}
Posters       == NewPosters \union {"null"}

Titles == RawTitles \union {"none"}

ASSUME NamesAssumption ==
  /\ Requests \intersect Seeds = {}
  /\ MovieIds \intersect {"", "external", "long", "null", "absent", "none"} = {}
  /\ "none" \notin RawTitles
  /\ TooLong \subseteq RawTitles

ASSUME TrimAssumption ==
  /\ Trim \in [RawTitles -> RawTitles]
  /\ \A t \in RawTitles : Trim[Trim[t]] = Trim[t]

ASSUME SeedAssumption ==
  /\ SeedMovies \in [Seeds -> [title : RawTitles \ TooLong, poster : StoredPosters]]
  /\ \A m, n \in Seeds :
       SeedMovies[m].title = SeedMovies[n].title => m = n
  /\ \A m \in Seeds : Trim[SeedMovies[m].title] = SeedMovies[m].title
  /\ \A m \in Seeds :
       SeedMovies[m].poster \in Keys => SeedMovies[m].poster = m

ASSUME FaultsAssumption == Faults \subseteq {"s3", "db", "crash"}

VARIABLES
  movies,   \* the table: one row per id, "absent" until it is inserted
  bucket    \* the objects: "absent", "stored", or "deleted" again

storage == <<movies, bucket>>

RowStates    == {"absent", "live", "deleted"}
ObjectStates == {"absent", "stored", "deleted"}
Rows         == [state : RowStates, title : Titles, poster : StoredPosters]

StorageTypeOK ==
  /\ movies \in [MovieIds -> Rows]
  /\ bucket \in [Keys -> ObjectStates]

NoRow == [state |-> "absent", title |-> "none", poster |-> ""]

StorageInit ==
  /\ movies = [m \in MovieIds |->
                 IF m \in Seeds
                 THEN [state  |-> "live",
                       title  |-> SeedMovies[m].title,
                       poster |-> SeedMovies[m].poster]
                 ELSE NoRow]
  /\ bucket = [k \in Keys |->
                 IF k \in Seeds /\ SeedMovies[k].poster = k
                 THEN "stored" ELSE "absent"]

-----------------------------------------------------------------------------
(* The table.                                                              *)

Live(m) == movies[m].state = "live"

\* Mutant: a partial index, as in UNIQUE (title) WHERE deleted_at IS NULL
TitleTakenByLive(title, m) ==
  \E n \in MovieIds \ {m} : Live(n) /\ movies[n].title = title

\* The unique index on title covers the soft-deleted rows too
TitleTaken(title, m) ==
  \E n \in MovieIds \ {m} :
    movies[n].state # "absent" /\ movies[n].title = title

\* Mutant: existsWithTitle counts the soft-deleted rows as well
ExistsAnyTitle(title) ==
  \E m \in MovieIds : movies[m].state # "absent" /\ movies[m].title = title

\* existsWithTitle: repository.count leaves the soft-deleted rows out
ExistsLiveTitle(title) == \E m \in MovieIds : Live(m) /\ movies[m].title = title

\* What the database accepts as row m: the title unique and not too long, the
\* poster_url neither null nor too long. (A PATCH with a null publishingYear ends
\* like one with a title that is too long)
Accepts(m, row) ==
  /\ ~TitleTaken(row.title, m)
  /\ row.title \notin TooLong
  /\ row.poster \in StoredPosters

\* save() of a loaded entity first reads its row again (soft-deleted rows too)
\* and collects the columns that differ from the entity. The entity was live
\* when it was loaded, so a row deleted since differs in deleted_at as well
ChangedColumns(m, e) ==
  {c \in {"title", "poster", "state"} :
     \/ c = "title"  /\ movies[m].title # e.title
     \/ c = "poster" /\ movies[m].poster # e.poster
     \/ c = "state"  /\ ~Live(m)}

\* ... and then writes those columns, and no others
Merged(m, e, columns) ==
  [state  |-> IF "state"  \in columns THEN "live"   ELSE movies[m].state,
   title  |-> IF "title"  \in columns THEN e.title  ELSE movies[m].title,
   poster |-> IF "poster" \in columns THEN e.poster ELSE movies[m].poster]

StoreRow(m, row) == movies' = [movies EXCEPT ![m] = row]

\* softDelete: an unconditional UPDATE of deleted_at; the other columns stay
MarkDeleted(m) == movies' = [movies EXCEPT ![m].state = "deleted"]

-----------------------------------------------------------------------------
(* The bucket. Where a call to S3 may fail, the client cannot tell whether *)
(* it took effect.                                                         *)

PutFile(key)    == bucket' = [bucket EXCEPT ![key] = "stored"]
RemoveFile(key) == bucket' = [bucket EXCEPT ![key] = "deleted"]
=============================================================================
