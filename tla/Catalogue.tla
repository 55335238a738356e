----------------------------- MODULE Catalogue ------------------------------
(***************************************************************************)
(* What the movie endpoints promise about the table, without handlers and  *)
(* without S3: each request takes effect on the catalogue at most once, on *)
(* the one row it is about, at the instant its answer is decided; and a    *)
(* 404 or a 409 is true of the catalogue at some instant of the request.   *)
(*                                                                         *)
(* What is NOT promised is as telling. An edit reads the row once, while   *)
(* the movie is listed, and takes effect later: the columns its request    *)
(* did not name may go back to what they were then, and so may a movie     *)
(* that has been deleted since. Concurrent edits are not serialised.       *)
(***************************************************************************)
EXTENDS FiniteSets

CONSTANTS
  Requests, Seeds, SeedMovies, RawTitles, Trim,  \* as in MovieStorage
  Inputs,                                        \* as in Movies
  NoInput                                        \* the input of no request

VARIABLES
  rows,     \* the table
  asked,    \* what each request asks for
  answer,   \* how it was answered
  versions  \* what each edit under way has read of the columns it does not name

catalogue == <<rows, asked, answer, versions>>

Ids == Requests \union Seeds

NothingRead == [read |-> FALSE, title |-> "none", poster |-> "none"]

CatalogueInit ==
  /\ rows = [m \in Ids |->
               IF m \in Seeds
               THEN [state  |-> "live",
                     title  |-> SeedMovies[m].title,
                     poster |-> SeedMovies[m].poster]
               ELSE [state |-> "absent", title |-> "none", poster |-> ""]]
  /\ asked  = [r \in Requests |-> NoInput]
  /\ answer = [r \in Requests |-> "none"]
  /\ versions = [r \in Requests |-> NothingRead]

Listed(m) == rows[m].state = "live"

Free(title, m) ==
  \A n \in Ids \ {m} : rows[n].state # "absent" => rows[n].title # title

\* A write that took effect may still be reported as failed, or not at all
Answer(r, codes) ==
  /\ answer[r] = "none"
  /\ asked[r] # NoInput
  /\ \E c \in codes : answer' = [answer EXCEPT ![r] = c]
  /\ versions' = [versions EXCEPT ![r] = NothingRead]
  /\ UNCHANGED asked

Ask(r) ==
  /\ asked[r] = NoInput
  /\ \E in \in Inputs : asked' = [asked EXCEPT ![r] = in]
  /\ \/ UNCHANGED answer
     \/ answer' = [answer EXCEPT ![r] = "400"]
  /\ UNCHANGED <<rows, versions>>

NotFound(r) ==
  /\ asked[r].op \in {"update", "remove"}
  /\ ~Listed(asked[r].id)
  /\ Answer(r, {"404"})
  /\ UNCHANGED rows

Conflict(r) ==
  /\ asked[r].op \in {"create", "createWithUpload", "update"}
  /\ \E m \in Ids : Listed(m) /\ rows[m].title = asked[r].title
  /\ Answer(r, {"409"})
  /\ UNCHANGED rows

Fail(r) ==
  /\ Answer(r, {"500", "lost"})
  /\ UNCHANGED rows

Publish(r) ==
  /\ asked[r].op = "uploadPoster"
  /\ Answer(r, {"201"})
  /\ UNCHANGED rows

Add(r) ==
  /\ asked[r].op \in {"create", "createWithUpload"}
  /\ rows[r].state = "absent"
  /\ Free(Trim[asked[r].title], r)
  /\ rows' = [rows EXCEPT ![r] =
       [state  |-> "live",
        title  |-> Trim[asked[r].title],
        poster |-> IF asked[r].op = "create" THEN asked[r].url
                   ELSE IF asked[r].file = "good" THEN r ELSE ""]]
  /\ Answer(r, {"201", "500", "lost"})

\* The values a request names for an edit
TitleWanted(r)  == {Trim[t] : t \in {asked[r].title} \ {"none"}}
PosterWanted(r) == IF asked[r].file = "good" THEN {r} ELSE {asked[r].url} \ {"absent"}

Read(r) ==
  LET row == rows[asked[r].id] IN
  /\ asked[r].op = "update"
  /\ answer[r] = "none"
  /\ ~versions[r].read
  /\ Listed(asked[r].id)
  /\ versions' = [versions EXCEPT ![r] =
       [read   |-> TRUE,
        title  |-> IF TitleWanted(r)  = {} THEN row.title  ELSE "none",
        poster |-> IF PosterWanted(r) = {} THEN row.poster ELSE "none"]]
  /\ UNCHANGED <<rows, asked, answer>>

\* A column takes the value the request names, or stays; one it does not name
\* stays, or goes back to what the edit read
EditedTitle(r) ==
  ({rows[asked[r].id].title, versions[r].title} \ {"none"}) \union TitleWanted(r)

EditedPoster(r) ==
  ({rows[asked[r].id].poster, versions[r].poster} \ {"none"}) \union PosterWanted(r)

Edit(r) ==
  LET m == asked[r].id IN
  /\ asked[r].op = "update"
  /\ versions[r].read
  /\ \E t \in EditedTitle(r), p \in EditedPoster(r), s \in {"live", rows[m].state} :
       /\ Free(t, m)
       /\ rows' = [rows EXCEPT ![m] = [state |-> s, title |-> t, poster |-> p]]
  /\ Answer(r, {"200", "500", "lost"})

\* An edit that changes nothing is true of the row already
Keep(r) ==
  /\ asked[r].op = "update"
  /\ Listed(asked[r].id)
  /\ \A t \in TitleWanted(r)  : rows[asked[r].id].title = t
  /\ \A p \in PosterWanted(r) : rows[asked[r].id].poster = p
  /\ Answer(r, {"200"})
  /\ UNCHANGED rows

Drop(r) ==
  /\ asked[r].op = "remove"
  /\ rows[asked[r].id].state # "absent"
  /\ rows' = [rows EXCEPT ![asked[r].id].state = "deleted"]
  /\ Answer(r, {"200", "500", "lost"})

CatalogueNext ==
  \E r \in Requests :
    \/ Ask(r) \/ NotFound(r) \/ Conflict(r) \/ Fail(r) \/ Publish(r)
    \/ Add(r) \/ Read(r) \/ Edit(r) \/ Keep(r) \/ Drop(r)

CatalogueSpec == CatalogueInit /\ [][CatalogueNext]_catalogue
=============================================================================
