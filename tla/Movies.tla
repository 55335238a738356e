------------------------------- MODULE Movies -------------------------------
(***************************************************************************)
(* The movie endpoints: MoviesController and MoviesService.                *)
(*                                                                         *)
(* Every write endpoint is an asynchronous handler. Between two awaits it  *)
(* runs alone; at an await every other handler, of this process or of the  *)
(* other replica, may run. An action below is one awaited call together    *)
(* with the code up to the next await, and pc says which call is next:     *)
(*                                                                         *)
(*   create            exists -> insert                                    *)
(*   createWithUpload  exists -> (put) -> insert                           *)
(*   uploadPoster      put                                                 *)
(*   update            find -> (exists) -> (delete) -> (put) -> load       *)
(*                                                          -> (write)     *)
(*   remove            find -> (delete) -> soft                            *)
(*                                                                         *)
(* publishingYear is left out: no step depends on its value, and a null in *)
(* a PATCH is refused by the table like a title that is too long.          *)
(***************************************************************************)
EXTENDS MovieStorage, Naturals

CONSTANTS
  Inputs,       \* the inputs the clients may send
  Concurrency,  \* bound: the number of handlers in flight at a time
  AttachOnce    \* the clients attach an uploaded poster to one movie

FileKinds == {"none", "good", "bad"}

\* The body and the path of a request. A title or a file left out is "none", a
\* posterUrl left out is "absent". A "bad" file is one FileValidationPipe refuses
InputRecords ==
  [op : {"create"}, id : {"none"}, title : RawTitles,
     url : NewPosters, file : {"none"}]
  \union
  [op : {"createWithUpload"}, id : {"none"}, title : RawTitles,
     url : {"absent"}, file : FileKinds]
  \union
  [op : {"uploadPoster"}, id : {"none"}, title : {"none"},
     url : {"absent"}, file : FileKinds]
  \union
  [op : {"update"}, id : MovieIds, title : Titles,
     url : Posters \union {"absent"}, file : FileKinds]
  \union
  [op : {"remove"}, id : MovieIds, title : {"none"},
     url : {"absent"}, file : {"none"}]

ASSUME InputsAssumption ==
  /\ Inputs \subseteq InputRecords
  /\ Concurrency \in Nat \ {0}
  /\ AttachOnce \in BOOLEAN

VARIABLES
  pc,      \* the call each handler makes next; "idle" and "done" otherwise
  input,   \* what each request asks for
  entity,  \* the MovieEntity in the handler's memory
  diff,    \* the columns the pending save() is about to write
  status,  \* the HTTP status a handler ends with; "lost" when it dies
  touched  \* history: the requests that changed one of the stores

vars == <<storage, pc, input, entity, diff, status, touched>>

DbSteps == {"find", "exists", "insert", "load", "write", "soft"}
Steps   == DbSteps \union {"delete", "put"}
Columns == {"title", "poster", "state"}
Codes   == {"200", "201", "400", "404", "409", "500", "lost"}

NoInput  == [op |-> "none", id |-> "none", title |-> "none",
             url |-> "absent", file |-> "none"]
NoEntity == [title |-> "none", poster |-> ""]

Init ==
  /\ StorageInit
  /\ pc      = [r \in Requests |-> "idle"]
  /\ input   = [r \in Requests |-> NoInput]
  /\ entity  = [r \in Requests |-> NoEntity]
  /\ diff    = [r \in Requests |-> {}]
  /\ status  = [r \in Requests |-> "none"]
  /\ touched = {}

InFlight == {r \in Requests : pc[r] \in Steps}

-----------------------------------------------------------------------------
(* How a step ends: the handler goes on to its next call with entity e, or *)
(* it answers and its locals are gone.                                     *)

Continue(r, step, e) ==
  /\ pc' = [pc EXCEPT ![r] = step]
  /\ entity' = [entity EXCEPT ![r] = e]
  /\ UNCHANGED <<input, diff, status>>

Finish(r, code) ==
  /\ pc' = [pc EXCEPT ![r] = "done"]
  /\ entity' = [entity EXCEPT ![r] = NoEntity]
  /\ diff' = [diff EXCEPT ![r] = {}]
  /\ status' = [status EXCEPT ![r] = code]
  /\ UNCHANGED input

\* A store that took the write may fail to say so, and the process may die
\* before it answers
Acknowledgements(code) ==
  {code} \union (IF "db" \in Faults THEN {"500"} ELSE {})
         \union (IF "crash" \in Faults THEN {"lost"} ELSE {})

Acknowledge(r, code) == \E c \in Acknowledgements(code) : Finish(r, c)

-----------------------------------------------------------------------------
(* A request arrives.                                                      *)

\* What the ValidationPipe and FileValidationPipe let through
Valid(in) ==
  /\ in.url # ""
  /\ in.file # "bad"
  /\ in.op = "uploadPoster" => in.file # "none"

\* Mutant: the upload endpoint goes through the title check of the creates
FirstStepChecksTitle(in) ==
  CASE in.op \in {"create", "createWithUpload", "uploadPoster"} -> "exists"
    [] in.op \in {"update", "remove"}                          -> "find"

\* The call a handler starts with
FirstStep(in) ==
  CASE in.op \in {"create", "createWithUpload"} -> "exists"
    [] in.op = "uploadPoster"                   -> "put"
    [] in.op \in {"update", "remove"}           -> "find"

\* A request that was refused, or a create that ended without its row
NoEffect(r) ==
  \/ status[r] \in {"400", "404", "409"}
  \/ status[r] # "none" /\ input[r].op = "create" /\ movies[r].state = "absent"

\* A client can name a row it has seen, and the URL of an object it has seen.
\* A well-behaved one attaches an uploaded poster to one movie: it uses the URL
\* anew where it was without effect, and repeats a PATCH until it is told that
\* the movie has the poster ...
FreshUpload(in) ==
  /\ in.url \in Requests
  /\ input[in.url].op = "uploadPoster"
  /\ status[in.url] = "201"
  /\ \A q \in Requests :
       input[q].url = in.url =>
         \/ NoEffect(q)
         \/ /\ in.op = "update" /\ input[q].op = "update"
            /\ in.id = input[q].id
            /\ status[q] \in {"none", "500", "lost"}

Sendable(in) ==
  /\ in.id \in MovieIds => movies[in.id].state # "absent"
  /\ in.url \in Keys =>
       IF AttachOnce
       THEN \/ FreshUpload(in)
            \/ /\ in.op = "update"  \* ... or sends the movie the URL it has
               /\ Live(in.id)
               /\ movies[in.id].poster = in.url
       ELSE bucket[in.url] # "absent"

Start(r) ==
  /\ pc[r] = "idle"
  /\ Cardinality(InFlight) < Concurrency
  /\ \E in \in {i \in Inputs : Sendable(i)} :
       /\ input' = [input EXCEPT ![r] = in]
       /\ IF Valid(in)
          THEN /\ pc' = [pc EXCEPT ![r] = FirstStep(in)]
               /\ UNCHANGED status
          ELSE /\ pc' = [pc EXCEPT ![r] = "done"]
               /\ status' = [status EXCEPT ![r] = "400"]
  /\ UNCHANGED <<storage, entity, diff>>

-----------------------------------------------------------------------------
(* The poster part of update(): the old object is removed first, then the  *)
(* new file is stored or the new URL is assigned.                          *)

\* Mutant: only a new file makes update() delete the old one
ReplacesPosterByFile(in, e) == in.file = "good"

ReplacesPoster(in, e) ==
  in.file = "good" \/ (in.url # "absent" /\ in.url # e.poster)

\* Mutant: a posterUrl left out becomes ""
WithUrlOrEmpty(in, e) ==
  IF in.file = "good" THEN e
  ELSE [e EXCEPT !.poster = IF in.url = "absent" THEN "" ELSE in.url]

WithUrl(in, e) ==
  IF in.file # "good" /\ in.url # "absent" THEN [e EXCEPT !.poster = in.url] ELSE e

\* extractKeyFromUrl finds no key in "" or in a URL outside the bucket: then
\* deleteOldPoster makes no call
ToPoster(r, in, e) ==
  IF ReplacesPoster(in, e) /\ e.poster \in Keys THEN Continue(r, "delete", e)
  ELSE IF in.file = "good"                      THEN Continue(r, "put", e)
  ELSE Continue(r, "load", WithUrl(in, e))

\* Mutant: remove() leaves the file alone
FindByIdKeepFile(r) ==
  LET in == input[r]
      e  == [title |-> movies[in.id].title, poster |-> movies[in.id].poster]
  IN
  /\ pc[r] = "find"
  /\ Live(in.id)
  /\ IF in.op = "remove" THEN Continue(r, "soft", e) ELSE ToPoster(r, in, e)
  /\ UNCHANGED storage

\* movieRepository.findById of update() and remove()
FindById(r) ==
  LET in == input[r]
      e  == [title |-> movies[in.id].title, poster |-> movies[in.id].poster]
  IN
  /\ pc[r] = "find"
  /\ \/ /\ ~Live(in.id)
        /\ Finish(r, "404")
     \/ /\ Live(in.id)
        /\ in.op = "remove"
        /\ Continue(r, IF e.poster \in Keys THEN "delete" ELSE "soft", e)
     \/ /\ Live(in.id)
        /\ in.op = "update"
        /\ IF in.title \notin {"none", e.title}
           THEN Continue(r, "exists", e)
           ELSE ToPoster(r, in, e)
  /\ UNCHANGED storage

\* Mutant: update() deletes the old poster before it checks the title
ExistsWithTitleLate(r) ==
  LET in == input[r] IN
  /\ pc[r] = "exists"
  /\ IF ExistsLiveTitle(in.title)
     THEN /\ Finish(r, "409")
          /\ IF entity[r].poster \in Keys
             THEN RemoveFile(entity[r].poster) ELSE UNCHANGED bucket
     ELSE Finish(r, "200") /\ UNCHANGED bucket
  /\ UNCHANGED movies

\* movieRepository.existsWithTitle of both creates and of update(): the title is
\* compared as it was sent and kept trimmed
ExistsWithTitle(r) ==
  LET in == input[r] IN
  /\ pc[r] = "exists"
  /\ \/ /\ ExistsLiveTitle(in.title)
        /\ Finish(r, "409")
     \/ /\ ~ExistsLiveTitle(in.title)
        /\ in.op = "update"
        /\ ToPoster(r, in, [entity[r] EXCEPT !.title = Trim[in.title]])
     \/ /\ ~ExistsLiveTitle(in.title)
        /\ in.op # "update"
        /\ Continue(r, IF in.file = "good" THEN "put" ELSE "insert",
                    [title  |-> Trim[in.title],
                     poster |-> IF in.op = "create" THEN in.url ELSE ""])
  /\ UNCHANGED storage

\* Mutant: the new posterUrl is not assigned after the old file is deleted
DeleteAndForget(r) ==
  /\ pc[r] = "delete"
  /\ RemoveFile(entity[r].poster)
  /\ Continue(r, IF input[r].op = "remove" THEN "soft" ELSE "load", entity[r])
  /\ UNCHANGED movies

\* deleteOldPoster of update() and remove(): an error is logged and forgotten
DeleteOldPoster(r) ==
  LET in == input[r] IN
  /\ pc[r] = "delete"
  /\ \/ RemoveFile(entity[r].poster)
     \/ "s3" \in Faults /\ UNCHANGED bucket
  /\ IF in.op = "remove"           THEN Continue(r, "soft", entity[r])
     ELSE IF in.file = "good"      THEN Continue(r, "put", entity[r])
     ELSE Continue(r, "load", WithUrl(in, entity[r]))
  /\ UNCHANGED movies

\* Mutant: uploadFile swallows an error, as deleteOldPoster does
PutObjectOrNot(r) ==
  /\ pc[r] = "put"
  /\ PutFile(r) \/ UNCHANGED bucket
  /\ IF input[r].op = "uploadPoster" THEN Finish(r, "201")
     ELSE Continue(r, IF input[r].op = "update" THEN "load" ELSE "insert",
                   [entity[r] EXCEPT !.poster = r])
  /\ UNCHANGED movies

\* Mutant: the key is the name of the file, so a second upload of it replaces
\* the first
PutObjectByName(r) ==
  \E key \in {r} \union {k \in Keys : bucket[k] = "stored"} :
    /\ pc[r] = "put"
    /\ PutFile(key)
    /\ IF input[r].op = "uploadPoster" THEN Finish(r, "201")
       ELSE Continue(r, IF input[r].op = "update" THEN "load" ELSE "insert",
                     [entity[r] EXCEPT !.poster = key])
    /\ UNCHANGED movies

\* s3Service.uploadFile: an error ends the request, and nothing is undone
PutObject(r) ==
  LET in == input[r]
      e  == [entity[r] EXCEPT !.poster = r]
  IN
  /\ pc[r] = "put"
  /\ \/ /\ PutFile(r)
        /\ CASE in.op = "uploadPoster"     -> Finish(r, "201")
             [] in.op = "createWithUpload" -> Continue(r, "insert", e)
             [] in.op = "update"           -> Continue(r, "load", e)
     \/ /\ "s3" \in Faults
        /\ PutFile(r) \/ UNCHANGED bucket
        /\ Finish(r, "500")
     \/ /\ "crash" \in Faults
        /\ PutFile(r)
        /\ Finish(r, "lost")
  /\ UNCHANGED movies

\* Mutants: create() does not await save(); the INSERT waits for the title
InsertUnawaited(r) ==
  LET row == [state |-> "live", title |-> entity[r].title,
              poster |-> entity[r].poster]
  IN
  /\ pc[r] = "insert"
  /\ IF Accepts(r, row) THEN StoreRow(r, row) ELSE UNCHANGED movies
  /\ Finish(r, "201")
  /\ UNCHANGED bucket

InsertWaits(r) ==
  LET row == [state |-> "live", title |-> entity[r].title,
              poster |-> entity[r].poster]
  IN
  /\ pc[r] = "insert"
  /\ Accepts(r, row)
  /\ StoreRow(r, row)
  /\ Finish(r, "201")
  /\ UNCHANGED bucket

\* save() of a new entity: one INSERT. A refused one is a QueryFailedError, no
\* HttpException, and the filter answers 500
Insert(r) ==
  LET row == [state |-> "live", title |-> entity[r].title,
              poster |-> entity[r].poster]
  IN
  /\ pc[r] = "insert"
  /\ \/ /\ Accepts(r, row)
        /\ StoreRow(r, row)
        /\ Acknowledge(r, "201")
     \/ /\ ~Accepts(r, row)
        /\ Finish(r, "500")
        /\ UNCHANGED movies
  /\ UNCHANGED bucket

\* save() of a loaded entity: the SELECT ...
Load(r) ==
  LET columns == ChangedColumns(input[r].id, entity[r]) IN
  /\ pc[r] = "load"
  /\ \/ /\ columns = {}
        /\ Finish(r, "200")
     \/ /\ columns # {}
        /\ pc' = [pc EXCEPT ![r] = "write"]
        /\ diff' = [diff EXCEPT ![r] = columns]
        /\ UNCHANGED <<input, entity, status>>
  /\ UNCHANGED storage

\* ... and the UPDATE
Write(r) ==
  LET m   == input[r].id
      row == Merged(m, entity[r], diff[r])
  IN
  /\ pc[r] = "write"
  /\ \/ /\ Accepts(m, row)
        /\ StoreRow(m, row)
        /\ Acknowledge(r, "200")
     \/ /\ ~Accepts(m, row)
        /\ Finish(r, "500")
        /\ UNCHANGED movies
  /\ UNCHANGED bucket

\* movieRepository.remove
SoftDelete(r) ==
  /\ pc[r] = "soft"
  /\ MarkDeleted(input[r].id)
  /\ Acknowledge(r, "200")
  /\ UNCHANGED bucket

-----------------------------------------------------------------------------
(* Failures. There is no retry, no cleanup and no compensation anywhere.   *)

\* A query fails with no effect
DbError(r) ==
  /\ "db" \in Faults
  /\ pc[r] \in DbSteps
  /\ Finish(r, "500")
  /\ UNCHANGED storage

\* The process that serves the request dies between two calls
Crash(r) ==
  /\ "crash" \in Faults
  /\ pc[r] \in Steps
  /\ Finish(r, "lost")
  /\ UNCHANGED storage

-----------------------------------------------------------------------------

Handle(r) ==
  \/ FindById(r)
  \/ ExistsWithTitle(r)
  \/ DeleteOldPoster(r)
  \/ PutObject(r)
  \/ Insert(r)
  \/ Load(r)
  \/ Write(r)
  \/ SoftDelete(r)

Tracked(r) ==
  touched' = IF storage' = storage THEN touched ELSE touched \union {r}

\* Every request has been answered: the run ends here
AllDone ==
  /\ \A r \in Requests : pc[r] = "done"
  /\ UNCHANGED vars

Step(r) == (Start(r) \/ Handle(r) \/ DbError(r) \/ Crash(r)) /\ Tracked(r)

Next == (\E r \in Requests : Step(r)) \/ AllDone

Spec == Init /\ [][Next]_vars

\* S3 and PostgreSQL answer or fail every call, and node resumes the handler;
\* no client has to send anything
FairSpec == Spec /\ \A r \in Requests : WF_vars(Handle(r) /\ Tracked(r))

-----------------------------------------------------------------------------
(* Properties of every interleaving, faults included.                      *)

Creates == {"create", "createWithUpload"}

StepsOf(op) ==
  CASE op = "create"           -> {"exists", "insert"}
    [] op = "createWithUpload" -> {"exists", "put", "insert"}
    [] op = "uploadPoster"     -> {"put"}
    [] op = "update"           -> {"find", "exists", "delete", "put", "load", "write"}
    [] op = "remove"           -> {"find", "delete", "soft"}
    [] OTHER                   -> {}

\* The variables have their types, and a handler is at a step of its endpoint.
TypeOK ==
  /\ StorageTypeOK
  /\ pc \in [Requests -> Steps \union {"idle", "done"}]
  /\ input \in [Requests -> Inputs \union {NoInput}]
  /\ entity \in [Requests -> [title : Titles, poster : Posters]]
  /\ diff \in [Requests -> SUBSET Columns]
  /\ status \in [Requests -> Codes \union {"none"}]
  /\ touched \subseteq Requests
  /\ \A r \in Requests :
       /\ pc[r] \in Steps => pc[r] \in StepsOf(input[r].op)
       /\ pc[r] = "exists" => input[r].title # "none"
       /\ pc[r] = "idle" <=> input[r] = NoInput
       /\ pc[r] = "done" <=> status[r] # "none"

\* No two movies, soft-deleted ones included, ever have the same title, however
\* the check-then-insert and check-then-update windows of the handlers overlap.
UniqueTitles ==
  \A m, n \in MovieIds :
    /\ m # n
    /\ movies[m].state # "absent"
    /\ movies[n].state # "absent"
    => movies[m].title # movies[n].title

\* A request that is answered 400, 404 or 409 has changed neither the table nor
\* the bucket: each handler makes its checks before its first effect.
ClientErrorsLeaveNoTrace ==
  \A r \in Requests : status[r] \in {"400", "404", "409"} => r \notin touched

\* A create answered 201 has its row, a create without a row was answered an
\* error, and a create that has its row was answered an error only when the
\* database or the process failed after the INSERT.
CreateAnswersMatchRows ==
  \A r \in Requests :
    /\ input[r].op \in Creates /\ status[r] = "201" =>
         movies[r].state # "absent"
    /\ movies[r].state # "absent" =>
         /\ input[r].op \in Creates
         /\ status[r] \in Acknowledgements("201")

\* No row points to an object that was never stored: a handler stores the file
\* before it writes the row, and a client can only repeat a URL it was given.
ReferencedWasUploaded ==
  \A m \in MovieIds :
    movies[m].poster \in Keys => bucket[movies[m].poster] # "absent"

\* The movie a request is about, "none" for an upload-poster
MovieOf(r) == IF input[r].op \in Creates THEN r ELSE input[r].id

\* The movies a client gave a file to: the one it was uploaded for, and those it
\* sent the URL for in a request that was not without effect
GivenTo(k) ==
  {m \in MovieIds :
     \/ m = k /\ k \in Seeds
     \/ \E q \in Requests :
          /\ MovieOf(q) = m
          /\ q = k \/ (input[q].url = k /\ input[q].file # "good" /\ ~NoEffect(q))}

\* update() and remove() delete by a URL they read before an await, and nothing
\* keeps a client from sending the URL of another movie's poster. A request takes
\* the file of another movie only then: where both were given it, never by overlap.
NoCrossMovieDelete ==
  [][\A k \in Keys : bucket[k] = "stored" /\ bucket'[k] # "stored" =>
       \E r \in Requests :
         /\ pc[r] = "delete" /\ pc'[r] # "delete"
         /\ \A m \in MovieIds :
              movies[m].poster = k =>
                m = input[r].id \/ {m, input[r].id} \subseteq GivenTo(k)]_vars

\* The columns an update() has in memory and was not asked to change
Version(r) ==
  IF input[r].op = "update" /\ pc[r] \in Steps \ {"find"}
  THEN [read   |-> TRUE,
        title  |-> IF input[r].title = "none" THEN entity[r].title ELSE "none",
        poster |-> IF input[r].file # "good" /\ input[r].url = "absent"
                   THEN entity[r].poster ELSE "none"]
  ELSE [read |-> FALSE, title |-> "none", poster |-> "none"]

Versions == [r \in Requests |-> Version(r)]

\* The handlers implement the abstract catalogue: whatever their awaits let
\* happen in between, each request takes effect on the table at most once, at
\* the instant its answer is decided; its 404 or 409 was then true; and what it
\* was not asked to change stays, or is as it was when the request read it.
Promised == INSTANCE Catalogue
  WITH rows <- movies, asked <- input, answer <- status, versions <- Versions

ImplementsCatalogue == Promised!CatalogueSpec

-----------------------------------------------------------------------------
(* Properties of one request at a time (Concurrency = 1).                  *)

Failed(r) == status[r] \in {"500", "lost"}

\* PATCH writes the fields it names and no others, it never revives a deleted
\* movie, and only DELETE changes deleted_at: save() writes the columns that
\* differ from the row as it is now, not from the row the handler read.
PatchWritesOnlyWhatItNames ==
  [][\A m \in MovieIds :
       Live(m) \/ movies[m].state = "deleted" =>
         /\ movies'[m].title # movies[m].title =>
              \E r \in Requests :
                /\ pc[r] # "done" /\ pc'[r] = "done"
                /\ input[r].op = "update" /\ input[r].id = m
                /\ input[r].title # "none"
                /\ movies'[m].title = Trim[input[r].title]
         /\ movies'[m].poster # movies[m].poster =>
              \E r \in Requests :
                /\ pc[r] # "done" /\ pc'[r] = "done"
                /\ input[r].op = "update" /\ input[r].id = m
                /\ movies'[m].poster =
                     IF input[r].file = "good" THEN r ELSE input[r].url
         /\ movies'[m].state # movies[m].state =>
              /\ Live(m)
              /\ \E r \in Requests : input[r].op = "remove" /\ input[r].id = m]_vars

\* Between requests, a live movie whose poster file is gone is one that some
\* failed PATCH or DELETE named: update() deletes the old file first.
DanglingOnlyAfterFailure ==
  InFlight = {} =>
    \A m \in MovieIds :
      Live(m) /\ movies[m].poster \in Keys =>
        \/ bucket[movies[m].poster] = "stored"
        \/ \E r \in Requests : input[r].id = m /\ Failed(r)

\* Between requests, a stored file no live movie refers to was left by a failed
\* request, or came from upload-poster and was never attached: every other
\* path that drops a poster deletes its file.
OrphanOnlyAfterFailure ==
  InFlight = {} =>
    \A k \in Keys :
      bucket[k] = "stored" =>
        \/ \E m \in MovieIds : Live(m) /\ movies[m].poster = k
        \/ \E r \in Requests : r = k /\ Failed(r)
        \/ \E r \in Requests :
             /\ r = k /\ input[r].op = "uploadPoster"
             /\ \A q \in Requests :
                  input[q].url = k /\ input[q].file # "good" =>
                    status[q] \notin {"200", "201"}

\* A movie that is soft-deleted between requests has lost its file too.
DeletedMoviesKeepNoFile ==
  InFlight = {} =>
    \A m \in MovieIds :
      movies[m].state = "deleted" /\ movies[m].poster \in Keys =>
        bucket[movies[m].poster] = "deleted"

-----------------------------------------------------------------------------
(* What the documentation of the endpoints says, and overlapping or unusual *)
(* requests refute.                                                        *)

\* movies.controller.ts, DELETE "automatically removes the associated poster from
\* S3": between requests, a movie whose DELETE was answered 200 has no file.
DeleteRemovesThePoster ==
  InFlight = {} =>
    \A r \in Requests :
      /\ input[r].op = "remove"
      /\ status[r] = "200"
      /\ movies[input[r].id].poster \in Keys
      => bucket[movies[input[r].id].poster] # "stored"

\* movie-response.dto.ts: posterUrl is the "URL where the poster image is
\* stored", so between requests a live movie's file is in the bucket.
LivePostersStored ==
  InFlight = {} =>
    \A m \in MovieIds :
      Live(m) /\ movies[m].poster \in Keys => bucket[movies[m].poster] = "stored"

\* movies.controller.ts, DELETE: the movie is soft-deleted; no endpoint promises
\* to bring one back.
DeletedStaysDeleted ==
  [][\A m \in MovieIds :
       movies[m].state = "deleted" => movies'[m].state = "deleted"]_vars

\* movies.controller.ts: a title that another movie has is answered 409.
TitleConflictIs409 ==
  [][\A r \in Requests :
       \/ pc[r] = "insert" /\ TitleTaken(entity[r].title, r)
       \/ pc[r] = "write" /\ TitleTaken(entity[r].title, input[r].id)
       => status'[r] \in {"none", "409"}]_vars

-----------------------------------------------------------------------------
(* Liveness.                                                               *)

\* Every request that reaches its handler is answered: no step waits for
\* another request, and no failure leaves a handler without a next step.
EveryRequestAnswered ==
  \A r \in Requests : pc[r] \in Steps ~> pc[r] = "done"
=============================================================================
