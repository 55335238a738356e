-------------------------- MODULE SequentialProofs --------------------------
(***************************************************************************)
(* Proofs about a PATCH or a DELETE that is alone with its movie: what its *)
(* handler has in memory at each of its calls is what the row and the      *)
(* bucket hold. With one request at a time (Concurrency = 1) every handler *)
(* is alone, and the properties of Movies about failures follow; where     *)
(* requests overlap, ServingProofs uses the same lemmas for the movies     *)
(* that no timeout has touched.                                            *)
(***************************************************************************)
EXTENDS PosterProofs, FiniteSetTheorems

Edits == {"update", "remove"}

\* A PATCH or a DELETE of m is at work
Edited(r, m) == input[r].op \in Edits /\ input[r].id = m /\ pc[r] \in Steps

Stored(k) == bucket[k] = "stored"

-----------------------------------------------------------------------------
(* What a handler has in hand.                                             *)

\* The poster that a PATCH is about to give its movie
NewPosterOf(r) ==
  IF input[r].file = "good" THEN r
  ELSE IF input[r].url = "absent" THEN movies[input[r].id].poster
  ELSE input[r].url

NewTitle(r) ==
  \/ entity[r].title = movies[input[r].id].title
  \/ input[r].title # "none" /\ entity[r].title = Trim[input[r].title]

\* The entity is the row as it is, up to what the request has changed in it
HandRow(r) ==
  LET m == input[r].id IN
  input[r].op \in Edits =>
    /\ pc[r] \in Steps \ {"find"} => Live(m)
    /\ pc[r] \in {"exists", "delete", "put"} => entity[r].poster = movies[m].poster
    /\ pc[r] = "exists" => entity[r].title = movies[m].title
    /\ pc[r] \in {"delete", "put", "load", "write"} /\ input[r].op = "update" => NewTitle(r)
    /\ pc[r] = "delete" /\ input[r].op = "update" => ReplacesPoster(input[r], entity[r])
    /\ pc[r] = "delete" => entity[r].poster \in Keys
    /\ pc[r] = "put" => input[r].file = "good"
    /\ pc[r] \in {"load", "write"} => entity[r].poster = NewPosterOf(r)
    /\ pc[r] = "write" => diff[r] = ChangedColumns(m, entity[r])

\* The old file is gone before the row lets go of it
HandFile(r) ==
  LET p == movies[input[r].id].poster IN
  /\ input[r].op \in Edits
  /\ pc[r] \in {"put", "load", "write", "soft"}
  /\ p \in Keys
  /\ Stored(p)
  => pc[r] \in {"load", "write"} /\ entity[r].poster = p

\* The files that the movie will need are there
HandKept(r) ==
  LET p == movies[input[r].id].poster IN
  input[r].op \in Edits =>
    /\ pc[r] \in {"find", "exists", "delete"} /\ Live(input[r].id) /\ p \in Keys => Stored(p)
    /\ /\ pc[r] \in {"find", "exists", "delete"} /\ input[r].file # "good"
       /\ input[r].url \in Keys
       => Stored(input[r].url)
    /\ pc[r] \in {"load", "write"} /\ entity[r].poster \in Keys => Stored(entity[r].poster)

\* ... and those of a movie that is being created
HandCreate(r) ==
  input[r].op \in Creates =>
    /\ pc[r] = "exists" /\ input[r].url \in Keys => Stored(input[r].url)
    /\ pc[r] = "insert" /\ input[r].op = "create" => entity[r].poster = input[r].url
    /\ pc[r] = "insert" /\ entity[r].poster \in Keys => Stored(entity[r].poster)

\* A key is fresh until its request stores a file under it
Fresh(r) ==
  \/ pc[r] \in {"idle", "find", "exists", "delete", "put"}
  \/ input[r].op \notin Uploads \union {"uploadPoster"}
  => bucket[r] = "absent"

\* What an edit is about to delete, and was uploaded for a movie, has been attached
HandAttached(r) ==
  \A k \in Requests :
    /\ input[r].op \in Edits /\ pc[r] \in {"exists", "delete", "put", "soft"}
    /\ entity[r].poster = k /\ input[k].op = "uploadPoster"
    => Attached(k)

\* An uploaded file waits for the movie that it is for
Waits(k) ==
  input[k].op = "uploadPoster" /\ status[k] = "201" /\ ~Attached(k) => Stored(k)

\* A live movie has its file, unless somebody is replacing it
Rest(m) ==
  Live(m) /\ movies[m].poster \in Keys =>
    \/ Stored(movies[m].poster)
    \/ \E r \in Requests : Edited(r, m) /\ pc[r] \in {"put", "load", "write", "soft"}

\* A file that a live movie refers to, or is about to
Held(k) ==
  \/ \E m \in MovieIds : Live(m) /\ movies[m].poster = k
  \/ k \in Requests /\ pc[k] \in {"load", "write", "insert"} /\ entity[k].poster = k

\* Nobody has attached the file of an upload-poster
Unattached(k) ==
  /\ input[k].op = "uploadPoster"
  /\ \A q \in Requests :
       input[q].url = k /\ input[q].file # "good" => status[q] \notin {"200", "201"}

\* A deleted movie has no file
Emptied(m) ==
  movies[m].state = "deleted" /\ movies[m].poster \in Keys => ~Stored(movies[m].poster)

Undisturbed(m) == \A r \in Requests : input[r].id = m => ~Failed(r)

AtMostOne == \A q, r \in Requests : pc[q] \in Steps /\ pc[r] \in Steps => q = r

(* The inductive invariant, in the order in which its parts rest on each   *)
(* other. The first part holds however requests overlap, the others of one *)
(* request at a time.                                                      *)

HandsInv ==
  \A r \in Requests : HandCreate(r) /\ Fresh(r) /\ HandAttached(r) /\ Waits(r)

AloneInv == AtMostOne /\ \A r \in Requests : HandRow(r)

\* What is needed later is not deleted before
KeptInv ==
  /\ \A r \in Requests : Undisturbed(input[r].id) => HandKept(r)
  /\ \A m \in MovieIds : Undisturbed(m) => Rest(m)

\* What is not needed any more is
DroppedInv ==
  /\ \A r \in Requests : HandFile(r)
  /\ \A m \in MovieIds : Emptied(m)
  /\ \A k \in Keys :
       Stored(k) => Held(k) \/ (k \in Requests /\ (Failed(k) \/ Unattached(k)))

-----------------------------------------------------------------------------
(* The steps of a PATCH or a DELETE, as they are seen from its memory.     *)

\* The poster stage of update() begins with this title and this poster
PosterStage(r, title, poster) ==
  LET in == input[r] IN
  /\ entity'[r].title = title
  /\ \/ /\ pc'[r] = "delete" /\ entity'[r].poster = poster
        /\ poster \in Keys
        /\ in.file = "good" \/ (in.url # "absent" /\ in.url # poster)
     \/ /\ pc'[r] = "put" /\ entity'[r].poster = poster
        /\ in.file = "good" /\ poster \notin Keys
     \/ /\ pc'[r] = "load" /\ in.file # "good"
        /\ entity'[r].poster = IF in.url = "absent" THEN poster ELSE in.url
        /\ poster \in Keys => entity'[r].poster = poster

Reads(r) ==
  LET m == input[r].id IN
  /\ UNCHANGED storage
  /\ \/ /\ pc[r] = "find" /\ Live(m) /\ input[r].op = "remove"
        /\ pc'[r] = IF movies[m].poster \in Keys THEN "delete" ELSE "soft"
        /\ entity'[r].poster = movies[m].poster
     \/ /\ pc[r] = "find" /\ Live(m) /\ input[r].op = "update"
        /\ pc'[r] = "exists"
        /\ entity'[r].title = movies[m].title /\ entity'[r].poster = movies[m].poster
     \/ /\ pc[r] = "find" /\ Live(m) /\ input[r].op = "update"
        /\ PosterStage(r, movies[m].title, movies[m].poster)
     \/ /\ pc[r] = "exists" /\ input[r].op = "update" /\ input[r].title # "none"
        /\ PosterStage(r, Trim[input[r].title], entity[r].poster)

RemovesFile(r) ==
  LET in == input[r] IN
  /\ pc[r] = "delete" /\ UNCHANGED movies
  /\ RemoveFile(entity[r].poster) \/ ("s3" \in Faults /\ UNCHANGED bucket)
  /\ entity'[r].title = entity[r].title
  /\ \/ /\ in.op = "remove" /\ pc'[r] = "soft" /\ entity'[r].poster = entity[r].poster
     \/ /\ in.op = "update" /\ in.file = "good"
        /\ pc'[r] = "put" /\ entity'[r].poster = entity[r].poster
     \/ /\ in.op = "update" /\ in.file # "good" /\ pc'[r] = "load"
        /\ entity'[r].poster = IF in.url = "absent" THEN entity[r].poster ELSE in.url

StoresFile(r) ==
  /\ pc[r] = "put" /\ input[r].op = "update"
  /\ PutFile(r) /\ UNCHANGED movies
  /\ pc'[r] = "load"
  /\ entity'[r].title = entity[r].title /\ entity'[r].poster = r

Compares(r) ==
  /\ pc[r] = "load" /\ input[r].op = "update"
  /\ UNCHANGED <<storage, entity>>
  /\ pc'[r] = "write"
  /\ diff'[r] = ChangedColumns(input[r].id, entity[r])

LEMMA Continued ==
  ASSUME HandlersOK, NEW r \in Requests, NEW step, NEW e, Continue(r, step, e)
  PROVE  pc'[r] = step /\ entity'[r] = e /\ input' = input /\ status' = status
BY DEF HandlersOK, Continue

LEMMA Finished ==
  ASSUME HandlersOK, NEW r \in Requests, NEW code, Finish(r, code)
  PROVE  pc'[r] = "done" /\ entity'[r] = NoEntity /\ input' = input /\ status'[r] = code
BY DEF HandlersOK, Finish

LEMMA StageOfPoster ==
  ASSUME HandlersOK, NEW r \in Requests, NEW e \in Entities,
         ToPoster(r, input[r], e)
  PROVE  PosterStage(r, e.title, e.poster) /\ input' = input
<1> DEFINE in == input[r]
<1>1. CASE ReplacesPoster(in, e) /\ e.poster \in Keys /\ Continue(r, "delete", e)
  BY <1>1, Continued DEF PosterStage, ReplacesPoster
<1>2. CASE /\ ~(ReplacesPoster(in, e) /\ e.poster \in Keys)
           /\ in.file = "good" /\ Continue(r, "put", e)
  BY <1>2, Continued DEF PosterStage, ReplacesPoster
<1>3. CASE /\ ~(ReplacesPoster(in, e) /\ e.poster \in Keys)
           /\ in.file # "good" /\ Continue(r, "load", WithUrl(in, e))
  <2>1. /\ WithUrl(in, e).title = e.title
        /\ WithUrl(in, e).poster = IF in.url = "absent" THEN e.poster ELSE in.url
    BY <1>3 DEF WithUrl, Entities
  <2>2. entity'[r] = WithUrl(in, e) /\ pc'[r] = "load" /\ input' = input
    BY <1>3, Continued
  <2> QED
    BY <1>3, <2>1, <2>2 DEF PosterStage, ReplacesPoster
<1> QED
  BY <1>1, <1>2, <1>3 DEF ToPoster

LEMMA EditSteps ==
  ASSUME TypeOK, NEW r \in Requests, Step(r), input[r].op \in Edits
  PROVE  /\ pc[r] \in Steps /\ input[r] \in Inputs /\ input[r].id \in MovieIds
         /\ input'[r] = input[r]
         /\ \/ Reads(r) \/ RemovesFile(r) \/ StoresFile(r) \/ Compares(r)
            \/ pc'[r] = "done" /\ ~Start(r)
<1> DEFINE in == input[r]
           m  == input[r].id
<1>1. StorageTypeOK /\ HandlersOK
  BY TypeParts
<1>2. pc[r] \in Steps /\ ~Start(r)
  BY <1>1, WhoSteps, NoInputFacts DEF HandlersOK, Edits, Start
<1>3. in \in Inputs /\ m \in MovieIds /\ entity[r] \in Entities
  BY <1>1, <1>2, AtStep, InputFacts DEF Edits
<1>4. input'[r] = in
  BY <1>2, InputsStay
<1>5. CASE FindById(r)
  <2> DEFINE e == [title |-> movies[m].title, poster |-> movies[m].poster]
  <2>1. e \in Entities /\ e.title = movies[m].title /\ e.poster = movies[m].poster
    BY <1>1, <1>3, StoredEntity
  <2>2. CASE Finish(r, "404")
    BY <1>1, <1>2, <1>3, <1>4, <2>2, Finished
  <2>3. CASE /\ Live(m) /\ in.op = "remove"
             /\ Continue(r, IF e.poster \in Keys THEN "delete" ELSE "soft", e)
    <3>1. pc'[r] = (IF e.poster \in Keys THEN "delete" ELSE "soft") /\ entity'[r] = e
      BY <1>1, <2>3, Continued
    <3> QED
      BY <1>2, <1>3, <1>4, <1>5, <2>1, <2>3, <3>1 DEF Reads, FindById
  <2>4. CASE Live(m) /\ in.op = "update" /\ Continue(r, "exists", e)
    <3>1. pc'[r] = "exists" /\ entity'[r] = e
      BY <1>1, <2>4, Continued
    <3> QED
      BY <1>2, <1>3, <1>4, <1>5, <2>1, <2>4, <3>1 DEF Reads, FindById
  <2>5. CASE Live(m) /\ in.op = "update" /\ ToPoster(r, in, e)
    <3>1. PosterStage(r, e.title, e.poster)
      BY <1>1, <2>1, <2>5, StageOfPoster
    <3> QED
      BY <1>2, <1>3, <1>4, <1>5, <2>1, <2>5, <3>1 DEF Reads, FindById
  <2> QED
    BY <1>5, <2>2, <2>3, <2>4, <2>5 DEF FindById
<1>6. CASE ExistsWithTitle(r)
  <2> DEFINE e == [entity[r] EXCEPT !.title = Trim[in.title]]
  <2>1. in.op = "update" /\ in.title # "none" /\ in.title \in RawTitles
    <3>1. pc[r] = "exists"
      BY <1>6 DEF ExistsWithTitle
    <3> QED
      BY <1>1, <1>2, <1>3, <3>1, AtStep, InputFacts, StepsFacts
      DEF HandlersOK, Edits, Creates, Titles
  <2>2. e \in Entities /\ e.title = Trim[in.title] /\ e.poster = entity[r].poster
    BY <1>3, <2>1, TrimAssumption DEF Entities, Titles
  <2>3. CASE Finish(r, "409")
    BY <1>1, <1>2, <1>3, <1>4, <2>3, Finished
  <2>4. CASE ToPoster(r, in, e)
    <3>1. PosterStage(r, e.title, e.poster)
      BY <1>1, <2>2, <2>4, StageOfPoster
    <3> QED
      BY <1>2, <1>3, <1>4, <1>6, <2>1, <2>2, <3>1 DEF Reads, ExistsWithTitle
  <2> QED
    BY <1>6, <2>1, <2>3, <2>4 DEF ExistsWithTitle
<1>7. CASE DeleteOldPoster(r)
  <2>1. CASE in.op = "remove" /\ Continue(r, "soft", entity[r])
    BY <1>1, <1>2, <1>3, <1>4, <1>7, <2>1, Continued DEF RemovesFile, DeleteOldPoster
  <2>2. CASE in.op = "update" /\ in.file = "good" /\ Continue(r, "put", entity[r])
    BY <1>1, <1>2, <1>3, <1>4, <1>7, <2>2, Continued DEF RemovesFile, DeleteOldPoster
  <2>3. CASE /\ in.op = "update" /\ in.file # "good"
             /\ Continue(r, "load", WithUrl(in, entity[r]))
    <3>1. /\ WithUrl(in, entity[r]).title = entity[r].title
          /\ WithUrl(in, entity[r]).poster =
               IF in.url = "absent" THEN entity[r].poster ELSE in.url
      BY <1>3, <2>3 DEF WithUrl, Entities
    <3>2. pc'[r] = "load" /\ entity'[r] = WithUrl(in, entity[r])
      BY <1>1, <2>3, Continued
    <3> QED
      BY <1>2, <1>3, <1>4, <1>7, <2>3, <3>1, <3>2 DEF RemovesFile, DeleteOldPoster
  <2> QED
    BY <1>7, <2>1, <2>2, <2>3 DEF DeleteOldPoster, Edits
<1>8. CASE PutObject(r)
  <2> DEFINE e == [entity[r] EXCEPT !.poster = r]
  <2>1. in.op = "update"
    <3>1. pc[r] = "put"
      BY <1>8 DEF PutObject
    <3> QED
      BY <1>1, <1>2, <1>3, <3>1, AtStep, InputFacts, StepsFacts DEF Edits
  <2>2. e.poster = r /\ e.title = entity[r].title
    BY <1>3 DEF Entities
  <2>3. CASE PutFile(r) /\ Continue(r, "load", e)
    <3>1. pc'[r] = "load" /\ entity'[r] = e
      BY <1>1, <2>3, Continued
    <3> QED
      BY <1>2, <1>3, <1>4, <1>8, <2>1, <2>2, <2>3, <3>1 DEF StoresFile, PutObject
  <2>4. CASE \E code \in Codes : Finish(r, code)
    BY <1>1, <1>2, <1>3, <1>4, <2>4, Finished
  <2> QED
    BY <1>8, <2>1, <2>3, <2>4 DEF PutObject, Codes
<1>9. CASE Load(r)
  <2>1. in.op = "update"
    <3>1. pc[r] = "load"
      BY <1>9 DEF Load
    <3> QED
      BY <1>1, <1>2, <1>3, <3>1, AtStep, InputFacts, StepsFacts DEF Edits
  <2>2. CASE Finish(r, "200")
    BY <1>1, <1>2, <1>3, <1>4, <2>2, Finished
  <2>3. CASE /\ pc' = [pc EXCEPT ![r] = "write"]
             /\ diff' = [diff EXCEPT ![r] = ChangedColumns(m, entity[r])]
             /\ UNCHANGED entity
    BY <1>1, <1>2, <1>3, <1>4, <1>9, <2>1, <2>3 DEF Compares, Load, HandlersOK
  <2> QED
    BY <1>9, <2>2, <2>3 DEF Load
<1>10. CASE Insert(r) \/ Write(r) \/ SoftDelete(r) \/ DbError(r) \/ Crash(r)
  <2>1. PICK code : Finish(r, code)
    BY <1>10 DEF Insert, Write, SoftDelete, DbError, Crash, Acknowledge
  <2> QED
    BY <1>1, <1>2, <1>3, <1>4, <2>1, Finished
<1> QED
  BY <1>2, <1>5, <1>6, <1>7, <1>8, <1>9, <1>10 DEF Step, Handle

-----------------------------------------------------------------------------
(* The entity and the row.                                                 *)

\* A row changes only by a request about it, once it is there.
LEMMA RowsOfOthers ==
  ASSUME TypeOK, CreateAnswersMatchRows, NEW r \in Requests, Step(r),
         NEW m \in MovieIds, Exists(m), ~Edited(r, m)
  PROVE  movies'[m] = movies[m]
<1>1. StorageTypeOK /\ HandlersOK
  BY TypeParts
<1>2. CASE UNCHANGED movies
  BY <1>2
<1>3. CASE Inserts(r)
  <2>1. status[r] = "none"
    BY <1>1, <1>3, AtStep DEF Inserts, Steps, DbSteps
  <2>2. ~Exists(r)
    BY <2>1 DEF CreateAnswersMatchRows, Exists, Acknowledgements
  <2> QED
    BY <1>1, <1>3, <2>2 DEF Inserts, StoreRow, StorageTypeOK
<1>4. CASE Updates(r) \/ Deletes(r)
  <2>1. pc[r] \in Steps /\ input[r].op \in Edits /\ input[r].id # m
    BY <1>4 DEF Updates, Deletes, Steps, DbSteps, Edited, Edits
  <2> QED
    BY <1>1, <1>4, <2>1 DEF Updates, Deletes, StoreRow, MarkDeleted, StorageTypeOK
<1> QED
  BY <1>2, <1>3, <1>4, TableSteps

LEMMA OthersDiff ==
  ASSUME TypeOK, NEW r \in Requests, Step(r), NEW q \in Requests, q # r
  PROVE  diff'[q] = diff[q]
<1>1. HandlersOK
  BY TypeParts
<1>2. CASE \E step, e : Continue(r, step, e)
  BY <1>2 DEF Continue
<1>3. CASE \E code : Finish(r, code)
  BY <1>1, <1>3 DEF Finish, HandlersOK
<1>4. CASE Start(r) \/ Load(r)
  BY <1>1, <1>3, <1>4 DEF Start, Load, HandlersOK
<1>5. CASE FindById(r) \/ ExistsWithTitle(r) \/ DeleteOldPoster(r)
  BY <1>2, <1>3, <1>5 DEF FindById, ExistsWithTitle, DeleteOldPoster, ToPoster
<1>6. CASE PutObject(r)
  <2>1. input[r].op \in {"createWithUpload", "uploadPoster", "update"}
    <3>1. pc[r] = "put" /\ pc[r] \in Steps
      BY <1>6 DEF PutObject, Steps, DbSteps
    <3> QED
      BY <1>1, <3>1, AtStep, InputFacts, StepsFacts DEF Creates
  <2> QED
    BY <1>2, <1>3, <1>6, <2>1 DEF PutObject
<1>7. CASE Insert(r) \/ Write(r) \/ SoftDelete(r) \/ DbError(r) \/ Crash(r)
  BY <1>3, <1>7 DEF Insert, Write, SoftDelete, DbError, Crash, Acknowledge
<1> QED
  BY <1>4, <1>5, <1>6, <1>7 DEF Step, Handle

\* A request that arrives is at its first call, or has been refused.
LEMMA StartSteps ==
  ASSUME TypeOK, NEW r \in Requests, Step(r), Start(r)
  PROVE  /\ input'[r] \in Inputs /\ Sendable(input'[r])
         /\ UNCHANGED <<movies, bucket, entity>>
         /\ pc[r] = "idle"
         /\ \/ pc'[r] = FirstStep(input'[r]) /\ status'[r] = "none"
            \/ pc'[r] = "done" /\ status'[r] = "400"
<1>1. HandlersOK
  BY TypeParts
<1>2. PICK in \in {i \in Inputs : Sendable(i)} :
        /\ input' = [input EXCEPT ![r] = in]
        /\ \/ pc' = [pc EXCEPT ![r] = FirstStep(in)] /\ UNCHANGED status
           \/ pc' = [pc EXCEPT ![r] = "done"] /\ status' = [status EXCEPT ![r] = "400"]
  BY DEF Start
<1>3. input'[r] = in /\ pc[r] = "idle" /\ status[r] = "none"
  BY <1>1, <1>2 DEF HandlersOK, Start
<1>4. in \in Inputs /\ Sendable(in)
  OBVIOUS
<1>5. input'[r] \in Inputs /\ Sendable(input'[r])
  BY <1>3, <1>4
<1>6. UNCHANGED <<movies, bucket, entity>>
  BY DEF Start, storage
<1> QED
  BY <1>1, <1>2, <1>3, <1>5, <1>6 DEF HandlersOK

LEMMA OwnRow ==
  ASSUME TypeOK, NEW r \in Requests, Step(r), HandRow(r)
  PROVE  HandRow(r)'
<1> SUFFICES ASSUME input'[r].op \in Edits PROVE HandRow(r)'
  BY DEF HandRow
<1>1. CASE Start(r)
  <2>1. pc'[r] \in {"find", "done"}
    BY <1>1, StartSteps, InputFacts DEF FirstStep, Edits, Creates
  <2> QED
    BY <2>1 DEF HandRow, Steps, DbSteps
<1>2. CASE ~Start(r)
  <2>1. input[r].op \in Edits
    BY <1>2, InputsStay
  <2>2. /\ pc[r] \in Steps /\ input[r] \in Inputs /\ input[r].id \in MovieIds
        /\ input'[r] = input[r]
    BY <2>1, EditSteps
  <2>3. CASE Reads(r)
    <3>1. UNCHANGED <<movies, bucket>>
      BY <2>3 DEF Reads, storage
    <3> QED
      BY <2>1, <2>2, <2>3, <3>1
      DEF HandRow, Reads, PosterStage, Steps, DbSteps, Live, NewTitle, NewPosterOf,
          ReplacesPoster, Edits
  <2>4. CASE RemovesFile(r)
    BY <2>1, <2>2, <2>4
    DEF HandRow, RemovesFile, Steps, DbSteps, Live, NewTitle, NewPosterOf, ReplacesPoster, Edits
  <2>5. CASE StoresFile(r)
    BY <2>1, <2>2, <2>5
    DEF HandRow, StoresFile, Steps, DbSteps, Live, NewTitle, NewPosterOf
  <2>6. CASE Compares(r)
    BY <2>1, <2>2, <2>6
    DEF HandRow, Compares, Steps, DbSteps, Live, NewTitle, NewPosterOf, storage, ChangedColumns
  <2>7. CASE pc'[r] = "done"
    BY <2>7 DEF HandRow, Steps, DbSteps
  <2> QED
    BY <2>1, <2>3, <2>4, <2>5, <2>6, <2>7, EditSteps
<1> QED
  BY <1>1, <1>2

\* A request of which no other one is about the same movie is not disturbed.
LEMMA OthersKeepHand ==
  ASSUME TypeOK, CreateAnswersMatchRows, NamedRowsExist,
         NEW r \in Requests, Step(r), NEW q \in Requests, q # r,
         input[q].op \in Edits, ~Edited(r, input[q].id)
  PROVE  /\ pc'[q] = pc[q] /\ input'[q] = input[q] /\ entity'[q] = entity[q]
         /\ diff'[q] = diff[q] /\ status'[q] = status[q]
         /\ movies'[input[q].id] = movies[input[q].id]
         /\ input[q].id \in MovieIds
<1>1. HandlersOK
  BY TypeParts
<1>2. input[q].id \in MovieIds
  BY <1>1, NoInputFacts, InputFacts DEF HandlersOK, Edits
<1>3. Exists(input[q].id)
  BY <1>2 DEF NamedRowsExist
<1> QED
  BY <1>2, <1>3, RowsOfOthers, HandlerSteps, OthersDiff

LEMMA OthersRow ==
  ASSUME TypeOK, CreateAnswersMatchRows, NamedRowsExist,
         NEW r \in Requests, Step(r), NEW q \in Requests, q # r, HandRow(q),
         ~Edited(r, input[q].id)
  PROVE  HandRow(q)'
<1>1. CASE input[q].op \in Edits
  BY <1>1, OthersKeepHand
  DEF HandRow, Live, NewTitle, NewPosterOf, ReplacesPoster, ChangedColumns
<1>2. CASE input[q].op \notin Edits
  <2>1. input'[q] = input[q]
    BY HandlerSteps
  <2> QED
    BY <1>2, <2>1 DEF HandRow
<1> QED
  BY <1>1, <1>2

-----------------------------------------------------------------------------
(* How the calls that can end a request end it.                            *)

\* Each action is at its own call.
LEMMA OwnCall ==
  ASSUME NEW r \in Requests
  PROVE  /\ Start(r) => pc[r] = "idle"
         /\ FindById(r) => pc[r] = "find"
         /\ ExistsWithTitle(r) => pc[r] = "exists"
         /\ DeleteOldPoster(r) => pc[r] = "delete"
         /\ PutObject(r) => pc[r] = "put"
         /\ Insert(r) => pc[r] = "insert"
         /\ Load(r) => pc[r] = "load"
         /\ Write(r) => pc[r] = "write"
         /\ SoftDelete(r) => pc[r] = "soft"
<1>1. Start(r) => pc[r] = "idle"
  BY DEF Start
<1>2. FindById(r) => pc[r] = "find"
  BY DEF FindById
<1>3. ExistsWithTitle(r) => pc[r] = "exists"
  BY DEF ExistsWithTitle
<1>4. DeleteOldPoster(r) => pc[r] = "delete"
  BY DEF DeleteOldPoster
<1>5. PutObject(r) => pc[r] = "put"
  BY DEF PutObject
<1>6. Insert(r) => pc[r] = "insert"
  BY DEF Insert
<1>7. Load(r) => pc[r] = "load"
  BY DEF Load
<1>8. Write(r) => pc[r] = "write"
  BY DEF Write
<1>9. SoftDelete(r) => pc[r] = "soft"
  BY DEF SoftDelete
<1> QED
  BY <1>1, <1>2, <1>3, <1>4, <1>5, <1>6, <1>7, <1>8, <1>9

LEMMA AtLoad ==
  ASSUME TypeOK, NEW r \in Requests, Step(r), pc[r] = "load"
  PROVE  /\ UNCHANGED storage /\ input'[r] = input[r]
         /\ \/ Compares(r)
            \/ /\ pc'[r] = "done"
               /\ \/ status'[r] = "200" /\ ChangedColumns(input[r].id, entity[r]) = {}
                  \/ Failed(r)'
<1>1. HandlersOK
  BY TypeParts
<1>2. pc[r] \in Steps /\ input[r].op = "update"
  <2>1. pc[r] \in Steps
    BY DEF Steps, DbSteps
  <2> QED
    BY <1>1, <2>1, AtStep, InputFacts, StepsFacts
<1>3. Load(r) \/ DbError(r) \/ Crash(r)
  BY OwnCall DEF Step, Handle
<1>4. UNCHANGED storage
  BY <1>3 DEF Load, DbError, Crash
<1>5. CASE Load(r)
  <2>1. CASE ChangedColumns(input[r].id, entity[r]) = {} /\ Finish(r, "200")
    BY <1>1, <1>4, <2>1, Finished
  <2>2. CASE /\ pc' = [pc EXCEPT ![r] = "write"]
             /\ diff' = [diff EXCEPT ![r] = ChangedColumns(input[r].id, entity[r])]
             /\ UNCHANGED <<input, entity, status>>
    BY <1>1, <1>2, <1>4, <2>2 DEF Compares, HandlersOK
  <2> QED
    BY <1>5, <2>1, <2>2 DEF Load
<1>6. CASE DbError(r) \/ Crash(r)
  BY <1>1, <1>4, <1>6, Finished DEF DbError, Crash, Failed
<1> QED
  BY <1>3, <1>5, <1>6

\* The row is what the handler had in hand, or the request failed.
LEMMA AtWrite ==
  ASSUME TypeOK, NEW r \in Requests, Step(r), pc[r] = "write", HandRow(r)
  PROVE  /\ UNCHANGED bucket /\ pc'[r] = "done" /\ input'[r] = input[r]
         /\ input[r].op = "update" /\ input[r].id \in MovieIds
         /\ \/ /\ \A m \in MovieIds \ {input[r].id} : movies'[m] = movies[m]
               /\ movies'[input[r].id].state = "live"
               /\ movies'[input[r].id].title = entity[r].title
               /\ movies'[input[r].id].poster = entity[r].poster
            \/ UNCHANGED movies /\ Failed(r)'
<1> DEFINE m   == input[r].id
           row == Merged(m, entity[r], diff[r])
<1>1. StorageTypeOK /\ HandlersOK
  BY TypeParts
<1>2. pc[r] \in Steps /\ input[r].op = "update" /\ m \in MovieIds
  <2>1. pc[r] \in Steps
    BY DEF Steps, DbSteps
  <2> QED
    BY <1>1, <2>1, AtStep, InputFacts, StepsFacts
<1>3. Write(r) \/ DbError(r) \/ Crash(r)
  BY OwnCall DEF Step, Handle
<1>4. CASE DbError(r) \/ Crash(r)
  BY <1>1, <1>2, <1>4, Finished DEF DbError, Crash, Failed, storage
<1>5. CASE Write(r)
  <2>1. Live(m) /\ diff[r] = ChangedColumns(m, entity[r])
    BY <1>2 DEF HandRow, Edits
  <2>2. row.state = "live" /\ row.title = entity[r].title /\ row.poster = entity[r].poster
    BY <2>1 DEF Merged, ChangedColumns, Live
  <2>3. CASE StoreRow(m, row) /\ Acknowledge(r, "200")
    <3>1. pc'[r] = "done" /\ input'[r] = input[r]
      BY <1>1, <2>3, Finished DEF Acknowledge
    <3> QED
      BY <1>1, <1>2, <1>5, <2>2, <2>3, <3>1 DEF Write, StoreRow, StorageTypeOK
  <2>4. CASE Finish(r, "500") /\ UNCHANGED movies
    BY <1>1, <1>2, <1>5, <2>4, Finished DEF Write, Failed
  <2> QED
    BY <1>5, <2>3, <2>4 DEF Write
<1> QED
  BY <1>3, <1>4, <1>5

LEMMA AtSoft ==
  ASSUME TypeOK, NEW r \in Requests, Step(r), pc[r] = "soft"
  PROVE  /\ UNCHANGED bucket /\ pc'[r] = "done" /\ input'[r] = input[r]
         /\ input[r].op = "remove" /\ input[r].id \in MovieIds
         /\ \/ /\ \A m \in MovieIds \ {input[r].id} : movies'[m] = movies[m]
               /\ movies'[input[r].id] = [movies[input[r].id] EXCEPT !.state = "deleted"]
            \/ UNCHANGED movies /\ Failed(r)'
<1>1. StorageTypeOK /\ HandlersOK
  BY TypeParts
<1>2. pc[r] \in Steps /\ input[r].op = "remove" /\ input[r].id \in MovieIds
  <2>1. pc[r] \in Steps
    BY DEF Steps, DbSteps
  <2> QED
    BY <1>1, <2>1, AtStep, InputFacts, StepsFacts
<1>3. SoftDelete(r) \/ DbError(r) \/ Crash(r)
  BY OwnCall DEF Step, Handle
<1>4. CASE DbError(r) \/ Crash(r)
  BY <1>1, <1>2, <1>4, Finished DEF DbError, Crash, Failed, storage
<1>5. CASE SoftDelete(r)
  <2>1. pc'[r] = "done" /\ input'[r] = input[r]
    BY <1>1, <1>5, Finished DEF SoftDelete, Acknowledge
  <2> QED
    BY <1>1, <1>2, <1>5, <2>1 DEF SoftDelete, MarkDeleted, StorageTypeOK
<1> QED
  BY <1>3, <1>4, <1>5

LEMMA AtInsert ==
  ASSUME TypeOK, NEW r \in Requests, Step(r), pc[r] = "insert"
  PROVE  /\ UNCHANGED bucket /\ pc'[r] = "done" /\ input'[r] = input[r]
         /\ input[r].op \in Creates
         /\ \/ /\ \A m \in MovieIds \ {r} : movies'[m] = movies[m]
               /\ movies'[r].state = "live" /\ movies'[r].poster = entity[r].poster
            \/ UNCHANGED movies /\ Failed(r)'
<1>1. StorageTypeOK /\ HandlersOK /\ r \in MovieIds
  BY TypeParts DEF MovieIds
<1>2. pc[r] \in Steps /\ input[r].op \in Creates
  <2>1. pc[r] \in Steps
    BY DEF Steps, DbSteps
  <2> QED
    BY <1>1, <2>1, AtStep, InputFacts, StepsFacts
<1>3. Insert(r) \/ DbError(r) \/ Crash(r)
  BY OwnCall DEF Step, Handle
<1>4. CASE DbError(r) \/ Crash(r)
  BY <1>1, <1>2, <1>4, Finished DEF DbError, Crash, Failed, storage
<1>5. CASE Insert(r)
  <2>1. CASE /\ StoreRow(r, [state |-> "live", title |-> entity[r].title,
                             poster |-> entity[r].poster])
             /\ Acknowledge(r, "201")
    <3>1. pc'[r] = "done" /\ input'[r] = input[r]
      BY <1>1, <2>1, Finished DEF Acknowledge
    <3> QED
      BY <1>1, <1>2, <1>5, <2>1, <3>1 DEF Insert, StoreRow, StorageTypeOK
  <2>2. CASE Finish(r, "500") /\ UNCHANGED movies
    BY <1>1, <1>2, <1>5, <2>2, Finished DEF Insert, Failed
  <2> QED
    BY <1>5, <2>1, <2>2 DEF Insert
<1> QED
  BY <1>3, <1>4, <1>5

\* An object changes by the request that stores it or by one that deletes it.
LEMMA ObjectSteps ==
  ASSUME TypeOK, NEW r \in Requests, Step(r), NEW k \in Keys
  PROVE  \/ bucket'[k] = bucket[k]
         \/ /\ bucket'[k] = "deleted" /\ pc[r] = "delete" /\ entity[r].poster = k
            /\ input[r].id \in MovieIds /\ Edited(r, input[r].id) /\ Bound(k, input[r].id)
         \/ /\ bucket'[k] = "stored" /\ pc[r] = "put" /\ k = r
            /\ input[r].op \in Uploads \union {"uploadPoster"}
<1>1. StorageTypeOK /\ HandlersOK
  BY TypeParts
<1>2. CASE DeleteOldPoster(r)
  <2>1. pc[r] = "delete" /\ pc[r] \in Steps
    BY <1>2 DEF DeleteOldPoster, Steps, DbSteps
  <2>2. input[r].op \in Edits /\ input[r].id \in MovieIds
    BY <1>1, <2>1, AtStep, InputFacts, StepsFacts DEF Edits
  <2>3. bucket'[k] = bucket[k] \/ (bucket'[k] = "deleted" /\ entity[r].poster = k)
    BY <1>1, <1>2 DEF DeleteOldPoster, RemoveFile, StorageTypeOK
  <2> QED
    BY <2>1, <2>2, <2>3 DEF Edited, Bound, Claims, Target, Edits
<1>3. CASE PutObject(r)
  <2>1. pc[r] = "put" /\ pc[r] \in Steps
    BY <1>3 DEF PutObject, Steps, DbSteps
  <2>2. input[r].op \in Uploads \union {"uploadPoster"}
    BY <1>1, <2>1, AtStep, InputFacts, StepsFacts DEF Creates, Uploads
  <2>3. bucket'[k] = bucket[k] \/ (bucket'[k] = "stored" /\ k = r)
    BY <1>1, <1>3 DEF PutObject, PutFile, StorageTypeOK
  <2> QED
    BY <2>1, <2>2, <2>3
<1>4. CASE ~DeleteOldPoster(r) /\ ~PutObject(r)
  BY <1>4 DEF Step, Start, Handle, FindById, ExistsWithTitle, Insert, Load, Write,
              SoftDelete, DbError, Crash, storage
<1> QED
  BY <1>2, <1>3, <1>4

-----------------------------------------------------------------------------
(* The files of the request's movie.                                       *)

\* What MoviesProofs and PosterProofs prove of every interleaving
Basis == TypeOK /\ RowsInv /\ CreateAnswersMatchRows /\ UploadedInv /\ BoundInv

LEMMA BasisParts ==
  ASSUME Basis
  PROVE  /\ TypeOK /\ StorageTypeOK /\ HandlersOK /\ NamedRowsExist
         /\ CreateAnswersMatchRows /\ UploadedInv
         /\ BoundOnce /\ IdleHoldNothing /\ UploadsAreNamed
BY TypeParts DEF Basis, RowsInv, BoundInv

\* The objects that a PATCH or a DELETE has to do with are bound for its movie.
LEMMA HandIsBound ==
  ASSUME TypeOK, NEW q \in Requests, pc[q] \in Steps
  PROVE  /\ input[q].op \in Edits => Bound(movies[input[q].id].poster, input[q].id)
         /\ Bound(input[q].url, Target(q))
         /\ Bound(entity[q].poster, Target(q))
         /\ input[q].op \in Edits => Target(q) = input[q].id
<1>1. ~NoEffect(q)
  BY TypeParts, AtStep DEF NoEffect
<1> QED
  BY <1>1 DEF Bound, Claims, Target, Edits

\* Nobody else takes them away ...
LEMMA OthersDeleteNot ==
  ASSUME Basis, NEW r \in Requests, Step(r), NEW m \in MovieIds, ~Edited(r, m),
         NEW k \in Keys, Bound(k, m), bucket[k] = "stored"
  PROVE  bucket'[k] = "stored"
<1>1. ASSUME input[r].id \in MovieIds, Edited(r, input[r].id), Bound(k, input[r].id)
      PROVE  FALSE
  BY <1>1, BasisParts DEF BoundOnce
<1> QED
  BY <1>1, ObjectSteps, BasisParts

\* ... or brings back what has been deleted.
LEMMA NothingReturns ==
  ASSUME Basis, NEW r \in Requests, Step(r), Fresh(r), NEW k \in Keys,
         bucket[k] # "absent", bucket'[k] = "stored"
  PROVE  bucket[k] = "stored"
<1>1. pc[r] = "put" /\ k = r => bucket[k] = "absent"
  BY DEF Fresh
<1> QED
  BY <1>1, ObjectSteps, BasisParts

LEMMA OthersHand ==
  ASSUME Basis, NEW r \in Requests, Step(r), Fresh(r), NEW q \in Requests, q # r,
         pc[q] \in Steps => ~Edited(r, input[q].id)
  PROVE  /\ HandRow(q) => HandRow(q)'
         /\ HandFile(q) => HandFile(q)'
         /\ HandKept(q) => HandKept(q)'
<1>1. /\ pc'[q] = pc[q] /\ input'[q] = input[q] /\ entity'[q] = entity[q]
  BY HandlerSteps, BasisParts
<1>2. CASE input[q].op \notin Edits
  BY <1>1, <1>2 DEF HandRow, HandFile, HandKept
<1>3. CASE pc[q] \notin Steps
  BY <1>1, <1>3 DEF HandRow, HandFile, HandKept, Steps, DbSteps
<1>4. CASE input[q].op \in Edits /\ pc[q] \in Steps
  <2> DEFINE m == input[q].id
  <2>1. movies'[m] = movies[m] /\ m \in MovieIds
    BY <1>4, OthersKeepHand, BasisParts
  <2>2. HandRow(q) => HandRow(q)'
    BY <1>4, OthersRow, BasisParts
  <2>3. \A k \in Keys : Bound(k, m) /\ bucket[k] = "stored" => bucket'[k] = "stored"
    BY <1>4, <2>1, OthersDeleteNot
  <2>4. HandFile(q) => HandFile(q)'
    <3>1. \A k \in Keys :
            bucket[k] # "absent" /\ bucket'[k] = "stored" => bucket[k] = "stored"
      BY NothingReturns
    <3>2. movies[m].poster \in Keys => bucket[movies[m].poster] # "absent"
      BY <2>1, BasisParts DEF UploadedInv, Uploaded
    <3> QED
      BY <1>1, <2>1, <3>1, <3>2 DEF HandFile, Stored
  <2>5. HandKept(q) => HandKept(q)'
    <3>1. Bound(movies[m].poster, m) /\ Bound(input[q].url, m) /\ Bound(entity[q].poster, m)
      BY <1>4, HandIsBound, BasisParts
    <3> QED
      BY <1>1, <1>4, <2>1, <2>3, <3>1 DEF HandKept, Live, Stored
  <2> QED
    BY <2>2, <2>4, <2>5
<1> QED
  BY <1>2, <1>3, <1>4

LEMMA OwnFile ==
  ASSUME Basis, NEW r \in Requests, Step(r), "s3" \notin Faults,
         Fresh(r), HandRow(r), HandFile(r)
  PROVE  HandFile(r)'
<1> DEFINE m == input[r].id
           p == movies[m].poster
<1> SUFFICES ASSUME input'[r].op \in Edits, pc'[r] \in {"put", "load", "write", "soft"},
                    movies'[input'[r].id].poster \in Keys,
                    bucket'[movies'[input'[r].id].poster] = "stored"
             PROVE  /\ pc'[r] \in {"load", "write"}
                    /\ entity'[r].poster = movies'[input'[r].id].poster
  BY DEF HandFile, Stored
<1>1. ~Start(r)
  <2>1. Start(r) => pc'[r] \in {FirstStep(input'[r]), "done"}
    BY StartSteps, BasisParts
  <2>2. Start(r) => pc'[r] \in {"find", "done"}
    BY <2>1 DEF FirstStep, Edits
  <2> QED
    BY <2>2
<1>2. input'[r] = input[r] /\ input[r].op \in Edits
  BY <1>1, InputsStay, BasisParts
<1>3. /\ pc[r] \in Steps /\ m \in MovieIds
      /\ Reads(r) \/ RemovesFile(r) \/ StoresFile(r) \/ Compares(r)
  BY <1>2, EditSteps, BasisParts
<1>4. /\ p \in Keys /\ movies'[m] = movies[m] /\ bucket'[p] = "stored"
      /\ bucket[p] # "absent"
  BY <1>2, <1>3, BasisParts
  DEF Reads, RemovesFile, StoresFile, Compares, storage, UploadedInv, Uploaded
<1>5. CASE Reads(r)
  <2>1. pc[r] = "exists" => entity[r].poster = p
    BY <1>2 DEF HandRow
  <2> QED
    BY <1>2, <1>4, <1>5, <2>1 DEF Reads, PosterStage
<1>6. CASE RemovesFile(r)
  <2>1. entity[r].poster = p
    BY <1>2, <1>6 DEF HandRow, RemovesFile
  <2> QED
    BY <1>4, <1>6, <2>1, BasisParts DEF RemovesFile, RemoveFile, StorageTypeOK
<1>7. CASE StoresFile(r)
  <2>1. CASE p = r
    BY <1>2, <1>4, <1>7, <2>1 DEF StoresFile
  <2>2. CASE p # r
    <3>1. Stored(p) /\ pc[r] = "put"
      BY <1>4, <1>7, <2>2, BasisParts DEF StoresFile, PutFile, StorageTypeOK, Stored
    <3> QED
      BY <1>2, <1>4, <3>1 DEF HandFile
  <2> QED
    BY <2>1, <2>2
<1>8. CASE Compares(r)
  BY <1>2, <1>4, <1>8 DEF Compares, HandFile, Stored, storage
<1> QED
  BY <1>3, <1>5, <1>6, <1>7, <1>8

\* What a well-behaved client names is there, while nobody works on that movie.
LEMMA SentUrlStored ==
  ASSUME Basis, AttachOnce, NEW in \in Inputs, Sendable(in), in.url \in Keys,
         \A k \in Requests : Waits(k),
         in.op = "update" =>
           Rest(in.id) /\ Undisturbed(in.id) /\ \A q \in Requests : ~Edited(q, in.id)
  PROVE  bucket[in.url] = "stored"
<1>1. CASE FreshUpload(in)
  <2>1. ASSUME NEW q \in Requests, input[q].url = in.url, Settled(q)
        PROVE  FALSE
    <3>1. ~NoEffect(q)
      BY <2>1, BasisParts DEF Settled, NoEffect, HandlersOK
    <3>2. /\ in.op = "update" /\ input[q].op = "update" /\ in.id = input[q].id
          /\ status[q] \in {"none", "500", "lost"}
      BY <1>1, <2>1, <3>1 DEF FreshUpload
    <3>3. pc[q] \in Steps
      BY <2>1, <3>2 DEF Settled, Undisturbed, Failed, Steps, DbSteps
    <3> QED
      BY <3>2, <3>3 DEF Edited, Edits
  <2> QED
    BY <1>1, <2>1 DEF FreshUpload, Waits, Attached, Names, Stored
<1>2. CASE in.op = "update" /\ Live(in.id) /\ movies[in.id].poster = in.url
  BY <1>2 DEF Rest, Stored
<1> QED
  BY <1>1, <1>2 DEF Sendable

LEMMA OwnKept ==
  ASSUME Basis, NEW r \in Requests, Step(r), ~Start(r), HandRow(r), HandKept(r)
  PROVE  HandKept(r)'
<1> DEFINE m == input[r].id
           p == movies[m].poster
<1>1. input'[r] = input[r]
  BY InputsStay, BasisParts
<1>2. CASE input[r].op \notin Edits
  BY <1>1, <1>2 DEF HandKept
<1>3. CASE input[r].op \in Edits
  <2>1. /\ pc[r] \in Steps /\ m \in MovieIds
        /\ \/ Reads(r) \/ RemovesFile(r) \/ StoresFile(r) \/ Compares(r)
           \/ pc'[r] = "done"
    BY <1>3, EditSteps, BasisParts
  <2>2. CASE Reads(r)
    <3>1. UNCHANGED <<movies, bucket>>
      BY <2>2 DEF Reads, storage
    <3>2. Live(m) /\ (pc[r] = "exists" => entity[r].poster = p)
      BY <1>3, <2>1, <2>2 DEF HandRow, Reads
    <3>3. p \in Keys => Stored(p)
      BY <1>3, <2>2, <3>2 DEF Reads, HandKept
    <3>4. input[r].file # "good" /\ input[r].url \in Keys => Stored(input[r].url)
      BY <1>3, <2>2 DEF Reads, HandKept
    <3>5. pc'[r] = "load" /\ entity'[r].poster \in Keys => Stored(entity'[r].poster)
      BY <2>2, <3>2, <3>3, <3>4 DEF Reads, PosterStage
    <3>6. pc'[r] # "write"
      BY <2>2 DEF Reads, PosterStage
    <3> QED
      BY <1>1, <3>1, <3>3, <3>4, <3>5, <3>6 DEF HandKept, Live, Stored
  <2>3. CASE RemovesFile(r)
    <3>1. pc[r] = "delete" /\ pc'[r] \in {"soft", "put", "load"} /\ UNCHANGED movies
      BY <2>3 DEF RemovesFile
    <3>2. ASSUME pc'[r] = "load", entity'[r].poster \in Keys
          PROVE  bucket'[entity'[r].poster] = "stored"
      <4>1. input[r].op = "update" /\ input[r].file # "good"
        BY <2>3, <3>2 DEF RemovesFile
      <4>2. input[r].url # "absent" /\ input[r].url # entity[r].poster
        BY <3>1, <4>1 DEF HandRow, ReplacesPoster, Edits
      <4>3. entity'[r].poster = input[r].url
        BY <2>3, <3>2, <4>1, <4>2 DEF RemovesFile
      <4>4. bucket[input[r].url] = "stored"
        BY <1>3, <3>1, <3>2, <4>1, <4>3 DEF HandKept, Stored
      <4> QED
        BY <2>3, <3>2, <4>2, <4>3, <4>4, BasisParts
        DEF RemovesFile, RemoveFile, StorageTypeOK
    <3> QED
      BY <1>1, <3>1, <3>2 DEF HandKept, Stored
  <2>4. CASE StoresFile(r)
    <3>1. pc'[r] = "load" /\ entity'[r].poster = r /\ bucket'[r] = "stored"
      BY <2>4, BasisParts DEF StoresFile, PutFile, StorageTypeOK, Keys
    <3> QED
      BY <1>1, <3>1 DEF HandKept, Stored
  <2>5. CASE Compares(r)
    BY <1>1, <1>3, <2>5 DEF Compares, HandKept, Stored, storage
  <2>6. CASE pc'[r] = "done"
    BY <1>1, <2>6 DEF HandKept
  <2> QED
    BY <2>1, <2>2, <2>3, <2>4, <2>5, <2>6
<1> QED
  BY <1>2, <1>3

LEMMA StartKept ==
  ASSUME Basis, AttachOnce, NEW r \in Requests, Step(r), Start(r),
         \A k \in Requests : Waits(k),
         Rest(input'[r].id), Undisturbed(input'[r].id),
         \A q \in Requests : ~Edited(q, input'[r].id)
  PROVE  HandKept(r)'
<1> DEFINE in == input'[r]
<1> SUFFICES ASSUME in.op \in Edits PROVE HandKept(r)'
  BY DEF HandKept
<1>1. /\ in \in Inputs /\ Sendable(in) /\ UNCHANGED <<movies, bucket>>
      /\ pc'[r] = FirstStep(in) \/ pc'[r] = "done"
  BY StartSteps, BasisParts
<1>2. pc'[r] \in {"find", "done"}
  BY <1>1 DEF FirstStep, Edits
<1>3. Live(in.id) /\ movies[in.id].poster \in Keys => Stored(movies[in.id].poster)
  BY DEF Rest
<1>4. \A i \in Inputs : Sendable(i) /\ i.url \in Keys
        /\ Rest(i.id) /\ Undisturbed(i.id) /\ (\A q \in Requests : ~Edited(q, i.id))
        => bucket[i.url] = "stored"
  BY SentUrlStored
<1>5. in.url \in Keys => bucket[in.url] = "stored"
  BY <1>1, <1>4
<1> QED
  BY <1>1, <1>2, <1>3, <1>5 DEF HandKept, Live, Stored

-----------------------------------------------------------------------------
(* The file of a request: before it is stored, while its movie is created, *)
(* and when it was uploaded for later.                                     *)

\* A create as it is seen from its memory
LEMMA CreateSteps ==
  ASSUME TypeOK, NEW r \in Requests, Step(r), input[r].op \in Creates
  PROVE  /\ pc[r] \in Steps /\ input[r] \in Inputs /\ input'[r] = input[r]
         /\ \/ /\ pc[r] = "exists" /\ UNCHANGED storage
               /\ pc'[r] = IF input[r].file = "good" THEN "put" ELSE "insert"
               /\ entity'[r].poster = IF input[r].op = "create" THEN input[r].url ELSE ""
            \/ /\ pc[r] = "put" /\ input[r].op = "createWithUpload"
               /\ PutFile(r) /\ UNCHANGED movies
               /\ pc'[r] = "insert" /\ entity'[r].poster = r
            \/ pc'[r] = "done" /\ ~Start(r)
<1>1. StorageTypeOK /\ HandlersOK
  BY TypeParts
<1>2. pc[r] \in Steps /\ ~Start(r)
  BY <1>1, WhoSteps, NoInputFacts DEF HandlersOK, Creates, Start
<1>3. input[r] \in Inputs /\ pc[r] \in StepsOf(input[r].op)
  BY <1>1, <1>2, AtStep
<1>4. input'[r] = input[r]
  BY <1>2, InputsStay
<1>5. pc[r] \in {"exists", "put", "insert"} /\ (pc[r] = "put" => input[r].op = "createWithUpload")
  BY <1>3 DEF StepsOf, Creates
<1>6. CASE ExistsWithTitle(r)
  <2> DEFINE next == IF input[r].file = "good" THEN "put" ELSE "insert"
             e == [title  |-> Trim[input[r].title],
                   poster |-> IF input[r].op = "create" THEN input[r].url ELSE ""]
  <2>1. Finish(r, "409") \/ Continue(r, next, e)
    BY <1>6 DEF ExistsWithTitle, Creates
  <2>2. pc[r] = "exists" /\ UNCHANGED storage
    BY <1>6 DEF ExistsWithTitle
  <2>3. e.poster = IF input[r].op = "create" THEN input[r].url ELSE ""
    OBVIOUS
  <2> HIDE DEF next, e
  <2>4. CASE Finish(r, "409")
    BY <1>1, <1>2, <1>3, <1>4, <2>4, Finished
  <2>5. CASE Continue(r, next, e)
    <3>1. pc'[r] = next /\ entity'[r] = e
      BY <1>1, <2>5, Continued
    <3> QED
      BY <1>2, <1>3, <1>4, <2>2, <2>3, <3>1 DEF next
  <2> QED
    BY <2>1, <2>4, <2>5
<1>7. CASE PutObject(r)
  <2> DEFINE e == [entity[r] EXCEPT !.poster = r]
  <2>1. input[r].op = "createWithUpload" /\ pc[r] = "put"
    BY <1>5, <1>7, OwnCall
  <2>2. e.poster = r
    BY <1>1, <1>2, AtStep DEF Entities
  <2>3. CASE PutFile(r) /\ Continue(r, "insert", e)
    <3>1. pc'[r] = "insert" /\ entity'[r] = e
      BY <1>1, <2>3, Continued
    <3> QED
      BY <1>2, <1>3, <1>4, <1>7, <2>1, <2>2, <2>3, <3>1 DEF PutObject
  <2>4. CASE \E code : Finish(r, code)
    BY <1>1, <1>2, <1>3, <1>4, <2>4, Finished
  <2> QED
    BY <1>7, <2>1, <2>3, <2>4 DEF PutObject
<1>8. CASE Insert(r) \/ DbError(r) \/ Crash(r)
  <2>1. PICK code : Finish(r, code)
    BY <1>8 DEF Insert, DbError, Crash, Acknowledge
  <2> QED
    BY <1>1, <1>2, <1>3, <1>4, <2>1, Finished
<1> QED
  BY <1>2, <1>5, <1>6, <1>7, <1>8, OwnCall DEF Step, Handle

\* A create is done once its row is there: nobody deletes the row of one at work.
LEMMA CreatesAreAlone ==
  ASSUME Basis, NEW q \in Requests, input[q].op \in Creates, pc[q] \in Steps,
         NEW r \in Requests
  PROVE  ~Edited(r, q)
<1> SUFFICES ASSUME Edited(r, q) PROVE FALSE
  OBVIOUS
<1>1. Exists(q) /\ q \in MovieIds
  BY BasisParts DEF NamedRowsExist, Edited, MovieIds
<1>2. status[q] \in Acknowledgements("201")
  BY <1>1, BasisParts DEF CreateAnswersMatchRows, Exists
<1>3. status[q] = "none"
  BY BasisParts, AtStep
<1> QED
  BY <1>2, <1>3 DEF Acknowledgements

LEMMA CreateHand ==
  ASSUME Basis, AttachOnce, NEW r \in Requests, Step(r), \A k \in Requests : Waits(k),
         NEW q \in Requests, HandCreate(q)
  PROVE  HandCreate(q)'
<1>1. CASE q = r /\ Start(r)
  <2> DEFINE in == input'[r]
  <2>1. /\ in \in Inputs /\ Sendable(in) /\ UNCHANGED bucket
        /\ pc'[r] = FirstStep(in) \/ pc'[r] = "done"
    BY <1>1, StartSteps, BasisParts
  <2>2. in.op \in Creates => pc'[r] # "insert"
    BY <2>1 DEF FirstStep, Creates
  <2>3. \A i \in Inputs : Sendable(i) /\ i.url \in Keys /\ i.op \in Creates
          => bucket[i.url] = "stored"
    BY SentUrlStored DEF Creates
  <2> QED
    BY <1>1, <2>1, <2>2, <2>3 DEF HandCreate, Stored
<1>2. CASE q = r /\ ~Start(r)
  <2>1. input'[q] = input[q]
    BY <1>2, InputsStay, BasisParts
  <2>2. CASE input[q].op \notin Creates
    BY <2>1, <2>2 DEF HandCreate
  <2>3. CASE input[q].op \in Creates
    <3>1. /\ pc[q] \in Steps /\ input[q] \in Inputs
          /\ \/ /\ pc[q] = "exists" /\ UNCHANGED storage
                /\ pc'[q] = IF input[q].file = "good" THEN "put" ELSE "insert"
                /\ entity'[q].poster = IF input[q].op = "create" THEN input[q].url ELSE ""
             \/ /\ pc[q] = "put" /\ input[q].op = "createWithUpload"
                /\ PutFile(q) /\ UNCHANGED movies
                /\ pc'[q] = "insert" /\ entity'[q].poster = q
             \/ pc'[q] = "done"
      BY <1>2, <2>3, CreateSteps, BasisParts
    <3>2. CASE /\ pc[q] = "exists" /\ UNCHANGED storage
               /\ pc'[q] = IF input[q].file = "good" THEN "put" ELSE "insert"
               /\ entity'[q].poster = IF input[q].op = "create" THEN input[q].url ELSE ""
      BY <2>1, <3>2, NotKeys DEF HandCreate, Stored, storage
    <3>3. CASE /\ PutFile(q) /\ input[q].op = "createWithUpload"
               /\ pc'[q] = "insert" /\ entity'[q].poster = q
      <4>1. bucket'[q] = "stored"
        BY <3>3, BasisParts DEF PutFile, StorageTypeOK, Keys
      <4> QED
        BY <2>1, <3>3, <4>1 DEF HandCreate, Stored
    <3>4. CASE pc'[q] = "done"
      BY <3>4 DEF HandCreate
    <3> QED
      BY <3>1, <3>2, <3>3, <3>4
  <2> QED
    BY <2>2, <2>3
<1>3. CASE q # r
  <2>1. /\ pc'[q] = pc[q] /\ input'[q] = input[q] /\ entity'[q] = entity[q]
    BY <1>3, HandlerSteps, BasisParts
  <2>2. CASE input[q].op \notin Creates \/ pc[q] \notin Steps
    BY <2>1, <2>2 DEF HandCreate, Steps, DbSteps
  <2>3. CASE input[q].op \in Creates /\ pc[q] \in Steps
    <3>1. ~Edited(r, q) /\ q \in MovieIds
      BY <2>3, CreatesAreAlone DEF MovieIds
    <3>2. Bound(input[q].url, q) /\ Bound(entity[q].poster, q)
      BY <2>3, HandIsBound, BasisParts DEF Target, Creates
    <3>3. \A k \in Keys : Bound(k, q) /\ bucket[k] = "stored" => bucket'[k] = "stored"
      BY <3>1, OthersDeleteNot
    <3> QED
      BY <2>1, <3>2, <3>3 DEF HandCreate, Stored
  <2> QED
    BY <2>2, <2>3
<1> QED
  BY <1>1, <1>2, <1>3

LEMMA StayFresh ==
  ASSUME Basis, NEW r \in Requests, Step(r), NEW k \in Requests, Fresh(k)
  PROVE  Fresh(k)'
<1> DEFINE Early == {"idle", "find", "exists", "delete", "put"}
<1> SUFFICES ASSUME pc'[k] \in Early \/ input'[k].op \notin Uploads \union {"uploadPoster"}
             PROVE  bucket'[k] = "absent"
  BY DEF Fresh
<1>1. k \in Keys
  BY DEF Keys
<1>2. pc[r] = "delete" => entity[r].poster # k \/ bucket[k] # "absent"
  BY <1>1, BasisParts DEF UploadedInv, Uploaded
<1>3. CASE k # r
  <2>1. pc'[k] = pc[k] /\ input'[k] = input[k]
    BY <1>3, HandlerSteps, BasisParts
  <2>2. bucket[k] = "absent"
    BY <2>1 DEF Fresh
  <2> QED
    BY <1>1, <1>2, <1>3, <2>2, ObjectSteps, BasisParts
<1>4. CASE k = r /\ pc[k] # "put"
  <2>1. bucket[k] = "absent"
    <3>1. CASE Start(r)
      BY <1>4, <3>1, OwnCall DEF Fresh
    <3>2. CASE ~Start(r)
      <4>1. input'[k] = input[k]
        BY <1>4, <3>2, InputsStay, BasisParts
      <4>2. CASE input[k].op \in Edits
        BY <1>4, <4>1, <4>2, EditSteps, BasisParts
        DEF Reads, RemovesFile, Compares, StoresFile, Fresh, Edits, Uploads
      <4>3. CASE input[k].op \in Creates
        BY <1>4, <4>1, <4>3, CreateSteps, BasisParts DEF Fresh
      <4>4. CASE input[k].op = "uploadPoster"
        <5>1. pc[k] \in Steps
          BY <1>4, <3>2, WhoSteps
        <5>2. pc[k] \in StepsOf("uploadPoster")
          BY <4>4, <5>1, AtStep, BasisParts
        <5> QED
          BY <1>4, <5>2 DEF StepsOf
      <4>5. pc[k] \in Steps
        BY <1>4, <3>2, WhoSteps
      <4>6. input[k].op \in Creates \union {"uploadPoster", "update", "remove"}
        BY <4>5, AtStep, InputFacts, BasisParts
      <4> QED
        BY <4>2, <4>3, <4>4, <4>6 DEF Edits
    <3> QED
      BY <3>1, <3>2
  <2> QED
    BY <1>1, <1>2, <1>4, <2>1, ObjectSteps, BasisParts
<1>5. CASE k = r /\ pc[k] = "put"
  <2>1. bucket[k] = "absent" /\ ~Start(r)
    BY <1>5, OwnCall DEF Fresh
  <2>2. input'[k] = input[k] /\ pc[k] \in Steps
    BY <1>5, <2>1, InputsStay, WhoSteps, BasisParts
  <2>3. input[k].op \in Uploads \union {"uploadPoster"}
    BY <1>5, <2>2, AtStep, InputFacts, StepsFacts, BasisParts DEF Creates, Uploads
  <2>4. pc'[k] \in {"insert", "load", "done"}
    <3>1. PutObject(k) \/ DbError(k) \/ Crash(k)
      BY <1>5, OwnCall DEF Step, Handle
    <3>2. CASE \E code : Finish(k, code)
      BY <3>2, Finished, BasisParts
    <3>3. CASE \E e : Continue(k, "insert", e) \/ Continue(k, "load", e)
      BY <3>3, Continued, BasisParts
    <3> QED
      BY <2>3, <3>1, <3>2, <3>3 DEF PutObject, DbError, Crash, Uploads
  <2> QED
    BY <2>2, <2>3, <2>4
<1> QED
  BY <1>3, <1>4, <1>5

\* An edit reads the file to delete from a row, and so does not change what it has
\* in hand by then.
LEMMA StayAttached ==
  ASSUME Basis, NEW r \in Requests, Step(r), NEW q \in Requests, HandAttached(q)
  PROVE  HandAttached(q)'
<1> SUFFICES ASSUME NEW k \in Requests,
                    input'[q].op \in Edits, pc'[q] \in {"exists", "delete", "put", "soft"},
                    entity'[q].poster = k, input'[k].op = "uploadPoster"
             PROVE  Attached(k)'
  BY DEF HandAttached
<1>1. k \in Keys /\ (Attached(k) => Attached(k)')
  BY AttachedStays, BasisParts DEF Keys
<1>2. CASE q # r
  <2>1. input'[q] = input[q] /\ pc'[q] = pc[q] /\ entity'[q] = entity[q]
    BY <1>2, HandlerSteps, BasisParts
  <2>2. pc[k] # "idle"
    <3>1. Bound(k, input[q].id) /\ input[q].id \in MovieIds
      <4>1. pc[q] \in Steps /\ input[q] \in Inputs
        BY <2>1, AtStep, BasisParts DEF Steps, DbSteps
      <4> QED
        BY <2>1, <4>1, HandIsBound, InputFacts, BasisParts DEF Edits
    <3> QED
      BY <3>1, BasisParts DEF IdleHoldNothing
  <2>3. input'[k] = input[k]
    BY <2>2, HandlerSteps, BasisParts
  <2> QED
    BY <1>1, <2>1, <2>3 DEF HandAttached
<1>3. CASE q = r /\ Start(r)
  <2>1. pc'[r] \in {"find", "done"}
    BY <1>3, StartSteps, InputFacts, BasisParts DEF FirstStep, Edits, Creates
  <2> QED
    BY <1>3, <2>1
<1>4. CASE q = r /\ ~Start(r)
  <2>1. \A p \in Requests : input'[p] = input[p]
    BY <1>4, InputsStay, BasisParts
  <2>2. /\ input[r].id \in MovieIds
        /\ Reads(r) \/ RemovesFile(r) \/ StoresFile(r) \/ Compares(r)
    BY <1>4, <2>1, EditSteps, BasisParts
  <2>3. \/ pc[r] = "find" /\ entity'[r].poster = movies[input[r].id].poster
        \/ pc[r] \in {"exists", "delete"} /\ entity'[r].poster = entity[r].poster
    BY <1>4, <2>2 DEF Reads, PosterStage, RemovesFile, StoresFile, Compares
  <2> QED
    BY <1>1, <1>4, <2>1, <2>2, <2>3, BasisParts DEF HandAttached, UploadsAreNamed
<1> QED
  BY <1>2, <1>3, <1>4

LEMMA StayWaiting ==
  ASSUME Basis, NEW r \in Requests, Step(r), HandAttached(r), NEW k \in Requests, Waits(k)
  PROVE  Waits(k)'
<1> SUFFICES ASSUME input'[k].op = "uploadPoster", status'[k] = "201", ~Attached(k)'
             PROVE  bucket'[k] = "stored"
  BY DEF Waits, Stored
<1>1. k \in Keys /\ ~Attached(k)
  BY AttachedStays, BasisParts DEF Keys
<1>2. CASE status[k] = "201" /\ k # r
  <2>1. input'[k] = input[k]
    BY <1>2, HandlerSteps, BasisParts
  <2>2. ~(pc[r] = "delete" /\ input[r].op \in Edits /\ entity[r].poster = k)
    BY <1>1, <2>1 DEF HandAttached
  <2>3. bucket[k] = "stored"
    BY <1>1, <1>2, <2>1 DEF Waits, Stored
  <2> QED
    BY <1>1, <1>2, <2>2, <2>3, ObjectSteps, BasisParts DEF Edited
<1>3. CASE status[k] # "201" /\ k = r
  <2>1. ~Start(r) => input'[k] = input[k]
    BY <1>3, InputsStay, BasisParts
  <2>2. ~Start(r)
    BY <1>3, StartSteps, BasisParts
  <2>3. pc[r] \in Steps /\ pc[r] \in StepsOf(input[r].op)
    BY <2>2, WhoSteps, AtStep, BasisParts
  <2>4. PutFile(r)
    BY <1>3, <2>1, <2>2, <2>3, Created, BasisParts DEF Inserts, Creates
  <2> QED
    BY <1>1, <1>3, <2>4, BasisParts DEF PutFile, StorageTypeOK
<1>4. CASE status[k] = "201" /\ k = r
  <2>1. pc[k] = "done"
    BY <1>4, BasisParts DEF HandlersOK
  <2>2. pc[k] \in Steps \/ pc[k] = "idle"
    BY <1>4, WhoSteps
  <2> QED
    BY <2>1, <2>2 DEF Steps, DbSteps
<1>5. CASE status[k] # "201" /\ k # r
  BY <1>5, HandlerSteps, BasisParts
<1> QED
  BY <1>2, <1>3, <1>4, <1>5

-----------------------------------------------------------------------------
(* The files of the live and of the deleted movies.                        *)

LEMMA AtPut ==
  ASSUME TypeOK, NEW r \in Requests, Step(r), pc[r] = "put"
  PROVE  /\ UNCHANGED movies /\ input'[r] = input[r]
         /\ \/ input[r].op = "uploadPoster" /\ pc'[r] = "done"
            \/ /\ input[r].op \in Uploads /\ PutFile(r)
               /\ pc'[r] = IF input[r].op = "update" THEN "load" ELSE "insert"
               /\ entity'[r].poster = r
            \/ pc'[r] = "done" /\ Failed(r)'
<1>1. HandlersOK
  BY TypeParts
<1>2. pc[r] \in Steps /\ input[r].op \in Uploads \union {"uploadPoster"}
  <2>1. pc[r] \in Steps
    BY DEF Steps, DbSteps
  <2> QED
    BY <1>1, <2>1, AtStep, InputFacts, StepsFacts DEF Creates, Uploads
<1>3. PutObject(r) \/ DbError(r) \/ Crash(r)
  BY OwnCall DEF Step, Handle
<1>4. UNCHANGED movies
  BY <1>3 DEF PutObject, DbError, Crash, storage
<1>5. CASE DbError(r) \/ Crash(r)
  BY <1>1, <1>4, <1>5, Finished DEF DbError, Crash, Failed
<1>6. CASE PutObject(r)
  <2> DEFINE e == [entity[r] EXCEPT !.poster = r]
  <2>1. e.poster = r
    BY <1>1, <1>2, AtStep DEF Entities
  <2>2. CASE Finish(r, "500") \/ Finish(r, "lost")
    BY <1>1, <1>4, <2>2, Finished DEF Failed
  <2>3. CASE PutFile(r) /\ input[r].op = "uploadPoster" /\ Finish(r, "201")
    BY <1>1, <1>4, <2>3, Finished
  <2>4. CASE PutFile(r) /\ input[r].op = "createWithUpload" /\ Continue(r, "insert", e)
    <3>1. pc'[r] = "insert" /\ entity'[r] = e /\ input' = input
      BY <1>1, <2>4, Continued
    <3> QED
      BY <1>4, <2>1, <2>4, <3>1 DEF Uploads
  <2>5. CASE PutFile(r) /\ input[r].op = "update" /\ Continue(r, "load", e)
    <3>1. pc'[r] = "load" /\ entity'[r] = e /\ input' = input
      BY <1>1, <2>5, Continued
    <3> QED
      BY <1>4, <2>1, <2>5, <3>1 DEF Uploads
  <2> QED
    BY <1>2, <1>6, <2>2, <2>3, <2>4, <2>5 DEF PutObject, Uploads
<1> QED
  BY <1>3, <1>5, <1>6

LEMMA AtDelete ==
  ASSUME TypeOK, NEW r \in Requests, Step(r), pc[r] = "delete"
  PROVE  /\ input[r].op \in Edits /\ input'[r] = input[r]
         /\ \/ RemovesFile(r)
            \/ pc'[r] = "done" /\ UNCHANGED storage /\ Failed(r)'
<1>1. HandlersOK
  BY TypeParts
<1>2. pc[r] \in Steps /\ input[r].op \in Edits
  <2>1. pc[r] \in Steps
    BY DEF Steps, DbSteps
  <2> QED
    BY <1>1, <2>1, AtStep, InputFacts, StepsFacts DEF Edits
<1>3. DeleteOldPoster(r) \/ DbError(r) \/ Crash(r)
  BY OwnCall DEF Step, Handle
<1>4. CASE DbError(r) \/ Crash(r)
  BY <1>1, <1>2, <1>4, Finished DEF DbError, Crash, Failed
<1>5. CASE DeleteOldPoster(r)
  <2>1. pc'[r] # "done"
    BY <1>1, <1>5, Continued DEF DeleteOldPoster
  <2> QED
    BY <1>2, <2>1, EditSteps DEF Reads, StoresFile, Compares
<1> QED
  BY <1>3, <1>4, <1>5

LEMMA StayAtRest ==
  ASSUME Basis, NEW r \in Requests, Step(r), HandCreate(r), NEW m \in MovieIds, Rest(m),
         Edited(r, m) => HandRow(r) /\ HandKept(r) /\ ~Failed(r)'
  PROVE  Rest(m)'
<1> DEFINE p == movies[m].poster
           Busy == {"put", "load", "write", "soft"}
<1> SUFFICES ASSUME movies'[m].state = "live", movies'[m].poster \in Keys,
                    bucket'[movies'[m].poster] # "stored"
             PROVE  \E q \in Requests : Edited(q, m)' /\ pc'[q] \in Busy
  BY DEF Rest, Live, Stored
<1>1. CASE movies'[m] = movies[m] /\ bucket[p] = "stored"
  <2>1. /\ pc[r] = "delete" /\ input[r].id \in MovieIds /\ Edited(r, input[r].id)
        /\ Bound(p, input[r].id)
    BY <1>1, ObjectSteps, BasisParts
  <2>2. Edited(r, m)
    BY <1>1, <2>1, BasisParts DEF BoundOnce, Bound
  <2>3. RemovesFile(r) /\ input'[r] = input[r]
    BY <2>1, <2>2, AtDelete, BasisParts
  <2>4. pc'[r] \in Busy
    BY <2>3 DEF RemovesFile
  <2> QED
    BY <2>2, <2>3, <2>4 DEF Edited, Steps, DbSteps
<1>2. CASE movies'[m] = movies[m] /\ bucket[p] # "stored"
  <2>1. PICK q \in Requests : Edited(q, m) /\ pc[q] \in Busy
    BY <1>2 DEF Rest, Live, Stored
  <2>2. CASE q # r
    <3>1. pc'[q] = pc[q] /\ input'[q] = input[q]
      BY <2>2, HandlerSteps, BasisParts
    <3> QED
      BY <2>1, <3>1 DEF Edited
  <2>3. CASE q = r
    <3>1. HandRow(r) /\ HandKept(r) /\ ~Failed(r)' /\ input[r].op \in Edits /\ input[r].id = m
      BY <2>1, <2>3 DEF Edited
    <3>2. CASE pc[r] = "put"
      <4>1. pc'[r] \in {"load", "insert"} /\ input'[r] = input[r]
        BY <3>1, <3>2, AtPut, BasisParts DEF Edits
      <4>2. pc'[r] = "load"
        <5>1. pc[r] \in Steps /\ pc[r] \in StepsOf(input[r].op)
          BY <2>1, <2>3, AtStep, BasisParts DEF Edited
        <5>2. input[r].op = "update"
          BY <3>1, <3>2, <5>1 DEF StepsOf, Edits
        <5> QED
          BY <3>1, <3>2, <4>1, <5>2, AtPut, BasisParts
      <4> QED
        BY <3>1, <4>1, <4>2 DEF Edited, Steps, DbSteps
    <3>3. CASE pc[r] = "load"
      <4>1. entity[r].poster # p
        BY <1>2, <3>1, <3>3 DEF HandKept, Stored
      <4>2. ChangedColumns(m, entity[r]) # {}
        BY <4>1 DEF ChangedColumns
      <4>3. Compares(r) /\ input'[r] = input[r]
        BY <3>1, <3>3, <4>2, AtLoad, BasisParts
      <4> QED
        BY <3>1, <4>3 DEF Compares, Edited, Steps, DbSteps
    <3>4. CASE pc[r] = "write"
      <4>1. movies'[m].poster = entity[r].poster /\ UNCHANGED bucket
        BY <3>1, <3>4, AtWrite, BasisParts
      <4> QED
        BY <1>2, <3>1, <3>4, <4>1 DEF HandKept, Stored
    <3>5. CASE pc[r] = "soft"
      BY <3>1, <3>5, AtSoft, BasisParts DEF StorageTypeOK, Rows
    <3> QED
      BY <2>1, <2>3, <3>2, <3>3, <3>4, <3>5
  <2> QED
    BY <2>2, <2>3
<1>3. CASE movies'[m] # movies[m]
  <2>1. CASE pc[r] = "insert"
    <3>1. movies'[m].poster = entity[r].poster /\ UNCHANGED bucket /\ input[r].op \in Creates
      BY <1>3, <2>1, AtInsert, BasisParts
    <3> QED
      BY <2>1, <3>1 DEF HandCreate, Stored
  <2>2. CASE pc[r] = "write" /\ Updates(r)
    <3>1. input[r].id = m
      BY <1>3, <2>2, BasisParts DEF Updates, StoreRow, StorageTypeOK
    <3>2. Edited(r, m)
      BY <2>2, <3>1 DEF Updates, Edited, Edits, Steps, DbSteps
    <3>3. movies'[m].poster = entity[r].poster /\ UNCHANGED bucket /\ input[r].op \in Edits
      BY <1>3, <2>2, <3>1, <3>2, AtWrite, BasisParts DEF Edits
    <3> QED
      BY <2>2, <3>2, <3>3 DEF HandKept, Stored
  <2>3. CASE pc[r] = "soft"
    BY <1>3, <2>3, AtSoft, BasisParts DEF StorageTypeOK, Rows
  <2> QED
    BY <1>3, <2>1, <2>2, <2>3, TableSteps, BasisParts DEF Inserts, Updates, Deletes
<1> QED
  BY <1>1, <1>2, <1>3

\* A row that is there changes by a PATCH that writes what it had in hand, or by
\* a DELETE.
LEMMA RowSteps ==
  ASSUME TypeOK, CreateAnswersMatchRows, NEW r \in Requests, Step(r),
         NEW m \in MovieIds, Exists(m), movies'[m] # movies[m], Edited(r, m) => HandRow(r)
  PROVE  /\ Edited(r, m) /\ pc'[r] = "done" /\ UNCHANGED bucket
         /\ \/ /\ pc[r] = "write" /\ input[r].op = "update"
               /\ movies'[m].state = "live" /\ movies'[m].title = entity[r].title
               /\ movies'[m].poster = entity[r].poster
            \/ /\ pc[r] = "soft" /\ input[r].op = "remove"
               /\ movies'[m] = [movies[m] EXCEPT !.state = "deleted"]
<1>1. Edited(r, m)
  BY RowsOfOthers
<1>2. Updates(r) \/ Deletes(r)
  BY <1>1, TableSteps DEF Inserts, Edited, Edits, Creates
<1>3. CASE pc[r] = "write"
  BY <1>1, <1>3, AtWrite DEF Edited
<1>4. CASE pc[r] = "soft"
  BY <1>1, <1>4, AtSoft DEF Edited
<1> QED
  BY <1>2, <1>3, <1>4 DEF Updates, Deletes

\* A file stays with its movie until it is deleted.
LEMMA StayHeld ==
  ASSUME Basis, NEW r \in Requests, Step(r), NEW k \in Keys, Stored(k), Held(k),
         k = r => ~Failed(r)',
         \A m \in MovieIds : Edited(r, m) /\ Bound(k, m) => HandRow(r) /\ HandFile(r)
  PROVE  Held(k)'
<1>1. ASSUME NEW m \in MovieIds, Live(m), movies[m].poster = k
      PROVE  \E n \in MovieIds : movies'[n].state = "live" /\ movies'[n].poster = k
  <2>1. Bound(k, m) /\ Exists(m)
    BY <1>1 DEF Bound, Exists, Live
  <2>2. CASE movies'[m] = movies[m]
    BY <1>1, <2>2 DEF Live
  <2>3. CASE movies'[m] # movies[m]
    <3>1. Edited(r, m) => HandRow(r)
      BY <2>1
    <3>2. /\ Edited(r, m)
          /\ \/ /\ pc[r] = "write" /\ movies'[m].state = "live"
                /\ movies'[m].poster = entity[r].poster
             \/ pc[r] = "soft"
      BY <2>1, <2>3, <3>1, RowSteps, BasisParts
    <3>3. pc[r] = "write" /\ entity[r].poster = k
      BY <1>1, <2>1, <3>2 DEF HandFile, Edited
    <3> QED
      BY <3>2, <3>3
  <2> QED
    BY <2>2, <2>3
<1>2. CASE k \in Requests /\ pc[k] \in {"load", "write", "insert"} /\ entity[k].poster = k
  <2>1. CASE k # r
    <3>1. pc'[k] = pc[k] /\ entity'[k] = entity[k]
      BY <1>2, <2>1, HandlerSteps, BasisParts
    <3> QED
      BY <1>2, <3>1 DEF Held
  <2>2. CASE k = r /\ pc[r] = "insert"
    <3>1. r \in MovieIds /\ movies'[r].state = "live" /\ movies'[r].poster = k
      BY <1>2, <2>2, AtInsert, BasisParts DEF MovieIds
    <3> QED
      BY <3>1 DEF Held, Live
  <2>3. CASE k = r /\ pc[r] \in {"load", "write"}
    <3> DEFINE m == input[r].id
    <3>1. pc[r] \in Steps /\ input[r] \in Inputs /\ pc[r] \in StepsOf(input[r].op)
      BY <2>3, AtStep, BasisParts DEF Steps, DbSteps
    <3>2. input[r].op = "update" /\ m \in MovieIds
      BY <2>3, <3>1, InputFacts, StepsFacts
    <3>3. Edited(r, m) /\ Bound(k, m)
      BY <1>2, <2>3, <3>1, <3>2 DEF Edited, Edits, Bound, Claims, Target
    <3>4. HandRow(r) /\ Live(m)
      BY <2>3, <3>1, <3>2, <3>3 DEF HandRow, Edits
    <3>5. CASE pc[r] = "load"
      <4>1. CASE Compares(r)
        BY <1>2, <2>3, <4>1 DEF Compares, Held
      <4>2. CASE ChangedColumns(m, entity[r]) = {}
        <5>1. movies[m].poster = k
          BY <1>2, <2>3, <4>2 DEF ChangedColumns
        <5>2. UNCHANGED movies
          BY <3>5, AtLoad, BasisParts DEF storage
        <5> QED
          BY <3>2, <3>4, <5>1, <5>2 DEF Held, Live
      <4> QED
        BY <2>3, <3>5, <4>1, <4>2, AtLoad, BasisParts
    <3>6. CASE pc[r] = "write"
      <4>1. movies'[m].state = "live" /\ movies'[m].poster = entity[r].poster
        BY <2>3, <3>4, <3>6, AtWrite, BasisParts
      <4> QED
        BY <1>2, <2>3, <3>2, <4>1 DEF Held, Live
    <3> QED
      BY <2>3, <3>5, <3>6
  <2> QED
    BY <1>2, <2>1, <2>2, <2>3
<1> QED
  BY <1>1, <1>2 DEF Held, Live

\* A file that is stored is about to be used, waits for its movie, or is left
\* behind by a failure.
LEMMA NewlyStored ==
  ASSUME Basis, NEW r \in Requests, Step(r), NEW k \in Keys,
         ~Stored(k), bucket'[k] = "stored"
  PROVE  /\ k = r /\ pc[r] = "put" /\ input'[r] = input[r]
         /\ Held(k)' \/ Failed(r)' \/ input[r].op = "uploadPoster"
<1>1. k = r /\ pc[r] = "put"
  BY ObjectSteps, BasisParts DEF Stored
<1>2. input'[r] = input[r]
  BY <1>1, AtPut, BasisParts
<1>3. pc'[r] \in {"load", "insert"} /\ entity'[r].poster = r => Held(k)'
  BY <1>1 DEF Held
<1> QED
  BY <1>1, <1>2, <1>3, AtPut, BasisParts

LEMMA StayEmptied ==
  ASSUME Basis, NEW r \in Requests, Step(r), Fresh(r), NEW m \in MovieIds, Emptied(m),
         Edited(r, m) => HandRow(r) /\ HandFile(r)
  PROVE  Emptied(m)'
<1> DEFINE p == movies[m].poster
<1> SUFFICES ASSUME movies'[m].state = "deleted", movies'[m].poster \in Keys,
                    bucket'[movies'[m].poster] = "stored"
             PROVE  FALSE
  BY DEF Emptied, Stored
<1>1. CASE movies'[m] = movies[m]
  <2>1. bucket[p] # "absent" /\ bucket[p] # "stored"
    BY <1>1, BasisParts DEF Emptied, Stored, UploadedInv, Uploaded
  <2> QED
    BY <1>1, <2>1, NothingReturns
<1>2. CASE movies'[m] # movies[m] /\ Exists(m)
  <2>1. Edited(r, m) => HandRow(r)
    OBVIOUS
  <2>2. /\ Edited(r, m) /\ UNCHANGED bucket /\ pc[r] = "soft"
        /\ movies'[m] = [movies[m] EXCEPT !.state = "deleted"]
    BY <1>2, <2>1, RowSteps, BasisParts
  <2>3. movies'[m].poster = p
    BY <2>2, BasisParts DEF StorageTypeOK, Rows
  <2> QED
    BY <2>2, <2>3 DEF HandFile, Edited, Stored
<1>3. CASE movies'[m] # movies[m] /\ ~Exists(m)
  <2>1. CASE pc[r] = "insert"
    BY <1>3, <2>1, AtInsert, BasisParts
  <2>2. CASE Updates(r) \/ Deletes(r)
    BY <1>3, <2>2, BasisParts
    DEF Updates, Deletes, StoreRow, MarkDeleted, StorageTypeOK, NamedRowsExist
  <2> QED
    BY <1>3, <2>1, <2>2, TableSteps, BasisParts DEF Inserts
<1> QED
  BY <1>1, <1>2, <1>3

-----------------------------------------------------------------------------
(* Uploads that nobody has attached.                                       *)

\* A check that ends a request refuses it.
LEMMA Refused ==
  ASSUME TypeOK, NEW r \in Requests, Step(r), pc[r] \in {"find", "exists", "delete"},
         pc'[r] = "done"
  PROVE  status'[r] \notin {"200", "201"}
<1>1. HandlersOK
  BY TypeParts
<1>2. ASSUME NEW step, NEW e, Continue(r, step, e), step # "done"
      PROVE  FALSE
  BY <1>1, <1>2, Continued
<1>3. CASE \E code \in {"404", "409", "500", "lost"} : Finish(r, code)
  BY <1>1, <1>3, Finished
<1>4. ASSUME NEW e, ToPoster(r, input[r], e) PROVE FALSE
  BY <1>2, <1>4 DEF ToPoster
<1>5. CASE FindById(r) \/ ExistsWithTitle(r) \/ DeleteOldPoster(r)
  BY <1>2, <1>3, <1>4, <1>5 DEF FindById, ExistsWithTitle, DeleteOldPoster
<1>6. CASE DbError(r) \/ Crash(r)
  BY <1>3, <1>6 DEF DbError, Crash
<1> QED
  BY <1>5, <1>6, OwnCall DEF Step, Handle

LEMMA UrlFacts ==
  ASSUME NEW in \in Inputs, in.url \in Keys
  PROVE  in.op \in {"create", "update"}
BY InputsAssumption, NotKeys DEF InputRecords

\* A request that gives a URL to its movie, and ends well, leaves it in the row.
LEMMA AttachedIsHeld ==
  ASSUME Basis, NEW r \in Requests, Step(r), ~Start(r), HandRow(r), HandCreate(r),
         NEW k \in Keys, Names(r, k), status'[r] \in {"200", "201"}
  PROVE  Held(k)'
<1> DEFINE m == input[r].id
<1>1. /\ pc[r] \in Steps /\ input[r] \in Inputs
      /\ pc[r] \in StepsOf(input[r].op)
  BY WhoSteps, AtStep, BasisParts
<1>2. input[r].op \in {"create", "update"} /\ input[r].url = k /\ input[r].file # "good"
  BY <1>1, UrlFacts DEF Names
<1>3. pc'[r] = "done" /\ ~Failed(r)'
  <2>1. HandlersOK'
    BY TypeNext, TypeParts, BasisParts DEF Next, HandlersOK, TypeOK, Entities
  <2> QED
    BY <2>1 DEF HandlersOK, Failed
<1>4. pc[r] \in {"put", "insert", "load", "write"}
  BY <1>1, <1>2, <1>3, Refused, BasisParts DEF StepsOf
<1>5. CASE pc[r] = "put"
  BY <1>2, <1>3, <1>5, AtPut, BasisParts DEF HandRow, Edits, Uploads
<1>6. CASE pc[r] = "insert"
  <2>1. entity[r].poster = k
    BY <1>1, <1>2, <1>6, AtInsert, BasisParts DEF HandCreate, Creates
  <2> QED
    BY <1>3, <1>6, <2>1, AtInsert, BasisParts DEF Held, Live, MovieIds
<1>7. CASE pc[r] \in {"load", "write"}
  <2>1. input[r].op = "update" /\ m \in MovieIds
    BY <1>1, <1>2, <1>7, InputFacts DEF StepsOf
  <2>2. entity[r].poster = k /\ Live(m)
    BY <1>1, <1>2, <1>7, <2>1, NotKeys DEF HandRow, Edits, NewPosterOf
  <2>3. CASE pc[r] = "load"
    <3>1. UNCHANGED movies /\ ChangedColumns(m, entity[r]) = {}
      BY <1>3, <2>3, AtLoad, BasisParts DEF Compares, storage
    <3>2. movies[m].poster = k
      BY <2>2, <3>1 DEF ChangedColumns
    <3> QED
      BY <2>1, <2>2, <3>1, <3>2 DEF Held, Live
  <2>4. CASE pc[r] = "write"
    <3>1. movies'[m].state = "live" /\ movies'[m].poster = k
      BY <1>3, <2>2, <2>4, AtWrite, BasisParts
    <3> QED
      BY <2>1, <3>1 DEF Held, Live
  <2> QED
    BY <1>7, <2>3, <2>4
<1> QED
  BY <1>4, <1>5, <1>6, <1>7

LEMMA StayUnattached ==
  ASSUME Basis, NEW r \in Requests, Step(r), HandRow(r), HandCreate(r),
         NEW k \in Requests, Unattached(k), ~Held(k)'
  PROVE  Unattached(k)'
<1>1. input'[k] = input[k] /\ k \in Keys
  <2>1. pc[k] # "idle"
    BY NoInputFacts, BasisParts DEF Unattached, HandlersOK
  <2> QED
    BY <2>1, HandlerSteps, BasisParts DEF Keys
<1>2. ASSUME NEW q \in Requests, input'[q].url = k, input'[q].file # "good"
      PROVE  status'[q] \notin {"200", "201"}
  <2>1. CASE q # r
    BY <1>2, <2>1, HandlerSteps, BasisParts DEF Unattached
  <2>2. CASE q = r /\ Start(r)
    BY <2>2, StartSteps, BasisParts
  <2>3. CASE q = r /\ ~Start(r)
    <3>1. Names(r, k)
      BY <1>2, <2>3, InputsStay, BasisParts DEF Names
    <3> QED
      BY <1>1, <2>3, <3>1, AttachedIsHeld
  <2> QED
    BY <2>1, <2>2, <2>3
<1> QED
  BY <1>1, <1>2 DEF Unattached

\* Nobody has named a file before it is stored.
LEMMA UploadUnnamed ==
  ASSUME Basis, NEW r \in Requests, Step(r), pc[r] = "put", Fresh(r)
  PROVE  \A q \in Requests : input'[q] = input[q] /\ input[q].url # r
<1>1. bucket[r] = "absent" /\ r \in Keys
  BY DEF Fresh, Keys
<1>2. \A q \in Requests : input[q].url # r
  BY <1>1, BasisParts DEF UploadedInv, Uploaded
<1>3. \A q \in Requests : input'[q] = input[q]
  BY InputsStay, OwnCall, BasisParts
<1> QED
  BY <1>2, <1>3

LEMMA UploadUnattached ==
  ASSUME Basis, NEW r \in Requests, Step(r), pc[r] = "put", Fresh(r),
         input[r].op = "uploadPoster"
  PROVE  Unattached(r)'
BY UploadUnnamed DEF Unattached

-----------------------------------------------------------------------------
(* One request at a time.                                                  *)

LEMMA AloneInit == Init => AloneInv
<1> SUFFICES ASSUME Init PROVE AloneInv
  OBVIOUS
<1>1. \A r \in Requests : pc[r] = "idle" /\ input[r] = NoInput
  BY DEF Init
<1>2. AtMostOne
  BY <1>1 DEF AtMostOne, Steps, DbSteps
<1>3. \A r \in Requests : HandRow(r)
  BY <1>1, NoInputFacts DEF HandRow, Edits
<1> QED
  BY <1>2, <1>3 DEF AloneInv

\* A request is let in when none is at work.
LEMMA StartsAlone ==
  ASSUME Concurrency = 1, AtMostOne, NEW r \in Requests, Start(r)
  PROVE  InFlight = {}
<1> SUFFICES ASSUME NEW q \in InFlight PROVE FALSE
  OBVIOUS
<1>1. InFlight = {q}
  BY DEF AtMostOne, InFlight
<1>2. Cardinality(InFlight) = 1
  BY <1>1, FS_Singleton
<1>3. Cardinality(InFlight) < 1
  BY DEF Start
<1> QED
  BY <1>2, <1>3

\* So of a step and another request at work, there is only one.
LEMMA StepsAlone ==
  ASSUME Concurrency = 1, AtMostOne, NEW r \in Requests, Step(r),
         NEW q \in Requests, q # r
  PROVE  pc[q] \notin Steps
BY StartsAlone, WhoSteps DEF AtMostOne, InFlight

LEMMA AloneNext ==
  ASSUME Concurrency = 1
  PROVE  /\ TypeOK /\ NamedRowsExist /\ CreateAnswersMatchRows /\ AloneInv /\ [Next]_vars
         => AloneInv'
<1> SUFFICES ASSUME TypeOK, NamedRowsExist, CreateAnswersMatchRows, AloneInv, [Next]_vars
             PROVE  AloneInv'
  OBVIOUS
<1>1. CASE UNCHANGED vars
  BY <1>1
  DEF AloneInv, AtMostOne, HandRow, vars, storage, Live, NewTitle, NewPosterOf,
      ReplacesPoster, ChangedColumns
<1>2. ASSUME NEW r \in Requests, Step(r)
      PROVE  AloneInv'
  <2>1. \A q \in Requests \ {r} : pc[q] \notin Steps /\ pc'[q] = pc[q]
    BY <1>2, StepsAlone, HandlerSteps DEF AloneInv
  <2>2. AtMostOne'
    BY <2>1 DEF AtMostOne
  <2>3. ASSUME NEW q \in Requests, q # r PROVE HandRow(q)'
    <3>1. pc'[q] \notin Steps
      BY <2>1, <2>3
    <3> QED
      BY <3>1 DEF HandRow, Steps, DbSteps
  <2>4. HandRow(r)'
    BY <1>2, OwnRow DEF AloneInv
  <2> QED
    BY <2>2, <2>3, <2>4 DEF AloneInv
<1> QED
  BY <1>1, <1>2 DEF Next, AllDone

LEMMA NamedRowsHold == Spec => []NamedRowsExist
<1>1. RowsInv => NamedRowsExist
  BY DEF RowsInv
<1> QED
  BY <1>1, TypeCorrect, RowsInit, RowsNext, PTL DEF Spec

\* With one request at a time, what a PATCH or a DELETE has in memory is the row as it
\* is, up to what the request has changed in it.
THEOREM HandlersAreAlone ==
  ASSUME Concurrency = 1
  PROVE  Spec => []AloneInv
<1>1. /\ TypeOK /\ NamedRowsExist /\ CreateAnswersMatchRows /\ AloneInv /\ [Next]_vars
      => AloneInv'
  BY AloneNext
<1> QED
  BY <1>1, NamedRowsHold, TypeCorrect, CreatesAnsweredTruly, AloneInit, PTL DEF Spec

\* With one request at a time, a PATCH writes what it names and nothing else, never
\* revives a deleted movie, and only a DELETE deletes one: the row that save() reads
\* again is the row its handler read.
THEOREM PatchesWriteWhatTheyName ==
  ASSUME Concurrency = 1
  PROVE  Spec => PatchWritesOnlyWhatItNames
<1> DEFINE
      Named(m) ==
        /\ movies'[m].title # movies[m].title =>
             \E r \in Requests :
               /\ pc[r] # "done" /\ pc'[r] = "done"
               /\ input[r].op = "update" /\ input[r].id = m
               /\ input[r].title # "none"
               /\ movies'[m].title = Trim[input[r].title]
        /\ movies'[m].poster # movies[m].poster =>
             \E r \in Requests :
               /\ pc[r] # "done" /\ pc'[r] = "done"
               /\ input[r].op = "update" /\ input[r].id = m
               /\ movies'[m].poster =
                    IF input[r].file = "good" THEN r ELSE input[r].url
        /\ movies'[m].state # movies[m].state =>
             /\ Live(m)
             /\ \E r \in Requests : input[r].op = "remove" /\ input[r].id = m
      A == \A m \in MovieIds : Live(m) \/ movies[m].state = "deleted" => Named(m)
<1>1. TypeOK /\ CreateAnswersMatchRows /\ AloneInv /\ [Next]_vars => A
  <2> SUFFICES ASSUME TypeOK, CreateAnswersMatchRows, AloneInv, [Next]_vars,
                      NEW m \in MovieIds, Live(m) \/ movies[m].state = "deleted"
               PROVE  Named(m)
    OBVIOUS
  <2>1. CASE movies'[m] = movies[m]
    BY <2>1
  <2>2. CASE movies'[m] # movies[m]
    <3>1. PICK r \in Requests : Step(r)
      BY <2>2 DEF Next, AllDone, vars, storage
    <3>2. HandRow(r) /\ Exists(m)
      BY DEF AloneInv, Live, Exists
    <3>3. /\ Edited(r, m) /\ pc'[r] = "done"
          /\ \/ /\ pc[r] = "write" /\ input[r].op = "update"
                /\ movies'[m].state = "live" /\ movies'[m].title = entity[r].title
                /\ movies'[m].poster = entity[r].poster
             \/ /\ pc[r] = "soft" /\ input[r].op = "remove"
                /\ movies'[m] = [movies[m] EXCEPT !.state = "deleted"]
      BY <2>2, <3>1, <3>2, RowSteps
    <3>4. input[r].id = m /\ input[r].op \in Edits /\ Live(m)
      BY <3>2, <3>3 DEF Edited, HandRow, Steps, DbSteps
    <3>5. CASE pc[r] = "write"
      <4>1. NewTitle(r) /\ entity[r].poster = NewPosterOf(r)
        BY <3>2, <3>3, <3>4, <3>5 DEF HandRow
      <4> QED
        BY <3>3, <3>4, <3>5, <4>1 DEF NewTitle, NewPosterOf, Live
    <3>6. CASE pc[r] = "soft"
      <4>1. movies'[m].title = movies[m].title /\ movies'[m].poster = movies[m].poster
        BY <3>3, <3>6, TypeParts DEF StorageTypeOK, Rows
      <4> QED
        BY <3>3, <3>4, <3>6, <4>1
    <3> QED
      BY <3>3, <3>5, <3>6
  <2> QED
    BY <2>1, <2>2
<1> QED
  BY <1>1, TypeCorrect, CreatesAnsweredTruly, HandlersAreAlone, PTL
  DEF Spec, PatchWritesOnlyWhatItNames

-----------------------------------------------------------------------------
(* One request at a time, about posters attached once: the files.          *)

LEMMA BasisHolds == ASSUME AttachOnce PROVE Spec => []Basis
<1>1. TypeOK /\ RowsInv /\ CreateAnswersMatchRows /\ UploadedInv /\ BoundInv => Basis
  BY DEF Basis
<1> QED
  BY <1>1, TypeCorrect, RowsInit, RowsNext, CreatesAnsweredTruly, UploadedInit, UploadedNext,
     ObjectsAreBoundOnce, PTL DEF Spec

\* A movie that is undisturbed has been so all along.
LEMMA BlameStays ==
  ASSUME TypeOK, NEW r \in Requests, Step(r), NEW m \in MovieIds, Undisturbed(m)'
  PROVE  /\ Undisturbed(m)
         /\ Edited(r, m) => ~Failed(r)'
<1>1. HandlersOK
  BY TypeParts
<1>2. ASSUME NEW q \in Requests, input[q].id = m, Failed(q)
      PROVE  FALSE
  <2>1. pc[q] = "done"
    BY <1>1, <1>2 DEF Failed, HandlersOK
  <2>2. q # r
    <3>1. "done" \notin Steps \union {"idle"}
      BY DEF Steps, DbSteps
    <3> QED
      BY <2>1, <3>1, WhoSteps
  <2>3. input'[q] = input[q] /\ status'[q] = status[q]
    BY <2>2, HandlerSteps
  <2> QED
    BY <1>2, <2>3 DEF Undisturbed, Failed
<1>3. Edited(r, m) => input'[r].id = m
  <2>1. Edited(r, m) => ~Start(r)
    BY OwnCall DEF Edited, Steps, DbSteps
  <2> QED
    BY <2>1, InputsStay DEF Edited
<1> QED
  BY <1>2, <1>3 DEF Undisturbed

LEMMA FilesInit == Init => HandsInv /\ KeptInv /\ DroppedInv
<1> SUFFICES ASSUME Init PROVE HandsInv /\ KeptInv /\ DroppedInv
  OBVIOUS
<1>1. \A r \in Requests : pc[r] = "idle" /\ input[r].op = "none"
  BY NoInputFacts DEF Init
<1>2. \A m \in MovieIds :
        /\ movies[m].state # "deleted"
        /\ Live(m) /\ movies[m].poster \in Keys => bucket[movies[m].poster] = "stored"
  <2> SUFFICES ASSUME NEW m \in MovieIds
               PROVE  /\ movies[m].state # "deleted"
                      /\ Live(m) /\ movies[m].poster \in Keys
                           => bucket[movies[m].poster] = "stored"
    OBVIOUS
  <2>1. CASE m \in Seeds
    <3>1. /\ movies[m].state = "live" /\ movies[m].poster = SeedMovies[m].poster
      BY <2>1 DEF Init, StorageInit
    <3>2. SeedMovies[m].poster \in Keys => SeedMovies[m].poster = m
      BY <2>1, SeedAssumption
    <3> QED
      BY <2>1, <3>1, <3>2 DEF Init, StorageInit
  <2>2. CASE m \notin Seeds
    <3>1. NoRow.state = "absent"
      BY DEF NoRow
    <3>2. movies[m].state = "absent"
      BY <2>2, <3>1 DEF Init, StorageInit
    <3> QED
      BY <3>2 DEF Live
  <2> QED
    BY <2>1, <2>2
<1>3. \A k \in Keys : bucket[k] = "stored" => k \in Seeds /\ Held(k)
  <2> SUFFICES ASSUME NEW k \in Keys, bucket[k] = "stored" PROVE k \in Seeds /\ Held(k)
    OBVIOUS
  <2>1. k \in Seeds /\ SeedMovies[k].poster = k
    BY DEF Init, StorageInit
  <2>2. k \in MovieIds /\ movies[k].state = "live" /\ movies[k].poster = k
    BY <2>1 DEF Init, StorageInit, MovieIds
  <2> QED
    BY <2>1, <2>2 DEF Held, Live
<1>4. \A r \in Requests : bucket[r] = "absent"
  BY NamesAssumption DEF Init, StorageInit, Keys
<1>5. \A r \in Requests :
        /\ HandCreate(r) /\ Fresh(r) /\ HandAttached(r) /\ Waits(r)
        /\ HandKept(r) /\ HandFile(r)
  BY <1>1, <1>4
  DEF HandCreate, Fresh, HandAttached, Waits, HandKept, HandFile, Edits, Creates
<1>6. \A m \in MovieIds : Rest(m) /\ Emptied(m)
  BY <1>2 DEF Rest, Emptied, Stored
<1> QED
  BY <1>3, <1>5, <1>6 DEF HandsInv, KeptInv, DroppedInv, Stored

LEMMA HandsNext ==
  ASSUME AttachOnce
  PROVE  Basis /\ HandsInv /\ [Next]_vars => HandsInv'
<1> SUFFICES ASSUME Basis, HandsInv, [Next]_vars PROVE HandsInv'
  OBVIOUS
<1>1. CASE UNCHANGED vars
  <2>1. \A k : Attached(k)' = Attached(k)
    BY <1>1 DEF vars, storage, NoEffect, Settled, Attached, Names
  <2> QED
    BY <1>1, <2>1
    DEF HandsInv, HandCreate, Fresh, HandAttached, Waits, Stored, vars, storage
<1>2. ASSUME NEW r \in Requests, Step(r)
      PROVE  HandsInv'
  BY <1>2, CreateHand, StayFresh, StayAttached, StayWaiting DEF HandsInv
<1> QED
  BY <1>1, <1>2 DEF Next, AllDone

\* However requests overlap: no file is there before its request stores it, and what
\* a create refers to, and what was uploaded for later, is not deleted under it.
THEOREM FilesWaitForTheirMovie ==
  ASSUME AttachOnce
  PROVE  Spec => [](Basis /\ HandsInv)
<1>1. Basis /\ HandsInv /\ [Next]_vars => HandsInv'
  BY HandsNext
<1>2. Init => HandsInv
  BY FilesInit
<1> QED
  BY <1>1, <1>2, BasisHolds, PTL DEF Spec

LEMMA KeptNext ==
  ASSUME Concurrency = 1, AttachOnce
  PROVE  Basis /\ HandsInv /\ AloneInv /\ KeptInv /\ [Next]_vars => KeptInv'
<1> SUFFICES ASSUME Basis, HandsInv, AloneInv, KeptInv, [Next]_vars PROVE KeptInv'
  OBVIOUS
<1>1. CASE UNCHANGED vars
  BY <1>1
  DEF KeptInv, HandKept, Rest, Undisturbed, Failed, Edited, Live, Stored, vars, storage
<1>2. ASSUME NEW r \in Requests, Step(r)
      PROVE  KeptInv'
  <2>1. \A q \in Requests \ {r} : pc[q] \notin Steps
    BY <1>2, StepsAlone DEF AloneInv
  <2>2. ASSUME NEW m \in MovieIds, Undisturbed(m)'
        PROVE  Rest(m)'
    <3>1. Undisturbed(m) /\ (Edited(r, m) => ~Failed(r)')
      BY <1>2, <2>2, BlameStays, BasisParts
    <3>2. Edited(r, m) => HandRow(r) /\ HandKept(r)
      BY <3>1 DEF Edited, AloneInv, KeptInv
    <3> QED
      BY <1>2, <3>1, <3>2, StayAtRest DEF HandsInv, KeptInv
  <2>3. ASSUME NEW q \in Requests, Undisturbed(input[q].id)'
        PROVE  HandKept(q)'
    <3>1. CASE input'[q].op \notin Edits
      BY <3>1 DEF HandKept
    <3>2. CASE q = r /\ Start(r) /\ input'[q].op \in Edits
      <4> DEFINE m == input'[r].id
      <4>1. m \in MovieIds
        BY <1>2, <3>2, StartSteps, InputFacts, BasisParts DEF Edits
      <4>2. \A n \in MovieIds : Undisturbed(n)' => Undisturbed(n)
        BY <1>2, BlameStays, BasisParts
      <4>3. Undisturbed(m)
        BY <2>3, <3>2, <4>1, <4>2 DEF Undisturbed, Failed
      <4>4. Rest(m)
        BY <4>1, <4>3 DEF KeptInv
      <4>5. \A p \in Requests : ~Edited(p, m)
        BY <3>2, StartsAlone DEF AloneInv, Edited, InFlight
      <4> QED
        BY <1>2, <3>2, <4>3, <4>4, <4>5, StartKept DEF HandsInv
    <3>3. CASE (q # r \/ ~Start(r)) /\ input'[q].op \in Edits
      <4>1. input'[q] = input[q]
        BY <1>2, <3>3, InputsStay, BasisParts
      <4>2. input[q].id \in MovieIds
        BY <3>3, <4>1, NoInputFacts, InputFacts, BasisParts DEF HandlersOK, Edits
      <4>3. \A n \in MovieIds : Undisturbed(n)' => Undisturbed(n)
        BY <1>2, BlameStays, BasisParts
      <4>4. Undisturbed(input[q].id)
        BY <2>3, <4>1, <4>2, <4>3 DEF Undisturbed, Failed
      <4>5. HandRow(q) /\ HandKept(q)
        BY <4>4 DEF AloneInv, KeptInv
      <4>6. CASE q # r
        BY <1>2, <2>1, <4>5, <4>6, OthersHand DEF HandsInv
      <4>7. CASE q = r /\ ~Start(r)
        BY <1>2, <4>5, <4>7, OwnKept
      <4> QED
        BY <3>3, <4>6, <4>7
    <3> QED
      BY <3>1, <3>2, <3>3
  <2> QED
    BY <2>2, <2>3 DEF KeptInv
<1> QED
  BY <1>1, <1>2 DEF Next, AllDone

LEMMA DroppedNext ==
  ASSUME Concurrency = 1, AttachOnce, "s3" \notin Faults
  PROVE  Basis /\ HandsInv /\ AloneInv /\ DroppedInv /\ [Next]_vars => DroppedInv'
<1> SUFFICES ASSUME Basis, HandsInv, AloneInv, DroppedInv, [Next]_vars PROVE DroppedInv'
  OBVIOUS
<1>1. CASE UNCHANGED vars
  BY <1>1
  DEF DroppedInv, HandFile, Emptied, Held, Failed, Unattached, Live, Stored, vars, storage
<1>2. ASSUME NEW r \in Requests, Step(r)
      PROVE  DroppedInv'
  <2>1. HandRow(r) /\ HandFile(r) /\ HandCreate(r) /\ Fresh(r)
    BY DEF HandsInv, AloneInv, DroppedInv
  <2>2. \A q \in Requests \ {r} : pc[q] \notin Steps
    BY <1>2, StepsAlone DEF AloneInv
  <2>3. ASSUME NEW q \in Requests PROVE HandFile(q)'
    <3>1. CASE q = r
      BY <1>2, <2>1, <3>1, OwnFile
    <3>2. CASE q # r
      BY <1>2, <2>1, <2>2, <3>2, OthersHand DEF DroppedInv
    <3> QED
      BY <3>1, <3>2
  <2>4. ASSUME NEW m \in MovieIds PROVE Emptied(m)'
    BY <1>2, <2>1, StayEmptied DEF DroppedInv
  <2>5. ASSUME NEW k \in Keys, bucket'[k] = "stored", ~Held(k)'
        PROVE  k \in Requests /\ (Failed(k)' \/ Unattached(k)')
    <3>1. CASE ~Stored(k)
      <4>1. k = r /\ pc[r] = "put" /\ (Failed(r)' \/ input[r].op = "uploadPoster")
        BY <1>2, <2>5, <3>1, NewlyStored
      <4> QED
        BY <1>2, <2>1, <4>1, UploadUnattached
    <3>2. CASE Stored(k) /\ Held(k)
      BY <1>2, <2>1, <2>5, <3>2, StayHeld
    <3>3. CASE k \in Requests /\ Unattached(k)
      BY <1>2, <2>1, <2>5, <3>3, StayUnattached
    <3>4. CASE k \in Requests /\ Failed(k)
      <4>1. pc[k] = "done"
        BY <3>4, BasisParts DEF HandlersOK, Failed
      <4>2. k # r
        BY <1>2, <4>1, WhoSteps DEF Steps, DbSteps
      <4> QED
        BY <1>2, <3>4, <4>2, HandlerSteps, BasisParts DEF Failed
    <3> QED
      BY <3>1, <3>2, <3>3, <3>4 DEF DroppedInv
  <2> QED
    BY <2>3, <2>4, <2>5 DEF DroppedInv, Stored
<1> QED
  BY <1>1, <1>2 DEF Next, AllDone

\* Between requests, a live movie whose file is gone is one that a failed PATCH or
\* DELETE named, whatever fails and wherever.
THEOREM FilesAreLostByFailure ==
  ASSUME Concurrency = 1, AttachOnce
  PROVE  Spec => []DanglingOnlyAfterFailure
<1>1. Basis /\ HandsInv /\ AloneInv /\ KeptInv /\ [Next]_vars => KeptInv'
  BY KeptNext
<1>2. KeptInv => DanglingOnlyAfterFailure
  BY DEF KeptInv, DanglingOnlyAfterFailure, Undisturbed, Rest, Edited, InFlight, Stored
<1>3. Init => KeptInv
  BY FilesInit
<1> QED
  BY <1>1, <1>2, <1>3, FilesWaitForTheirMovie, HandlersAreAlone, PTL DEF Spec

\* Where S3 does what it is asked, a stored file that no live movie refers to was
\* left by a failed request, or uploaded and never attached; and a movie that is
\* deleted has lost its file.
THEOREM FilesAreDropped ==
  ASSUME Concurrency = 1, AttachOnce, "s3" \notin Faults
  PROVE  Spec => [](OrphanOnlyAfterFailure /\ DeletedMoviesKeepNoFile)
<1>1. Basis /\ HandsInv /\ AloneInv /\ DroppedInv /\ [Next]_vars => DroppedInv'
  BY DroppedNext
<1>2. DroppedInv => OrphanOnlyAfterFailure
  BY DEF DroppedInv, OrphanOnlyAfterFailure, Held, Unattached, InFlight, Stored, Steps, DbSteps
<1>3. Basis /\ DroppedInv => DeletedMoviesKeepNoFile
  BY BasisParts
  DEF DroppedInv, DeletedMoviesKeepNoFile, Emptied, Stored, UploadedInv, Uploaded,
      StorageTypeOK, ObjectStates
<1>4. Init => DroppedInv
  BY FilesInit
<1> QED
  BY <1>1, <1>2, <1>3, <1>4, FilesWaitForTheirMovie, HandlersAreAlone, PTL DEF Spec
=============================================================================
