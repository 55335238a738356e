---------------------------- MODULE MoviesProofs ----------------------------
(***************************************************************************)
(* Proofs about Movies, for every set of requests, seeds, titles, inputs   *)
(* and faults.                                                             *)
(***************************************************************************)
EXTENDS Movies, TLAPS

Entities == [title : Titles, poster : Posters]

\* The part of TypeOK about the handlers
HandlersOK ==
  /\ pc \in [Requests -> Steps \union {"idle", "done"}]
  /\ input \in [Requests -> Inputs \union {NoInput}]
  /\ entity \in [Requests -> Entities]
  /\ diff \in [Requests -> SUBSET Columns]
  /\ status \in [Requests -> Codes \union {"none"}]
  /\ \A r \in Requests :
       /\ pc[r] \in Steps => pc[r] \in StepsOf(input[r].op)
       /\ pc[r] = "exists" => input[r].title # "none"
       /\ pc[r] = "idle" <=> input[r] = NoInput
       /\ pc[r] = "done" <=> status[r] # "none"

LEMMA TypeParts ==
  TypeOK <=> StorageTypeOK /\ HandlersOK /\ touched \subseteq Requests
BY DEF TypeOK, HandlersOK, Entities

-----------------------------------------------------------------------------
(* What the parameters of a request are.                                   *)

\* An input has a known endpoint, and only an update or a removal names a row.
LEMMA InputFacts ==
  ASSUME NEW in \in Inputs
  PROVE  /\ in.op \in Creates \union {"uploadPoster", "update", "remove"}
         /\ in.op \in {"update", "remove"} => in.id \in MovieIds
         /\ in.op \in Creates => in.title \in RawTitles
         /\ in.title \in Titles
         /\ in.url \in Posters \union {"absent"}
         /\ in.file \in FileKinds
         /\ in.op = "create" => in.url \in NewPosters /\ in.file = "none"
BY InputsAssumption DEF InputRecords, Creates, Titles, Posters, NewPosters,
   StoredPosters,
   FileKinds

\* A handler at a step serves an input of the matching endpoint.
LEMMA AtStep ==
  ASSUME HandlersOK, NEW r \in Requests, pc[r] \in Steps
  PROVE  /\ input[r] \in Inputs
         /\ pc[r] \in StepsOf(input[r].op)
         /\ status[r] = "none"
         /\ entity[r] \in Entities
<1>1. input[r] # NoInput
  BY DEF HandlersOK, Steps, DbSteps
<1>2. pc[r] # "done"
  BY DEF Steps, DbSteps
<1> QED
  BY <1>1, <1>2 DEF HandlersOK

\* Which endpoints have a step, read from the step.
LEMMA StepsFacts ==
  ASSUME NEW op \in Creates \union {"uploadPoster", "update", "remove"}
  PROVE  /\ "find" \in StepsOf(op) <=> op \in {"update", "remove"}
         /\ "exists" \in StepsOf(op) <=> op \in Creates \union {"update"}
         /\ "delete" \in StepsOf(op) <=> op \in {"update", "remove"}
         /\ "put" \in StepsOf(op) <=> op \notin {"create", "remove"}
         /\ "insert" \in StepsOf(op) <=> op \in Creates
         /\ "load" \in StepsOf(op) <=> op = "update"
         /\ "write" \in StepsOf(op) <=> op = "update"
         /\ "soft" \in StepsOf(op) <=> op = "remove"
BY DEF StepsOf, Creates

\* The rows and the objects are distinct from every other poster value.
LEMMA NoEntityFacts == NoEntity \in Entities
BY DEF NoEntity, Entities, Titles, Posters, NewPosters, StoredPosters

-----------------------------------------------------------------------------
(* How a step ends.                                                        *)

LEMMA ContinueOK ==
  ASSUME HandlersOK, NEW r \in Requests, pc[r] \in Steps,
         NEW step \in Steps, NEW e \in Entities,
         step \in StepsOf(input[r].op),
         step = "exists" => input[r].title # "none",
         Continue(r, step, e)
  PROVE  HandlersOK'
<1>1. step # "done" /\ step # "idle" /\ pc[r] # "done" /\ pc[r] # "idle"
  BY DEF Steps, DbSteps
<1> QED
  BY <1>1 DEF HandlersOK, Continue

LEMMA FinishOK ==
  ASSUME HandlersOK, NEW r \in Requests, pc[r] \in Steps,
         NEW code \in Codes, Finish(r, code)
  PROVE  HandlersOK'
<1>1. "done" \notin Steps /\ "idle" \notin Steps /\ "none" \notin Codes
  BY DEF Steps, DbSteps, Codes
<1> QED
  BY <1>1, NoEntityFacts DEF HandlersOK, Finish, Columns

LEMMA AcknowledgeOK ==
  ASSUME HandlersOK, NEW r \in Requests, pc[r] \in Steps,
         NEW code \in Codes, Acknowledge(r, code)
  PROVE  HandlersOK'
<1>1. PICK c \in Acknowledgements(code) : Finish(r, c)
  BY DEF Acknowledge
<1>2. c \in Codes
  BY DEF Acknowledgements, Codes
<1> QED
  BY <1>1, <1>2, FinishOK

\* The poster stage of update() goes on to a step of update().
LEMMA ToPosterOK ==
  ASSUME HandlersOK, NEW r \in Requests, pc[r] \in Steps,
         input[r].op = "update",
         NEW e \in Entities, ToPoster(r, input[r], e)
  PROVE  HandlersOK'
<1>1. input[r] \in Inputs
  BY AtStep
<1>2. WithUrl(input[r], e) \in Entities
  BY <1>1, InputFacts DEF WithUrl, Entities
<1>3. /\ "delete" \in StepsOf(input[r].op) /\ "put" \in StepsOf(input[r].op)
      /\ "load" \in StepsOf(input[r].op)
  BY DEF StepsOf, Creates
<1>4. {"delete", "put", "load"} \subseteq Steps
  BY DEF Steps, DbSteps
<1> QED
  BY <1>2, <1>3, <1>4, ContinueOK DEF ToPoster

-----------------------------------------------------------------------------
(* Type correctness: one lemma per action.                                 *)

LEMMA StoreRowOK ==
  ASSUME StorageTypeOK, NEW m \in MovieIds, NEW row \in Rows,
         StoreRow(m, row), UNCHANGED bucket
  PROVE  StorageTypeOK'
BY DEF StorageTypeOK, StoreRow

LEMMA StoredEntity ==
  ASSUME StorageTypeOK, NEW m \in MovieIds
  PROVE  [title |-> movies[m].title, poster |-> movies[m].poster] \in Entities
BY DEF StorageTypeOK, Rows, Entities, Posters, NewPosters

LEMMA StartOK ==
  ASSUME StorageTypeOK, HandlersOK, NEW r \in Requests, Start(r)
  PROVE  StorageTypeOK' /\ HandlersOK'
<1>1. PICK in \in Inputs :
        /\ input' = [input EXCEPT ![r] = in]
        /\ IF Valid(in)
           THEN /\ pc' = [pc EXCEPT ![r] = FirstStep(in)]
                /\ UNCHANGED status
           ELSE /\ pc' = [pc EXCEPT ![r] = "done"]
                /\ status' = [status EXCEPT ![r] = "400"]
  BY DEF Start
<1>2. in.op \in Creates \union {"uploadPoster", "update", "remove"}
  BY InputFacts
<1>3. /\ FirstStep(in) \in Steps /\ FirstStep(in) \in StepsOf(in.op)
      /\ FirstStep(in) = "exists" => in.op \in Creates
  BY <1>2 DEF FirstStep, StepsOf, Creates, Steps, DbSteps
<1>4. FirstStep(in) = "exists" => in.title # "none"
  BY <1>3, InputFacts, NamesAssumption
<1>5. in # NoInput
  BY <1>2 DEF NoInput, Creates
<1>6. "done" \notin Steps /\ "idle" \notin Steps
  BY DEF Steps, DbSteps
<1>7. UNCHANGED <<movies, bucket, entity, diff>> /\ pc[r] = "idle"
  BY DEF Start, storage
<1>8. status[r] = "none"
  BY <1>7 DEF HandlersOK
<1>9. HandlersOK'
  <2>1. CASE Valid(in)
    BY <1>1, <1>3, <1>5, <1>4, <1>6, <1>7, <1>8, <2>1 DEF HandlersOK
  <2>2. CASE ~Valid(in)
    BY <1>1, <1>5, <1>6, <1>7, <1>8, <2>2 DEF HandlersOK, Codes
  <2> QED
    BY <2>1, <2>2
<1> QED
  BY <1>7, <1>9 DEF StorageTypeOK

LEMMA FindByIdOK ==
  ASSUME StorageTypeOK, HandlersOK, NEW r \in Requests, FindById(r)
  PROVE  StorageTypeOK' /\ HandlersOK'
<1> DEFINE in == input[r]
           e  == [title |-> movies[in.id].title, poster |-> movies[in.id].poster]
<1>1. pc[r] = "find" /\ pc[r] \in Steps
  BY DEF FindById, Steps, DbSteps
<1>2. in \in Inputs /\ in.op \in {"update", "remove"} /\ in.id \in MovieIds
  BY <1>1, AtStep, InputFacts, StepsFacts
<1>3. e \in Entities
  BY <1>2, StoredEntity
<1>4. HandlersOK'
  <2>1. CASE Finish(r, "404")
    BY <1>1, <2>1, FinishOK DEF Codes
  <2>2. CASE in.op = "remove" /\ Continue(r, IF e.poster \in Keys THEN "delete" ELSE "soft", e)
    <3>1. {"delete", "soft"} \subseteq StepsOf(in.op) \intersect Steps
      BY <2>2 DEF StepsOf, Creates, Steps, DbSteps
    <3> QED
      BY <1>1, <1>3, <2>2, <3>1, ContinueOK
  <2>3. CASE in.op = "update" /\ in.title # "none" /\ Continue(r, "exists", e)
    <3>1. "exists" \in StepsOf(in.op) /\ "exists" \in Steps
      BY <2>3 DEF StepsOf, Creates, Steps, DbSteps
    <3> QED
      BY <1>1, <1>3, <2>3, <3>1, ContinueOK
  <2>4. CASE in.op = "update" /\ ToPoster(r, in, e)
    BY <1>1, <1>3, <2>4, ToPosterOK
  <2> QED
    BY <2>1, <2>2, <2>3, <2>4 DEF FindById
<1> QED
  BY <1>4 DEF FindById, StorageTypeOK, storage

LEMMA ExistsWithTitleOK ==
  ASSUME StorageTypeOK, HandlersOK, NEW r \in Requests, ExistsWithTitle(r)
  PROVE  StorageTypeOK' /\ HandlersOK'
<1> DEFINE in == input[r]
           t  == Trim[in.title]
<1>1. pc[r] = "exists" /\ pc[r] \in Steps
  BY DEF ExistsWithTitle, Steps, DbSteps
<1>2. /\ in \in Inputs /\ in.op \in Creates \union {"update"}
      /\ entity[r] \in Entities /\ in.title \in RawTitles
  BY <1>1, AtStep, InputFacts, StepsFacts DEF HandlersOK, Titles
<1>3. CASE ExistsLiveTitle(in.title) /\ Finish(r, "409")
  BY <1>1, <1>3, FinishOK DEF Codes, ExistsWithTitle, StorageTypeOK, storage
<1>4. CASE in.op = "update" /\ ToPoster(r, in, [entity[r] EXCEPT !.title = t])
  <2>1. [entity[r] EXCEPT !.title = t] \in Entities
    BY <1>2, InputFacts, TrimAssumption DEF Entities, Titles
  <2> QED
    BY <1>1, <1>4, <2>1, ToPosterOK DEF ExistsWithTitle, StorageTypeOK, storage
<1>5. CASE /\ in.op # "update"
           /\ Continue(r, IF in.file = "good" THEN "put" ELSE "insert",
                       [title  |-> t,
                        poster |-> IF in.op = "create" THEN in.url ELSE ""])
  <2>1. in.op \in Creates /\ in.title \in RawTitles
    BY <1>2, <1>5, InputFacts
  <2>2. [title  |-> t, poster |-> IF in.op = "create" THEN in.url ELSE ""] \in Entities
    BY <1>2, <2>1, InputFacts, TrimAssumption DEF Entities, Titles, Posters, NewPosters, StoredPosters
  <2>3. /\ "insert" \in StepsOf(in.op) /\ "insert" \in Steps
        /\ in.file = "good" => "put" \in StepsOf(in.op) /\ "put" \in Steps
    BY <1>2, <2>1, InputFacts DEF StepsOf, Creates, Steps, DbSteps
  <2> QED
    BY <1>1, <1>5, <2>2, <2>3, ContinueOK DEF ExistsWithTitle, StorageTypeOK, storage
<1> QED
  BY <1>3, <1>4, <1>5 DEF ExistsWithTitle

LEMMA DeleteOldPosterOK ==
  ASSUME StorageTypeOK, HandlersOK, NEW r \in Requests, DeleteOldPoster(r)
  PROVE  StorageTypeOK' /\ HandlersOK'
<1> DEFINE in == input[r]
<1>1. pc[r] = "delete" /\ pc[r] \in Steps
  BY DEF DeleteOldPoster, Steps, DbSteps
<1>2. /\ in \in Inputs /\ in.op \in {"update", "remove"}
      /\ entity[r] \in Entities
  BY <1>1, AtStep, InputFacts, StepsFacts
<1>3. StorageTypeOK'
  BY DEF DeleteOldPoster, StorageTypeOK, RemoveFile, ObjectStates
<1>4. WithUrl(in, entity[r]) \in Entities
  BY <1>2, InputFacts DEF WithUrl, Entities
<1>5. CASE in.op = "remove"
  <2>1. "soft" \in StepsOf(in.op) /\ "soft" \in Steps
    BY <1>5 DEF StepsOf, Creates, Steps, DbSteps
  <2>2. Continue(r, "soft", entity[r])
    BY <1>5 DEF DeleteOldPoster
  <2> QED
    BY <1>1, <1>2, <1>3, <2>1, <2>2, ContinueOK
<1>6. CASE in.op = "update"
  <2>1. {"put", "load"} \subseteq StepsOf(in.op) \intersect Steps
    BY <1>6 DEF StepsOf, Creates, Steps, DbSteps
  <2>2. \/ Continue(r, "put", entity[r])
        \/ Continue(r, "load", WithUrl(in, entity[r]))
    BY <1>6 DEF DeleteOldPoster
  <2> QED
    BY <1>1, <1>2, <1>3, <1>4, <2>1, <2>2, ContinueOK
<1> QED
  BY <1>2, <1>5, <1>6

LEMMA PutObjectOK ==
  ASSUME StorageTypeOK, HandlersOK, NEW r \in Requests, PutObject(r)
  PROVE  StorageTypeOK' /\ HandlersOK'
<1> DEFINE in == input[r]
           e  == [entity[r] EXCEPT !.poster = r]
<1>1. pc[r] = "put" /\ pc[r] \in Steps
  BY DEF PutObject, Steps, DbSteps
<1>2. /\ in \in Inputs
      /\ in.op \in {"createWithUpload", "uploadPoster", "update"}
      /\ entity[r] \in Entities
  BY <1>1, AtStep, InputFacts, StepsFacts DEF Creates
<1>3. StorageTypeOK'
  BY DEF PutObject, StorageTypeOK, PutFile, ObjectStates
<1>4. e \in Entities
  BY <1>2 DEF Entities, Posters, NewPosters, StoredPosters, Keys
<1>5. CASE \E code \in {"201", "500", "lost"} : Finish(r, code)
  BY <1>1, <1>3, <1>5, FinishOK DEF Codes
<1>6. CASE in.op = "createWithUpload" /\ Continue(r, "insert", e)
  <2>1. "insert" \in StepsOf(in.op) /\ "insert" \in Steps
    BY <1>6 DEF StepsOf, Creates, Steps, DbSteps
  <2> QED
    BY <1>1, <1>3, <1>4, <1>6, <2>1, ContinueOK
<1>7. CASE in.op = "update" /\ Continue(r, "load", e)
  <2>1. "load" \in StepsOf(in.op) /\ "load" \in Steps
    BY <1>7 DEF StepsOf, Creates, Steps, DbSteps
  <2> QED
    BY <1>1, <1>3, <1>4, <1>7, <2>1, ContinueOK
<1> QED
  BY <1>2, <1>5, <1>6, <1>7 DEF PutObject

LEMMA InsertOK ==
  ASSUME StorageTypeOK, HandlersOK, NEW r \in Requests, Insert(r)
  PROVE  StorageTypeOK' /\ HandlersOK'
<1> DEFINE row == [state |-> "live", title |-> entity[r].title,
                   poster |-> entity[r].poster]
<1>1. pc[r] = "insert" /\ pc[r] \in Steps
  BY DEF Insert, Steps, DbSteps
<1>2. entity[r] \in Entities
  BY <1>1, AtStep
<1>3. CASE Accepts(r, row) /\ StoreRow(r, row) /\ Acknowledge(r, "201")
  <2>1. row \in Rows
    BY <1>2, <1>3 DEF Accepts, Entities, Rows, RowStates, Posters, NewPosters
  <2>2. r \in MovieIds /\ UNCHANGED bucket
    BY DEF MovieIds, Insert
  <2> QED
    BY <1>1, <1>3, <2>1, <2>2, StoreRowOK, AcknowledgeOK DEF Codes
<1>4. CASE Finish(r, "500") /\ UNCHANGED movies
  BY <1>1, <1>4, FinishOK DEF Codes, Insert, StorageTypeOK
<1> QED
  BY <1>3, <1>4 DEF Insert

LEMMA LoadOK ==
  ASSUME StorageTypeOK, HandlersOK, NEW r \in Requests, Load(r)
  PROVE  StorageTypeOK' /\ HandlersOK'
<1> DEFINE columns == ChangedColumns(input[r].id, entity[r])
<1>1. pc[r] = "load" /\ pc[r] \in Steps
  BY DEF Load, Steps, DbSteps
<1>2. StorageTypeOK'
  BY DEF Load, StorageTypeOK, storage
<1>3. CASE Finish(r, "200")
  BY <1>1, <1>2, <1>3, FinishOK DEF Codes
<1>4. CASE /\ pc' = [pc EXCEPT ![r] = "write"]
           /\ diff' = [diff EXCEPT ![r] = columns]
           /\ UNCHANGED <<input, entity, status>>
  <2>1. columns \subseteq Columns
    BY DEF ChangedColumns, Columns
  <2>2. input[r].op = "update"
    BY <1>1, AtStep, InputFacts, StepsFacts
  <2>3. "write" \in StepsOf(input[r].op) /\ "write" \in Steps /\ "load" \in Steps
    BY <2>2 DEF StepsOf, Creates, Steps, DbSteps
  <2>4. HandlersOK'
    BY <1>1, <1>4, <2>1, <2>3 DEF HandlersOK
  <2> QED
    BY <1>2, <2>4
<1> QED
  BY <1>3, <1>4 DEF Load

\* What save() writes is a row again once the database accepts it.
LEMMA MergedOK ==
  ASSUME StorageTypeOK, NEW m \in MovieIds, NEW e \in Entities, NEW columns,
         Merged(m, e, columns).poster \in StoredPosters
  PROVE  Merged(m, e, columns) \in Rows
BY DEF StorageTypeOK, Merged, Rows, RowStates, Entities, Posters, NewPosters

LEMMA WriteOK ==
  ASSUME StorageTypeOK, HandlersOK, NEW r \in Requests, Write(r)
  PROVE  StorageTypeOK' /\ HandlersOK'
<1> DEFINE m   == input[r].id
           row == Merged(m, entity[r], diff[r])
<1>1. pc[r] = "write" /\ pc[r] \in Steps
  BY DEF Write, Steps, DbSteps
<1>2. m \in MovieIds /\ entity[r] \in Entities
  BY <1>1, AtStep, InputFacts, StepsFacts
<1>3. CASE Accepts(m, row) /\ StoreRow(m, row) /\ Acknowledge(r, "200")
  <2>1. row \in Rows
    BY <1>2, <1>3, MergedOK DEF Accepts
  <2>2. UNCHANGED bucket
    BY DEF Write
  <2> QED
    BY <1>1, <1>2, <1>3, <2>1, <2>2, StoreRowOK, AcknowledgeOK DEF Codes
<1>4. CASE Finish(r, "500") /\ UNCHANGED movies
  BY <1>1, <1>4, FinishOK DEF Codes, Write, StorageTypeOK
<1> QED
  BY <1>3, <1>4 DEF Write

LEMMA SoftDeleteOK ==
  ASSUME StorageTypeOK, HandlersOK, NEW r \in Requests, SoftDelete(r)
  PROVE  StorageTypeOK' /\ HandlersOK'
<1>1. pc[r] = "soft" /\ pc[r] \in Steps
  BY DEF SoftDelete, Steps, DbSteps
<1>2. input[r].id \in MovieIds
  BY <1>1, AtStep, InputFacts, StepsFacts
<1>3. StorageTypeOK'
  BY <1>2 DEF SoftDelete, MarkDeleted, StorageTypeOK, Rows, RowStates
<1>4. HandlersOK'
  BY <1>1, AcknowledgeOK DEF SoftDelete, Codes
<1> QED
  BY <1>3, <1>4

LEMMA FailureOK ==
  ASSUME StorageTypeOK, HandlersOK, NEW r \in Requests, DbError(r) \/ Crash(r)
  PROVE  StorageTypeOK' /\ HandlersOK'
<1>1. pc[r] \in Steps
  BY DEF DbError, Crash, Steps
<1>2. PICK code \in Codes : Finish(r, code)
  BY DEF DbError, Crash, Codes
<1> QED
  BY <1>1, <1>2, FinishOK DEF DbError, Crash, storage, StorageTypeOK

LEMMA TypeInit == Init => TypeOK
<1> SUFFICES ASSUME Init PROVE TypeOK
  OBVIOUS
<1>1. StorageTypeOK
  BY NamesAssumption, SeedAssumption
  DEF Init, StorageInit, StorageTypeOK, Rows, RowStates, ObjectStates, NoRow,
      Titles, StoredPosters, MovieIds
<1>2. HandlersOK
  BY NoEntityFacts DEF Init, HandlersOK, Steps, DbSteps, Columns
<1> QED
  BY <1>1, <1>2, TypeParts DEF Init

LEMMA TypeNext == TypeOK /\ [Next]_vars => TypeOK'
<1> SUFFICES ASSUME TypeOK, [Next]_vars PROVE TypeOK'
  OBVIOUS
<1>1. StorageTypeOK /\ HandlersOK /\ touched \subseteq Requests
  BY TypeParts
<1>2. CASE UNCHANGED vars
  BY <1>2 DEF TypeOK, StorageTypeOK, vars, storage
<1>3. ASSUME NEW r \in Requests, Step(r) PROVE TypeOK'
  <2>1. StorageTypeOK' /\ HandlersOK'
    BY <1>1, <1>3, StartOK, FindByIdOK, ExistsWithTitleOK, DeleteOldPosterOK,
       PutObjectOK, InsertOK, LoadOK, WriteOK, SoftDeleteOK, FailureOK
    DEF Step, Handle
  <2>2. touched' \subseteq Requests
    BY <1>1, <1>3 DEF Step, Tracked
  <2> QED
    BY <2>1, <2>2 DEF TypeOK, HandlersOK, Entities
<1> QED
  BY <1>2, <1>3 DEF Next, AllDone

\* Every variable keeps its type, and every handler stays at a step of its
\* endpoint, in every behaviour of the movie endpoints.
THEOREM TypeCorrect == Spec => []TypeOK
BY TypeInit, TypeNext, PTL DEF Spec

-----------------------------------------------------------------------------
(* How one step changes the table.                                         *)

Exists(m) == movies[m].state # "absent"

Inserts(r) ==
  /\ pc[r] = "insert" /\ input[r].op \in Creates
  /\ \E row \in Rows :
       /\ row.state = "live" /\ row.poster = entity[r].poster
       /\ Accepts(r, row)
       /\ StoreRow(r, row)
  /\ Acknowledge(r, "201")
  /\ UNCHANGED bucket

Updates(r) ==
  /\ pc[r] = "write" /\ input[r].op = "update" /\ input[r].id \in MovieIds
  /\ \E row \in Rows :
       /\ row.state \in {"live", movies[input[r].id].state}
       /\ row.poster \in {entity[r].poster, movies[input[r].id].poster}
       /\ Accepts(input[r].id, row)
       /\ StoreRow(input[r].id, row)
  /\ Acknowledge(r, "200")
  /\ UNCHANGED bucket

Deletes(r) ==
  /\ pc[r] = "soft" /\ input[r].op = "remove" /\ input[r].id \in MovieIds
  /\ MarkDeleted(input[r].id)
  /\ Acknowledge(r, "200")
  /\ UNCHANGED bucket

\* A step leaves the table alone, inserts the row of its own request, or writes
\* the one row its request names.
LEMMA TableSteps ==
  ASSUME TypeOK, NEW r \in Requests, Step(r)
  PROVE  UNCHANGED movies \/ Inserts(r) \/ Updates(r) \/ Deletes(r)
<1>1. StorageTypeOK /\ HandlersOK
  BY TypeParts
<1>2. CASE Insert(r)
  <2> DEFINE row == [state |-> "live", title |-> entity[r].title,
                     poster |-> entity[r].poster]
  <2>1. pc[r] = "insert" /\ pc[r] \in Steps /\ UNCHANGED bucket
    BY <1>2 DEF Insert, Steps, DbSteps
  <2>2. entity[r] \in Entities /\ input[r].op \in Creates
    BY <1>1, <2>1, AtStep, InputFacts, StepsFacts
  <2>3. CASE Accepts(r, row) /\ StoreRow(r, row) /\ Acknowledge(r, "201")
    <3>1. row \in Rows
      BY <2>2, <2>3 DEF Accepts, Entities, Rows, RowStates, Posters, NewPosters
    <3> QED
      BY <2>1, <2>2, <2>3, <3>1 DEF Inserts
  <2> QED
    BY <1>2, <2>3 DEF Insert
<1>3. CASE Write(r)
  <2> DEFINE m   == input[r].id
             row == Merged(m, entity[r], diff[r])
  <2>1. pc[r] = "write" /\ pc[r] \in Steps /\ UNCHANGED bucket
    BY <1>3 DEF Write, Steps, DbSteps
  <2>2. entity[r] \in Entities /\ input[r].op = "update" /\ m \in MovieIds
    BY <1>1, <2>1, AtStep, InputFacts, StepsFacts
  <2>3. CASE Accepts(m, row) /\ StoreRow(m, row) /\ Acknowledge(r, "200")
    <3>1. row \in Rows
      BY <1>1, <2>2, <2>3, MergedOK DEF Accepts
    <3>2. /\ row.state \in {"live", movies[m].state}
          /\ row.poster \in {entity[r].poster, movies[m].poster}
      BY DEF Merged
    <3> QED
      BY <2>1, <2>2, <2>3, <3>1, <3>2 DEF Updates
  <2> QED
    BY <1>3, <2>3 DEF Write
<1>4. CASE SoftDelete(r)
  <2>1. pc[r] = "soft" /\ pc[r] \in Steps
    BY <1>4 DEF SoftDelete, Steps, DbSteps
  <2>2. input[r].op = "remove" /\ input[r].id \in MovieIds
    BY <1>1, <2>1, AtStep, InputFacts, StepsFacts
  <2> QED
    BY <1>4, <2>1, <2>2 DEF SoftDelete, Deletes
<1> QED
  BY <1>2, <1>3, <1>4
  DEF Step, Start, Handle, FindById, ExistsWithTitle, DeleteOldPoster, PutObject,
      Load, DbError, Crash, storage

\* A step touches the handler's variables of its own request only, and the
\* input of a request is set once, when it arrives.
LEMMA HandlerSteps ==
  ASSUME TypeOK, NEW r \in Requests, Step(r), NEW q \in Requests
  PROVE  /\ q # r => /\ pc'[q] = pc[q] /\ input'[q] = input[q]
                     /\ entity'[q] = entity[q] /\ status'[q] = status[q]
                     /\ q \in touched' <=> q \in touched
         /\ pc[q] # "idle" => input'[q] = input[q]
         /\ input'[q] = input[q] \/ /\ input'[q] \in Inputs
                                    /\ Sendable(input'[q])
                                    /\ Start(r) /\ q = r
<1>1. HandlersOK /\ touched \subseteq Requests
  BY TypeParts
<1>2. q # r => (q \in touched' <=> q \in touched)
  BY DEF Step, Tracked
<1>3. CASE Start(r)
  <2>1. PICK in \in {i \in Inputs : Sendable(i)} :
          /\ input' = [input EXCEPT ![r] = in]
          /\ \/ pc' = [pc EXCEPT ![r] = FirstStep(in)] /\ UNCHANGED status
             \/ /\ pc' = [pc EXCEPT ![r] = "done"]
                /\ status' = [status EXCEPT ![r] = "400"]
    BY <1>3 DEF Start
  <2>2. UNCHANGED <<entity, storage>> /\ pc[r] = "idle"
    BY <1>3 DEF Start
  <2>3. Sendable(in) => Sendable(input'[r]) \/ input'[r] # in
    OBVIOUS
  <2> QED
    BY <1>1, <1>2, <1>3, <2>1, <2>2, <2>3 DEF HandlersOK
<1>4. CASE \E step, e : Continue(r, step, e)
  BY <1>1, <1>2, <1>4 DEF HandlersOK, Continue
<1>5. CASE \E code : Finish(r, code)
  BY <1>1, <1>2, <1>5 DEF HandlersOK, Finish
<1>6. CASE Load(r)
  BY <1>1, <1>2, <1>5, <1>6 DEF HandlersOK, Load
<1>7. CASE FindById(r) \/ ExistsWithTitle(r) \/ DeleteOldPoster(r)
  BY <1>4, <1>5, <1>7 DEF FindById, ExistsWithTitle, DeleteOldPoster, ToPoster
<1>8. CASE PutObject(r) \/ DbError(r) \/ Crash(r)
  <2>1. HandlersOK /\ (pc[r] = "put" => input[r].op \in {"createWithUpload", "uploadPoster", "update"})
    <3>1. pc[r] = "put" => pc[r] \in Steps
      BY DEF Steps, DbSteps
    <3> QED
      BY <1>1, <3>1, AtStep, InputFacts, StepsFacts DEF Creates
  <2> QED
    BY <1>4, <1>5, <1>8, <2>1 DEF PutObject, DbError, Crash
<1>9. CASE Insert(r) \/ Write(r) \/ SoftDelete(r)
  BY <1>5, <1>9 DEF Insert, Write, SoftDelete, Acknowledge
<1> QED
  BY <1>3, <1>6, <1>7, <1>8, <1>9 DEF Step, Handle

-----------------------------------------------------------------------------
(* Titles stay unique. UniqueTitles alone is not inductive: a removal could *)
(* "delete" a row that never existed. The missing part is that a request    *)
(* names a row that exists.                                                 *)

NamedRowsExist ==
  \A r \in Requests : input[r].id \in MovieIds => Exists(input[r].id)

RowsInv == NamedRowsExist /\ UniqueTitles

\* A row is never taken away.
LEMMA RowsRemain ==
  ASSUME TypeOK, NamedRowsExist, NEW r \in Requests, Step(r),
         NEW m \in MovieIds, Exists(m)
  PROVE  Exists(m)'
<1>1. StorageTypeOK
  BY TypeParts
<1>2. CASE UNCHANGED movies
  BY <1>2 DEF Exists
<1>3. CASE Inserts(r)
  BY <1>1, <1>3 DEF Inserts, StoreRow, Exists, StorageTypeOK
<1>4. CASE Updates(r)
  BY <1>1, <1>4 DEF Updates, StoreRow, Exists, StorageTypeOK, NamedRowsExist
<1>5. CASE Deletes(r)
  BY <1>1, <1>5 DEF Deletes, MarkDeleted, Exists, StorageTypeOK
<1> QED
  BY <1>2, <1>3, <1>4, <1>5, TableSteps

LEMMA RowsInit == Init => RowsInv
<1> SUFFICES ASSUME Init PROVE RowsInv
  OBVIOUS
<1>1. NamedRowsExist
  BY NamesAssumption DEF Init, NoInput, NamedRowsExist
<1>2. UniqueTitles
  BY SeedAssumption DEF Init, StorageInit, NoRow, UniqueTitles
<1> QED
  BY <1>1, <1>2 DEF RowsInv

LEMMA RowsNext == TypeOK /\ RowsInv /\ [Next]_vars => RowsInv'
<1> SUFFICES ASSUME TypeOK, RowsInv, [Next]_vars PROVE RowsInv'
  OBVIOUS
<1>1. StorageTypeOK /\ HandlersOK /\ NamedRowsExist /\ UniqueTitles
  BY TypeParts DEF RowsInv
<1>2. CASE UNCHANGED vars
  BY <1>2 DEF RowsInv, NamedRowsExist, UniqueTitles, Exists, vars, storage
<1>3. ASSUME NEW r \in Requests, Step(r) PROVE RowsInv'
  <2>1. NamedRowsExist'
    <3> SUFFICES ASSUME NEW q \in Requests, (input[q].id \in MovieIds)'
                 PROVE  Exists(input[q].id)'
      BY DEF NamedRowsExist
    <3>1. Exists(input'[q].id)
      BY <1>1, <1>3, HandlerSteps DEF NamedRowsExist, Sendable, Exists
    <3> QED
      <4> DEFINE m == input'[q].id
      <4>1. m \in MovieIds /\ Exists(m)
        BY <3>1
      <4>2. \A n \in MovieIds : Exists(n) => movies'[n].state # "absent"
        BY <1>1, <1>3, RowsRemain DEF Exists
      <4> QED
        BY <4>1, <4>2 DEF Exists
  <2>2. UniqueTitles'
    <3>1. CASE UNCHANGED movies
      BY <1>1, <3>1 DEF UniqueTitles
    <3>2. CASE Inserts(r) \/ Updates(r)
      <4>1. PICK m \in MovieIds, row \in Rows : Accepts(m, row) /\ StoreRow(m, row)
        BY <3>2 DEF Inserts, Updates, MovieIds
      <4> QED
        BY <1>1, <4>1
        DEF UniqueTitles, Accepts, TitleTaken, StoreRow, StorageTypeOK
    <3>3. CASE Deletes(r)
      <4>1. Exists(input[r].id)
        BY <1>1, <3>3 DEF Deletes, NamedRowsExist
      <4> QED
        BY <1>1, <3>3, <4>1
        DEF Deletes, MarkDeleted, UniqueTitles, StorageTypeOK, Exists, Rows
    <3> QED
      BY <1>3, <3>1, <3>2, <3>3, TableSteps
  <2> QED
    BY <2>1, <2>2 DEF RowsInv
<1> QED
  BY <1>2, <1>3 DEF Next, AllDone

\* No two rows, deleted ones included, ever have the same title, although every
\* handler checks the title long before it writes it.
THEOREM TitlesStayUnique == Spec => []UniqueTitles
<1>1. Spec => []RowsInv
  BY TypeCorrect, RowsInit, RowsNext, PTL DEF Spec
<1>2. RowsInv => UniqueTitles
  BY DEF RowsInv
<1> QED
  BY <1>1, <1>2, PTL

-----------------------------------------------------------------------------
(* A client error leaves no trace. Strengthening: no request has changed   *)
(* anything while one of its checks is still ahead.                        *)

Untouched(r) ==
  pc[r] \in {"idle", "find", "exists"} \/ status[r] \in {"400", "404", "409"}
    => r \notin touched

NoTraceInv == \A r \in Requests : Untouched(r)

LEMMA NoTraceInit == Init => NoTraceInv
BY DEF Init, NoTraceInv, Untouched

LEMMA NoTraceNext == TypeOK /\ NoTraceInv /\ [Next]_vars => NoTraceInv'
<1> SUFFICES ASSUME TypeOK, NoTraceInv, [Next]_vars PROVE NoTraceInv'
  OBVIOUS
<1>1. CASE UNCHANGED vars
  BY <1>1 DEF NoTraceInv, Untouched, vars
<1>2. ASSUME NEW r \in Requests, Step(r) PROVE NoTraceInv'
  <2> SUFFICES ASSUME NEW q \in Requests PROVE Untouched(q)'
    BY DEF NoTraceInv
  <2>1. CASE q # r
    BY <1>2, <2>1, HandlerSteps DEF NoTraceInv, Untouched
  <2>2. CASE q = r
    <3>1. HandlersOK
      BY TypeParts
    <3>2. CASE pc[r] \in {"idle", "find", "exists"}
      <4>1. UNCHANGED storage
        BY <1>2, <3>2
        DEF Step, Start, Handle, FindById, ExistsWithTitle, DeleteOldPoster,
            PutObject, Insert, Load, Write, SoftDelete, DbError, Crash
      <4> QED
        BY <1>2, <2>2, <3>2, <4>1 DEF Step, Tracked, NoTraceInv, Untouched
    <3>3. CASE pc[r] \notin {"idle", "find", "exists"}
      <4>1. pc[r] \in Steps \ {"find", "exists"} /\ status[r] = "none"
        BY <1>2, <3>1, <3>3
        DEF Step, Start, Handle, FindById, ExistsWithTitle, DeleteOldPoster,
            PutObject, Insert, Load, Write, SoftDelete, DbError, Crash, Steps,
            DbSteps, HandlersOK
      <4>2. CASE \E code \in {"200", "201", "500", "lost"} : Finish(r, code)
        BY <2>2, <3>1, <4>2 DEF Finish, Untouched, HandlersOK
      <4>3. CASE \E step \in {"put", "soft", "load", "insert"} : \E e : Continue(r, step, e)
        BY <2>2, <3>1, <4>1, <4>3 DEF Continue, Untouched, HandlersOK
      <4>4. CASE pc' = [pc EXCEPT ![r] = "write"] /\ UNCHANGED status
        BY <2>2, <3>1, <4>1, <4>4 DEF Untouched, HandlersOK
      <4>5. CASE DeleteOldPoster(r)
        BY <4>3, <4>5 DEF DeleteOldPoster
      <4>6. CASE PutObject(r)
        <5>1. input[r].op \in {"createWithUpload", "uploadPoster", "update"}
          BY <3>1, <4>1, <4>6, AtStep, InputFacts, StepsFacts DEF PutObject, Creates
        <5> QED
          BY <4>2, <4>3, <4>6, <5>1 DEF PutObject
      <4>7. CASE Insert(r) \/ Write(r) \/ SoftDelete(r)
        BY <4>2, <4>7 DEF Insert, Write, SoftDelete, Acknowledge, Acknowledgements
      <4>8. CASE Load(r)
        BY <4>2, <4>4, <4>8 DEF Load
      <4>9. CASE DbError(r) \/ Crash(r)
        BY <4>2, <4>9 DEF DbError, Crash
      <4> QED
        BY <1>2, <3>3, <4>1, <4>5, <4>6, <4>7, <4>8, <4>9
        DEF Step, Start, Handle, FindById, ExistsWithTitle
    <3> QED
      BY <3>2, <3>3
  <2> QED
    BY <2>1, <2>2
<1> QED
  BY <1>1, <1>2 DEF Next, AllDone

\* A request answered 400, 404 or 409 has changed neither store, whatever the
\* other requests and the failures did meanwhile.
THEOREM NoTraceOfClientErrors == Spec => []ClientErrorsLeaveNoTrace
<1>1. Spec => []NoTraceInv
  BY TypeCorrect, NoTraceInit, NoTraceNext, PTL DEF Spec
<1>2. NoTraceInv => ClientErrorsLeaveNoTrace
  BY DEF NoTraceInv, Untouched, ClientErrorsLeaveNoTrace
<1> QED
  BY <1>1, <1>2, PTL

-----------------------------------------------------------------------------
(* The answers of the creates and the rows agree.                          *)

\* A request that ends with 201 stored its file (upload-poster) or inserted its
\* row (both creates), in that very step.
LEMMA Created ==
  ASSUME TypeOK, NEW r \in Requests, Step(r), status'[r] = "201",
         status[r] # "201"
  PROVE  \/ Inserts(r)
         \/ input[r].op = "uploadPoster" /\ PutFile(r)
<1>1. StorageTypeOK /\ HandlersOK
  BY TypeParts
<1>2. CASE \E code \in {"200", "404", "409", "500", "lost"} : Finish(r, code)
  BY <1>1, <1>2 DEF Finish, HandlersOK
<1>3. CASE UNCHANGED status
  BY <1>3
<1>4. CASE Start(r)
  BY <1>1, <1>4 DEF Start, HandlersOK
<1>5. CASE FindById(r) \/ ExistsWithTitle(r) \/ DeleteOldPoster(r) \/ Load(r)
  BY <1>2, <1>3, <1>5
  DEF FindById, ExistsWithTitle, DeleteOldPoster, Load, ToPoster, Continue
<1>6. CASE DbError(r) \/ Crash(r)
  BY <1>2, <1>6 DEF DbError, Crash
<1>7. CASE Write(r) \/ SoftDelete(r)
  <2>1. \E code \in {"200", "500", "lost"} : Finish(r, code)
    BY <1>7 DEF Write, SoftDelete, Acknowledge, Acknowledgements
  <2> QED
    BY <1>2, <2>1
<1>8. CASE PutObject(r)
  <2>1. input[r].op \in {"createWithUpload", "uploadPoster", "update"}
    <3>1. pc[r] = "put" /\ pc[r] \in Steps
      BY <1>8 DEF PutObject, Steps, DbSteps
    <3> QED
      BY <1>1, <3>1, AtStep, InputFacts, StepsFacts DEF Creates
  <2> QED
    BY <1>2, <1>3, <1>8, <2>1 DEF PutObject, Continue
<1>9. CASE Insert(r)
  <2>1. CASE Finish(r, "500")
    BY <1>2, <2>1
  <2>2. CASE /\ StoreRow(r, [state |-> "live", title |-> entity[r].title,
                             poster |-> entity[r].poster])
             /\ Accepts(r, [state |-> "live", title |-> entity[r].title,
                            poster |-> entity[r].poster])
             /\ Acknowledge(r, "201")
    <3>1. pc[r] = "insert" /\ pc[r] \in Steps /\ UNCHANGED bucket
      BY <1>9 DEF Insert, Steps, DbSteps
    <3>2. entity[r] \in Entities /\ input[r].op \in Creates
      BY <1>1, <3>1, AtStep, InputFacts, StepsFacts
    <3>3. [state |-> "live", title |-> entity[r].title,
           poster |-> entity[r].poster] \in Rows
      BY <2>2, <3>2 DEF Accepts, Entities, Rows, RowStates, Posters, NewPosters
    <3> QED
      BY <2>2, <3>1, <3>2, <3>3 DEF Inserts
  <2> QED
    BY <1>9, <2>1, <2>2 DEF Insert
<1> QED
  BY <1>4, <1>5, <1>6, <1>7, <1>8, <1>9 DEF Step, Handle

LEMMA CreateInit == Init => CreateAnswersMatchRows
<1> SUFFICES ASSUME Init, NEW r \in Requests
             PROVE  input[r].op \notin Creates /\ movies[r].state = "absent"
  BY DEF CreateAnswersMatchRows
<1>1. r \in MovieIds /\ r \notin Seeds
  BY NamesAssumption DEF MovieIds
<1>2. movies[r] = NoRow
  BY <1>1 DEF Init, StorageInit
<1>3. input[r] = NoInput
  BY DEF Init
<1>4. movies[r].state = "absent"
  <2>1. NoRow.state = "absent"
    BY DEF NoRow
  <2> QED
    BY <1>2, <2>1
<1>5. input[r].op = "none"
  BY <1>3 DEF NoInput
<1> QED
  BY <1>4, <1>5 DEF Creates

LEMMA CreateNext ==
  TypeOK /\ NamedRowsExist /\ CreateAnswersMatchRows /\ [Next]_vars
    => CreateAnswersMatchRows'
<1> SUFFICES ASSUME TypeOK, NamedRowsExist, CreateAnswersMatchRows, [Next]_vars
             PROVE  CreateAnswersMatchRows'
  OBVIOUS
<1>1. StorageTypeOK /\ HandlersOK
  BY TypeParts
<1>2. CASE UNCHANGED vars
  BY <1>2 DEF CreateAnswersMatchRows, vars, storage
<1>3. ASSUME NEW r \in Requests, Step(r) PROVE CreateAnswersMatchRows'
  <2> SUFFICES ASSUME NEW q \in Requests
               PROVE  /\ input'[q].op \in Creates /\ status'[q] = "201" => Exists(q)'
                      /\ Exists(q)' => /\ input'[q].op \in Creates
                                       /\ status'[q] \in Acknowledgements("201")
    BY DEF CreateAnswersMatchRows, Exists
  <2>1. q \in MovieIds /\ r \in MovieIds
    BY DEF MovieIds
  <2>2. /\ input[q].op \in Creates /\ status[q] = "201" => Exists(q)
        /\ Exists(q) => /\ input[q].op \in Creates
                        /\ status[q] \in Acknowledgements("201")
    BY DEF CreateAnswersMatchRows, Exists
  <2>3. Exists(q) => Exists(q)'
    BY <1>3, <2>1, RowsRemain
  <2>4. CASE Exists(q)
    <3>1. status[q] # "none"
      BY <2>2, <2>4 DEF Acknowledgements
    <3>2. q # r
      BY <1>1, <1>3, <3>1
      DEF HandlersOK, Step, Start, Handle, FindById, ExistsWithTitle,
          DeleteOldPoster, PutObject, Insert, Load, Write, SoftDelete, DbError,
          Crash, Steps, DbSteps
    <3>3. input'[q] = input[q] /\ status'[q] = status[q]
      BY <1>1, <1>3, <3>1, <3>2, HandlerSteps DEF HandlersOK
    <3> QED
      BY <2>2, <2>3, <2>4, <3>3
  <2>5. CASE ~Exists(q) /\ Exists(q)'
    <3>1. Inserts(r) /\ q = r
      <4>1. CASE UNCHANGED movies
        BY <2>5, <4>1 DEF Exists
      <4>2. CASE Inserts(r)
        BY <1>1, <2>1, <2>5, <4>2 DEF Inserts, StoreRow, StorageTypeOK, Exists
      <4>3. CASE Updates(r)
        BY <1>1, <2>1, <2>5, <4>3
        DEF Updates, StoreRow, StorageTypeOK, Exists, NamedRowsExist
      <4>4. CASE Deletes(r)
        BY <1>1, <2>1, <2>5, <4>4
        DEF Deletes, MarkDeleted, StorageTypeOK, Exists, NamedRowsExist
      <4> QED
        BY <1>3, <4>1, <4>2, <4>3, <4>4, TableSteps
    <3>2. PICK c \in Acknowledgements("201") : Finish(r, c)
      BY <3>1 DEF Inserts, Acknowledge
    <3> QED
      BY <1>1, <2>5, <3>1, <3>2 DEF Inserts, Finish, HandlersOK
  <2>6. CASE ~Exists(q) /\ ~Exists(q)'
    <3> SUFFICES ASSUME input'[q].op \in Creates, status'[q] = "201"
                 PROVE  FALSE
      BY <2>6
    <3>1. status[q] # "201"
      <4>1. status[q] = "201" => input'[q] = input[q]
        BY <1>1, <1>3, HandlerSteps DEF HandlersOK
      <4> QED
        BY <2>2, <2>6, <4>1
    <3>2. q = r
      BY <1>3, <3>1, HandlerSteps
    <3>3. Inserts(r) \/ input[r].op = "uploadPoster"
      BY <1>3, <3>1, <3>2, Created
    <3>4. ~Inserts(r)
      BY <1>1, <2>1, <2>6, <3>2 DEF Inserts, StoreRow, StorageTypeOK, Exists
    <3>5. input'[r] = input[r]
      BY <1>1, <1>3, <3>3, <3>4, HandlerSteps DEF HandlersOK, NoInput
    <3> QED
      BY <3>2, <3>3, <3>4, <3>5 DEF Creates
  <2> QED
    BY <2>4, <2>5, <2>6
<1> QED
  BY <1>2, <1>3 DEF Next, AllDone

\* A create answered 201 has its row, and a create whose row is there was
\* answered 201 unless a store or the process failed after the INSERT.
THEOREM CreatesAnsweredTruly == Spec => []CreateAnswersMatchRows
<1>1. Spec => []RowsInv
  BY TypeCorrect, RowsInit, RowsNext, PTL DEF Spec
<1>2. RowsInv => NamedRowsExist
  BY DEF RowsInv
<1> QED
  BY <1>1, <1>2, TypeCorrect, CreateInit, CreateNext, PTL DEF Spec

-----------------------------------------------------------------------------
(* No row refers to an object that was never stored. Strengthening: neither *)
(* do the entities in memory and the URLs in the requests, and an answered  *)
(* upload has its object.                                                   *)

Uploaded(k) == k \in Keys => bucket[k] # "absent"

UploadedInv ==
  /\ \A m \in MovieIds : Uploaded(movies[m].poster)
  /\ \A r \in Requests :
       /\ Uploaded(entity[r].poster)
       /\ Uploaded(input[r].url)
       /\ input[r].op = "uploadPoster" /\ status[r] = "201" => Uploaded(r)

\* Once stored, an object is stored or deleted; it never becomes unknown.
LEMMA UploadedRemains ==
  ASSUME TypeOK, NEW r \in Requests, Step(r), NEW k, Uploaded(k)
  PROVE  Uploaded(k)'
<1>1. StorageTypeOK
  BY TypeParts
<1>2. UNCHANGED bucket \/ \E key : PutFile(key) \/ RemoveFile(key)
  BY DEF Step, Start, Handle, FindById, ExistsWithTitle, DeleteOldPoster,
         PutObject, Insert, Load, Write, SoftDelete, DbError, Crash, storage
<1> QED
  BY <1>1, <1>2 DEF Uploaded, PutFile, RemoveFile, StorageTypeOK

\* A request gives the URL of k to its movie, where it does not bring a file along
Names(r, k) == input[r].url = k /\ input[r].file # "good"

\* Where the poster of an entity in memory comes from: nowhere, the row that the
\* request names, the request itself, or the file this very step stored.
LEMMA EntitySteps ==
  ASSUME TypeOK, NEW r \in Requests, Step(r)
  PROVE  \/ entity'[r].poster \in {"", entity[r].poster}
         \/ Names(r, input[r].url) /\ entity'[r].poster = input[r].url
         \/ /\ input[r].op \in {"update", "remove"} /\ input[r].id \in MovieIds
            /\ entity'[r].poster = movies[input[r].id].poster
         \/ /\ input[r].op \in {"createWithUpload", "update"}
            /\ entity'[r].poster = r /\ PutFile(r)
<1> DEFINE in == input[r]
           From(p) == entity'[r].poster = p
           FromUrl == in.file # "good" /\ From(in.url)
<1>1. StorageTypeOK /\ HandlersOK
  BY TypeParts
<1>2. ASSUME NEW step, NEW e, Continue(r, step, e)
      PROVE  From(e.poster)
  BY <1>1, <1>2 DEF Continue, HandlersOK
<1>3. ASSUME NEW code, Finish(r, code)
      PROVE  From("")
  BY <1>1, <1>3 DEF Finish, HandlersOK, NoEntity
<1>4. ASSUME NEW e \in Entities
      PROVE  \/ WithUrl(in, e).poster = e.poster
             \/ in.file # "good" /\ WithUrl(in, e).poster = in.url
  BY DEF WithUrl, Entities
<1>5. ASSUME NEW e \in Entities, ToPoster(r, in, e)
      PROVE  From(e.poster) \/ FromUrl
  BY <1>2, <1>4, <1>5 DEF ToPoster
<1>6. CASE UNCHANGED entity
  BY <1>6
<1>7. CASE FindById(r)
  <2> DEFINE e == [title |-> movies[in.id].title, poster |-> movies[in.id].poster]
  <2>1. pc[r] = "find" /\ pc[r] \in Steps
    BY <1>7 DEF FindById, Steps, DbSteps
  <2>2. in.id \in MovieIds /\ in.op \in {"update", "remove"}
    BY <1>1, <2>1, AtStep, InputFacts, StepsFacts
  <2>3. e \in Entities /\ e.poster = movies[in.id].poster
    BY <1>1, <2>2, StoredEntity
  <2>4. From("") \/ From(e.poster) \/ FromUrl
    BY <1>2, <1>3, <1>5, <1>7, <2>3 DEF FindById
  <2> QED
    BY <2>2, <2>3, <2>4 DEF Names
<1>8. CASE ExistsWithTitle(r)
  <2>1. pc[r] = "exists" /\ pc[r] \in Steps
    BY <1>8 DEF ExistsWithTitle, Steps, DbSteps
  <2>2. /\ in.title \in RawTitles /\ entity[r] \in Entities
    BY <1>1, <2>1, AtStep, InputFacts DEF HandlersOK, Titles
  <2>3. /\ [entity[r] EXCEPT !.title = Trim[in.title]] \in Entities
        /\ [entity[r] EXCEPT !.title = Trim[in.title]].poster = entity[r].poster
    BY <2>2, TrimAssumption DEF Entities, Titles
  <2>4. CASE ToPoster(r, in, [entity[r] EXCEPT !.title = Trim[in.title]])
    BY <1>5, <2>3, <2>4 DEF Names
  <2>5. CASE Finish(r, "409")
    BY <1>3, <2>5
  <2>6. CASE \E step : Continue(r, step,
                   [title  |-> Trim[in.title],
                    poster |-> IF in.op = "create" THEN in.url ELSE ""])
    <3> DEFINE p == IF in.op = "create" THEN in.url ELSE ""
               e == [title |-> Trim[in.title], poster |-> p]
    <3>1. From(e.poster)
      BY <1>2, <2>6
    <3>2. e.poster = p
      OBVIOUS
    <3>3. p = "" \/ (in.file # "good" /\ p = in.url)
      <4>1. in \in Inputs
        BY <1>1, <2>1, AtStep
      <4> QED
        BY <4>1, InputFacts
    <3> QED
      BY <3>1, <3>2, <3>3 DEF Names
  <2> QED
    BY <1>8, <2>4, <2>5, <2>6 DEF ExistsWithTitle
<1>9. CASE DeleteOldPoster(r)
  <2>1. entity[r] \in Entities
    BY <1>1 DEF HandlersOK
  <2> QED
    BY <1>2, <1>4, <1>9, <2>1 DEF DeleteOldPoster, Names
<1>10. CASE PutObject(r)
  <2> DEFINE e == [entity[r] EXCEPT !.poster = r]
  <2>1. e.poster = r
    BY <1>1 DEF HandlersOK, Entities
  <2>2. in.op \in {"createWithUpload", "uploadPoster", "update"}
    <3>1. pc[r] = "put" /\ pc[r] \in Steps
      BY <1>10 DEF PutObject, Steps, DbSteps
    <3> QED
      BY <1>1, <3>1, AtStep, InputFacts, StepsFacts DEF Creates
  <2> QED
    BY <1>2, <1>3, <1>10, <2>1, <2>2 DEF PutObject
<1>11. CASE Insert(r) \/ Write(r) \/ SoftDelete(r) \/ DbError(r) \/ Crash(r)
  BY <1>3, <1>11 DEF Insert, Write, SoftDelete, DbError, Crash, Acknowledge
<1>12. CASE Load(r)
  BY <1>3, <1>12 DEF Load
<1> QED
  BY <1>6, <1>7, <1>8, <1>9, <1>10, <1>11, <1>12 DEF Step, Handle, Start, Names

LEMMA UploadedInit == Init => UploadedInv
<1> SUFFICES ASSUME Init PROVE UploadedInv
  OBVIOUS
<1>1. \A m \in MovieIds : Uploaded(movies[m].poster)
  <2> SUFFICES ASSUME NEW m \in MovieIds, movies[m].poster \in Keys
               PROVE  bucket[movies[m].poster] # "absent"
    BY DEF Uploaded
  <2>1. CASE m \in Seeds
    <3>1. movies[m].poster = SeedMovies[m].poster
      BY <2>1 DEF Init, StorageInit
    <3>2. SeedMovies[m].poster = m
      BY <2>1, <3>1, SeedAssumption
    <3> QED
      BY <2>1, <3>1, <3>2 DEF Init, StorageInit, Keys
  <2>2. CASE m \notin Seeds
    <3>1. movies[m] = NoRow
      BY <2>2 DEF Init, StorageInit
    <3>2. NoRow.poster = "" /\ "" \notin Keys
      BY NamesAssumption DEF NoRow, Keys, MovieIds
    <3> QED
      BY <3>1, <3>2
  <2> QED
    BY <2>1, <2>2
<1>2. ASSUME NEW r \in Requests
      PROVE  /\ Uploaded(entity[r].poster)
             /\ Uploaded(input[r].url)
             /\ input[r].op # "uploadPoster"
  <2>1. entity[r] = NoEntity /\ input[r] = NoInput
    BY DEF Init
  <2>2. /\ NoEntity.poster = "" /\ NoInput.url = "absent" /\ NoInput.op = "none"
        /\ "" \notin Keys /\ "absent" \notin Keys
    BY NamesAssumption DEF NoEntity, NoInput, Keys, MovieIds
  <2> QED
    BY <2>1, <2>2 DEF Uploaded
<1> QED
  BY <1>1, <1>2 DEF UploadedInv

LEMMA UploadedNext == TypeOK /\ UploadedInv /\ [Next]_vars => UploadedInv'
<1> SUFFICES ASSUME TypeOK, UploadedInv, [Next]_vars PROVE UploadedInv'
  OBVIOUS
<1>1. StorageTypeOK /\ HandlersOK
  BY TypeParts
<1>2. CASE UNCHANGED vars
  BY <1>2 DEF UploadedInv, Uploaded, vars, storage
<1>3. ASSUME NEW r \in Requests, Step(r) PROVE UploadedInv'
  <2>1. \A k : Uploaded(k) => Uploaded(k)'
    BY <1>3, UploadedRemains
  <2>2. ASSUME NEW m \in MovieIds PROVE Uploaded(movies[m].poster)'
    <3>1. \/ movies'[m].poster = movies[m].poster
          \/ movies'[m].poster = entity[r].poster
      <4>1. CASE UNCHANGED movies
        BY <4>1
      <4>2. CASE Inserts(r)
        BY <1>1, <4>2 DEF Inserts, StoreRow, StorageTypeOK
      <4>3. CASE Updates(r)
        BY <1>1, <4>3 DEF Updates, StoreRow, StorageTypeOK
      <4>4. CASE Deletes(r)
        BY <1>1, <4>4 DEF Deletes, MarkDeleted, StorageTypeOK, Rows
      <4> QED
        BY <1>3, <4>1, <4>2, <4>3, <4>4, TableSteps
    <3> QED
      BY <2>1, <3>1 DEF UploadedInv, Uploaded
  <2>3. ASSUME NEW q \in Requests PROVE Uploaded(entity[q].poster)'
    <3>1. CASE q # r
      BY <1>3, <2>1, <3>1, HandlerSteps DEF UploadedInv, Uploaded
    <3>2. CASE q = r
      <4>1. CASE entity'[r].poster \in {"", entity[r].poster, input[r].url}
        <5>1. "" \notin Keys
          BY NamesAssumption DEF Keys, MovieIds
        <5> QED
          BY <2>1, <3>2, <4>1, <5>1 DEF UploadedInv, Uploaded
      <4>2. CASE input[r].id \in MovieIds /\ entity'[r].poster = movies[input[r].id].poster
        BY <2>1, <3>2, <4>2 DEF UploadedInv, Uploaded
      <4>3. CASE entity'[r].poster = r /\ PutFile(r)
        BY <1>1, <3>2, <4>3 DEF PutFile, StorageTypeOK, Uploaded
      <4> QED
        BY <1>3, <4>1, <4>2, <4>3, EntitySteps DEF Names
    <3> QED
      BY <3>1, <3>2
  <2>4. ASSUME NEW q \in Requests PROVE Uploaded(input[q].url)'
    <3>1. CASE input'[q] = input[q]
      BY <2>1, <3>1 DEF UploadedInv, Uploaded
    <3>2. CASE input'[q] \in Inputs /\ Sendable(input'[q])
      <4> DEFINE in == input'[q]
      <4>1. CASE in.url \in Keys /\ AttachOnce /\ FreshUpload(in)
        BY <2>1, <4>1 DEF FreshUpload, UploadedInv, Uploaded
      <4>2. CASE /\ in.url \in Keys /\ in.op = "update"
                 /\ Live(in.id) /\ movies[in.id].poster = in.url
        <5>1. in.id \in MovieIds
          BY <3>2, <4>2, InputFacts
        <5> QED
          BY <2>1, <4>2, <5>1 DEF UploadedInv, Uploaded
      <4>3. CASE in.url \in Keys /\ bucket[in.url] # "absent"
        BY <2>1, <4>3 DEF Uploaded
      <4>4. CASE in.url \notin Keys
        BY <4>4 DEF Uploaded
      <4> QED
        BY <3>2, <4>1, <4>2, <4>3, <4>4 DEF Sendable
    <3> QED
      BY <1>3, <3>1, <3>2, HandlerSteps
  <2>5. ASSUME NEW q \in Requests,
               (input[q].op = "uploadPoster" /\ status[q] = "201")'
        PROVE  Uploaded(q)'
    <3>1. CASE status[q] = "201"
      <4>1. input'[q] = input[q]
        BY <1>1, <1>3, <3>1, HandlerSteps DEF HandlersOK
      <4> QED
        BY <2>1, <2>5, <3>1, <4>1 DEF UploadedInv
    <3>2. CASE status[q] # "201"
      <4>1. q = r
        BY <1>3, <2>5, <3>2, HandlerSteps
      <4>2. Inserts(r) \/ PutFile(r)
        BY <1>3, <2>5, <3>2, <4>1, Created
      <4>3. CASE Inserts(r)
        <5>1. input'[r] = input[r]
          BY <1>1, <1>3, <4>3, HandlerSteps DEF Inserts
        <5> QED
          BY <2>5, <4>1, <4>3, <5>1 DEF Inserts, Creates
      <4>4. CASE PutFile(r)
        BY <1>1, <4>1, <4>4 DEF PutFile, StorageTypeOK, Uploaded
      <4> QED
        BY <4>2, <4>3, <4>4
    <3> QED
      BY <3>1, <3>2
  <2> QED
    BY <2>2, <2>3, <2>4, <2>5 DEF UploadedInv
<1> QED
  BY <1>2, <1>3 DEF Next, AllDone

\* A handler stores the file before it writes the row that refers to it, so no
\* row ever refers to an object that never existed.
THEOREM ReferencesWereUploaded == Spec => []ReferencedWasUploaded
<1>1. Spec => []UploadedInv
  BY TypeCorrect, UploadedInit, UploadedNext, PTL DEF Spec
<1>2. UploadedInv => ReferencedWasUploaded
  BY DEF UploadedInv, Uploaded, ReferencedWasUploaded
<1> QED
  BY <1>1, <1>2, PTL
=============================================================================
