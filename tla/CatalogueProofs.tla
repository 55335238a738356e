-------------------------- MODULE CatalogueProofs ---------------------------
(***************************************************************************)
(* The handlers of Movies implement the abstract Catalogue, for every set  *)
(* of requests, inputs and faults.                                         *)
(*                                                                         *)
(* The table alone does not tell what a handler is about to write. The     *)
(* invariant below says what the entity in its memory is at each step, in  *)
(* terms of what its request asked for.                                    *)
(***************************************************************************)
EXTENDS MoviesProofs

\* Titles are stored trimmed
RowFits(m) ==
  Exists(m) => /\ movies[m].title \in RawTitles
               /\ Trim[movies[m].title] = movies[m].title

NewFits(r) ==
  /\ pc[r] \in {"put", "insert"} /\ input[r].op \in Creates =>
       entity[r].title = Trim[input[r].title]
  /\ pc[r] = "put" => input[r].file = "good"
  /\ pc[r] = "insert" =>
       entity[r].poster = IF input[r].op = "create" THEN input[r].url
                          ELSE IF input[r].file = "good" THEN r ELSE ""

EditFits(r) ==
  input[r].op = "update" =>
    /\ pc[r] \in {"exists", "delete", "put", "load", "write"} =>
         /\ entity[r].title \in RawTitles
         /\ Trim[entity[r].title] = entity[r].title
    /\ pc[r] \in {"delete", "put", "load", "write"} /\ input[r].title # "none" =>
         entity[r].title = Trim[input[r].title]
    /\ pc[r] \in {"load", "write"} =>
         entity[r].poster \in
           IF input[r].file = "good" THEN {r}
           ELSE IF input[r].url # "absent" THEN {input[r].url}
           ELSE Posters

FitsInv ==
  /\ \A m \in MovieIds : RowFits(m)
  /\ \A r \in Requests : NewFits(r) /\ EditFits(r)

ImplInv == TypeOK /\ RowsInv /\ CreateAnswersMatchRows /\ FitsInv

-----------------------------------------------------------------------------

\* A handler that has ended has nothing left to fit.
LEMMA FitsFinish ==
  ASSUME TypeOK, NEW r \in Requests, NEW code, Finish(r, code)
  PROVE  NewFits(r)' /\ EditFits(r)'
<1>1. pc'[r] = "done"
  BY TypeParts DEF Finish, HandlersOK
<1> QED
  BY <1>1 DEF NewFits, EditFits

\* The poster stage keeps the title and ends with the poster that was asked for.
LEMMA FitsToPoster ==
  ASSUME TypeOK, NEW r \in Requests, pc[r] \in Steps, input[r].op = "update",
         NEW e \in Entities, ToPoster(r, input[r], e),
         e.title \in RawTitles, Trim[e.title] = e.title,
         input[r].title # "none" => e.title = Trim[input[r].title]
  PROVE  NewFits(r)' /\ EditFits(r)'
<1> DEFINE in == input[r]
<1>1. HandlersOK
  BY TypeParts
<1>2. in \in Inputs /\ in.url \in Posters \union {"absent"}
  BY <1>1, AtStep, InputFacts
<1>3. ASSUME NEW step \in {"delete", "put", "load"}, NEW f, Continue(r, step, f)
      PROVE  pc'[r] = step /\ entity'[r] = f /\ input' = input
  BY <1>1, <1>3 DEF Continue, HandlersOK
<1>4. in.op \notin Creates
  BY DEF Creates
<1>5. CASE Continue(r, "delete", e)
  BY <1>3, <1>4, <1>5 DEF NewFits, EditFits
<1>6. CASE in.file = "good" /\ Continue(r, "put", e)
  BY <1>3, <1>4, <1>6 DEF NewFits, EditFits
<1>7. CASE in.file # "good" /\ Continue(r, "load", WithUrl(in, e))
  <2>1. WithUrl(in, e).title = e.title
    BY DEF WithUrl, Entities
  <2>2. WithUrl(in, e).poster = IF in.url # "absent" THEN in.url ELSE e.poster
    BY <1>7 DEF WithUrl, Entities
  <2>3. e.poster \in Posters
    BY DEF Entities
  <2>4. pc'[r] = "load" /\ entity'[r] = WithUrl(in, e) /\ input' = input
    BY <1>3, <1>7
  <2> QED
    BY <1>4, <1>7, <2>1, <2>2, <2>3, <2>4 DEF NewFits, EditFits
<1> QED
  BY <1>5, <1>6, <1>7 DEF ToPoster

LEMMA FitsFindById ==
  ASSUME TypeOK, FitsInv, NEW r \in Requests, FindById(r)
  PROVE  NewFits(r)' /\ EditFits(r)'
<1> DEFINE in == input[r]
           e  == [title |-> movies[in.id].title, poster |-> movies[in.id].poster]
<1>1. pc[r] = "find" /\ pc[r] \in Steps
  BY DEF FindById, Steps, DbSteps
<1>2. StorageTypeOK /\ HandlersOK
  BY TypeParts
<1>3. in.op \in {"update", "remove"} /\ in.id \in MovieIds
  BY <1>1, <1>2, AtStep, InputFacts, StepsFacts
<1>4. e \in Entities /\ e.title = movies[in.id].title
  BY <1>2, <1>3, StoredEntity
<1>5. CASE Finish(r, "404")
  BY <1>5, FitsFinish
<1>6. CASE in.op = "remove" /\ \E step \in {"delete", "soft"} : Continue(r, step, e)
  <2>1. pc'[r] \in {"delete", "soft"} /\ input' = input
    BY <1>2, <1>6 DEF Continue, HandlersOK
  <2> QED
    BY <1>6, <2>1 DEF NewFits, EditFits
<1>7. CASE in.op = "update" /\ Live(in.id)
  <2>1. e.title \in RawTitles /\ Trim[e.title] = e.title
    BY <1>3, <1>4, <1>7 DEF FitsInv, RowFits, Exists, Live
  <2>2. CASE in.title # "none" /\ in.title # e.title /\ Continue(r, "exists", e)
    <3>1. pc'[r] = "exists" /\ entity'[r] = e /\ input' = input
      BY <1>2, <2>2 DEF Continue, HandlersOK
    <3> QED
      BY <1>7, <2>1, <3>1 DEF NewFits, EditFits
  <2>3. CASE in.title \in {"none", e.title} /\ ToPoster(r, in, e)
    BY <1>1, <1>4, <1>7, <2>1, <2>3, FitsToPoster
  <2> QED
    BY <1>7, <2>2, <2>3 DEF FindById
<1> QED
  BY <1>3, <1>5, <1>6, <1>7 DEF FindById

LEMMA FitsExistsWithTitle ==
  ASSUME TypeOK, FitsInv, NEW r \in Requests, ExistsWithTitle(r)
  PROVE  NewFits(r)' /\ EditFits(r)'
<1> DEFINE in == input[r]
           t  == Trim[in.title]
<1>1. pc[r] = "exists" /\ pc[r] \in Steps
  BY DEF ExistsWithTitle, Steps, DbSteps
<1>2. StorageTypeOK /\ HandlersOK
  BY TypeParts
<1>3. /\ in \in Inputs /\ in.op \in Creates \union {"update"}
      /\ entity[r] \in Entities /\ in.title \in RawTitles
  BY <1>1, <1>2, AtStep, InputFacts, StepsFacts DEF HandlersOK, Titles
<1>4. t \in RawTitles /\ Trim[t] = t
  BY <1>3, TrimAssumption
<1>5. CASE Finish(r, "409")
  BY <1>5, FitsFinish
<1>6. CASE in.op = "update" /\ ToPoster(r, in, [entity[r] EXCEPT !.title = t])
  <2>1. /\ [entity[r] EXCEPT !.title = t] \in Entities
        /\ [entity[r] EXCEPT !.title = t].title = t
    BY <1>3, <1>4 DEF Entities, Titles
  <2> QED
    BY <1>1, <1>4, <1>6, <2>1, FitsToPoster
<1>7. CASE in.op # "update"
  <2> DEFINE p == IF in.op = "create" THEN in.url ELSE ""
             e == [title |-> t, poster |-> p]
             step == IF in.file = "good" THEN "put" ELSE "insert"
  <2>1. CASE Continue(r, step, e)
    <3>1. pc'[r] = step /\ entity'[r] = e /\ input' = input
      BY <1>2, <2>1 DEF Continue, HandlersOK
    <3>2. e.title = t /\ e.poster = p /\ step \in {"put", "insert"}
      OBVIOUS
    <3>3. in.op = "create" => in.file = "none"
      BY <1>3, InputFacts
    <3>4. step = "put" <=> in.file = "good"
      OBVIOUS
    <3> HIDE DEF step, e
    <3>5. entity'[r].title = t /\ entity'[r].poster = p
      BY <3>1, <3>2
    <3>6. NewFits(r)'
      BY <1>7, <3>1, <3>2, <3>3, <3>4, <3>5 DEF NewFits
    <3> QED
      BY <1>7, <3>1, <3>6 DEF EditFits
  <2> QED
    BY <1>5, <1>7, <2>1 DEF ExistsWithTitle
<1> QED
  BY <1>5, <1>6, <1>7 DEF ExistsWithTitle

LEMMA FitsDeleteOldPoster ==
  ASSUME TypeOK, FitsInv, NEW r \in Requests, DeleteOldPoster(r)
  PROVE  NewFits(r)' /\ EditFits(r)'
<1> DEFINE in == input[r]
           e  == entity[r]
<1>1. pc[r] = "delete" /\ pc[r] \in Steps
  BY DEF DeleteOldPoster, Steps, DbSteps
<1>2. HandlersOK
  BY TypeParts
<1>3. /\ in.op \in {"update", "remove"} /\ e \in Entities
      /\ in.url \in Posters \union {"absent"}
  BY <1>1, <1>2, AtStep, InputFacts, StepsFacts
<1>4. EditFits(r) /\ in.op \notin Creates
  BY <1>3 DEF FitsInv, Creates
<1>5. CASE in.op = "remove"
  <2>1. pc'[r] = "soft" /\ input' = input
    BY <1>2, <1>5 DEF DeleteOldPoster, Continue, HandlersOK
  <2> QED
    BY <1>5, <2>1 DEF NewFits, EditFits
<1>6. CASE in.op = "update" /\ in.file = "good"
  <2>1. pc'[r] = "put" /\ entity'[r] = e /\ input' = input
    BY <1>2, <1>6 DEF DeleteOldPoster, Continue, HandlersOK
  <2> QED
    BY <1>1, <1>4, <1>6, <2>1 DEF NewFits, EditFits
<1>7. CASE in.op = "update" /\ in.file # "good"
  <2>1. pc'[r] = "load" /\ entity'[r] = WithUrl(in, e) /\ input' = input
    BY <1>2, <1>7 DEF DeleteOldPoster, Continue, HandlersOK
  <2>2. WithUrl(in, e).title = e.title
    BY <1>3 DEF WithUrl, Entities
  <2>3. WithUrl(in, e).poster = IF in.url # "absent" THEN in.url ELSE e.poster
    BY <1>3, <1>7 DEF WithUrl, Entities
  <2>4. e.poster \in Posters
    BY <1>3 DEF Entities
  <2> QED
    BY <1>1, <1>4, <1>7, <2>1, <2>2, <2>3, <2>4 DEF NewFits, EditFits
<1> QED
  BY <1>3, <1>5, <1>6, <1>7

LEMMA FitsPutObject ==
  ASSUME TypeOK, FitsInv, NEW r \in Requests, PutObject(r)
  PROVE  NewFits(r)' /\ EditFits(r)'
<1> DEFINE in == input[r]
           e  == [entity[r] EXCEPT !.poster = r]
<1>1. pc[r] = "put" /\ pc[r] \in Steps
  BY DEF PutObject, Steps, DbSteps
<1>2. HandlersOK
  BY TypeParts
<1>3. /\ in.op \in {"createWithUpload", "uploadPoster", "update"}
      /\ entity[r] \in Entities
  BY <1>1, <1>2, AtStep, InputFacts, StepsFacts DEF Creates
<1>4. /\ NewFits(r) /\ EditFits(r) /\ e.poster = r /\ e.title = entity[r].title
      /\ r \in Posters
  BY <1>3 DEF FitsInv, Entities, Posters, NewPosters, StoredPosters, Keys
<1>5. CASE \E code : Finish(r, code)
  BY <1>5, FitsFinish
<1>6. CASE in.op = "createWithUpload" /\ Continue(r, "insert", e)
  <2>1. pc'[r] = "insert" /\ entity'[r] = e /\ input' = input
    BY <1>2, <1>6 DEF Continue, HandlersOK
  <2> QED
    BY <1>1, <1>4, <1>6, <2>1 DEF NewFits, EditFits, Creates
<1>7. CASE in.op = "update" /\ Continue(r, "load", e)
  <2>1. pc'[r] = "load" /\ entity'[r] = e /\ input' = input
    BY <1>2, <1>7 DEF Continue, HandlersOK
  <2> QED
    BY <1>1, <1>4, <1>7, <2>1 DEF NewFits, EditFits, Creates
<1> QED
  BY <1>3, <1>5, <1>6, <1>7 DEF PutObject

LEMMA FitsStep ==
  ASSUME TypeOK, FitsInv, NEW r \in Requests, Step(r)
  PROVE  NewFits(r)' /\ EditFits(r)'
<1>1. HandlersOK
  BY TypeParts
<1>2. CASE Start(r)
  <2>1. PICK in \in Inputs :
          /\ input' = [input EXCEPT ![r] = in]
          /\ \/ pc' = [pc EXCEPT ![r] = FirstStep(in)] /\ Valid(in)
             \/ pc' = [pc EXCEPT ![r] = "done"]
    BY <1>2 DEF Start
  <2>2. /\ in.op \in Creates \union {"uploadPoster", "update", "remove"}
        /\ in.file \in FileKinds
    BY InputFacts
  <2>3. /\ FirstStep(in) \in {"exists", "put", "find"}
        /\ FirstStep(in) = "put" => in.op = "uploadPoster"
        /\ in.op = "update" => FirstStep(in) = "find"
    BY <2>2 DEF FirstStep, Creates
  <2>4. input'[r] = in /\ pc'[r] \in {FirstStep(in), "done"}
    BY <1>1, <2>1 DEF HandlersOK
  <2>5. pc'[r] = "put" => in.file = "good"
    BY <1>1, <2>1, <2>2, <2>3 DEF Valid, FileKinds, HandlersOK
  <2> QED
    BY <2>3, <2>4, <2>5 DEF NewFits, EditFits, Creates
<1>3. CASE Load(r)
  <2>1. CASE Finish(r, "200")
    BY <2>1, FitsFinish
  <2>2. CASE pc' = [pc EXCEPT ![r] = "write"] /\ UNCHANGED <<input, entity>>
    <3>1. pc[r] = "load" /\ pc'[r] = "write"
      BY <1>1, <1>3, <2>2 DEF Load, HandlersOK
    <3> QED
      BY <2>2, <3>1 DEF NewFits, EditFits, FitsInv
  <2> QED
    BY <1>3, <2>1, <2>2 DEF Load
<1>4. CASE Insert(r) \/ Write(r) \/ SoftDelete(r) \/ DbError(r) \/ Crash(r)
  BY <1>4, FitsFinish DEF Insert, Write, SoftDelete, DbError, Crash, Acknowledge
<1> QED
  BY <1>2, <1>3, <1>4, FitsFindById, FitsExistsWithTitle, FitsDeleteOldPoster,
     FitsPutObject
  DEF Step, Handle

\* What is written to the table is a trimmed title.
LEMMA RowsFit ==
  ASSUME TypeOK, FitsInv, NEW r \in Requests, Step(r), NEW m \in MovieIds,
         NamedRowsExist
  PROVE  RowFits(m)'
<1>1. StorageTypeOK /\ HandlersOK
  BY TypeParts
<1>2. CASE UNCHANGED movies
  BY <1>2 DEF FitsInv, RowFits, Exists
<1>3. CASE Insert(r) /\ ~UNCHANGED movies
  <2> DEFINE row == [state |-> "live", title |-> entity[r].title,
                     poster |-> entity[r].poster]
  <2>1. pc[r] = "insert" /\ pc[r] \in Steps
    BY <1>3 DEF Insert, Steps, DbSteps
  <2>2. input[r].op \in Creates /\ input[r].title \in RawTitles
    BY <1>1, <2>1, AtStep, InputFacts, StepsFacts
  <2>3. entity[r].title = Trim[input[r].title]
    BY <2>1, <2>2 DEF FitsInv, NewFits
  <2>6. entity[r].title \in RawTitles /\ Trim[entity[r].title] = entity[r].title
    BY <2>2, <2>3, TrimAssumption
  <2>4. movies' = [movies EXCEPT ![r] = row]
    BY <1>3 DEF Insert, StoreRow
  <2>5. movies'[m] = row \/ movies'[m] = movies[m]
    BY <1>1, <2>4 DEF StorageTypeOK
  <2> QED
    BY <2>5, <2>6 DEF FitsInv, RowFits, Exists
<1>4. CASE Write(r) /\ ~UNCHANGED movies
  <2> DEFINE n   == input[r].id
             row == Merged(n, entity[r], diff[r])
  <2>1. pc[r] = "write" /\ pc[r] \in Steps
    BY <1>4 DEF Write, Steps, DbSteps
  <2>2. input[r].op = "update" /\ n \in MovieIds
    BY <1>1, <2>1, AtStep, InputFacts, StepsFacts
  <2>3. entity[r].title \in RawTitles /\ Trim[entity[r].title] = entity[r].title
    BY <2>1, <2>2 DEF FitsInv, EditFits
  <2>4. row.title \in {entity[r].title, movies[n].title}
    BY DEF Merged
  <2>5. RowFits(n) /\ Exists(n)
    BY <2>2 DEF FitsInv, NamedRowsExist
  <2>6. movies' = [movies EXCEPT ![n] = row]
    BY <1>4 DEF Write, StoreRow
  <2>7. movies'[m] = row \/ movies'[m] = movies[m]
    BY <1>1, <2>6 DEF StorageTypeOK
  <2> QED
    BY <2>3, <2>4, <2>5, <2>7 DEF FitsInv, RowFits, Exists
<1>5. CASE SoftDelete(r)
  <2>1. pc[r] = "soft" /\ pc[r] \in Steps
    BY <1>5 DEF SoftDelete, Steps, DbSteps
  <2>2. input[r].id \in MovieIds
    BY <1>1, <2>1, AtStep, InputFacts, StepsFacts
  <2>3. Exists(input[r].id)
    BY <2>2 DEF NamedRowsExist
  <2>4. movies'[m].title = movies[m].title /\ (Exists(m)' => Exists(m))
    BY <1>1, <1>5, <2>2, <2>3
    DEF SoftDelete, MarkDeleted, StorageTypeOK, Rows, Exists
  <2> QED
    BY <2>4 DEF FitsInv, RowFits
<1> QED
  BY <1>2, <1>3, <1>4, <1>5
  DEF Step, Start, Handle, FindById, ExistsWithTitle, DeleteOldPoster, PutObject,
      Load, DbError, Crash, storage

LEMMA FitsInit == Init => FitsInv
<1> SUFFICES ASSUME Init PROVE FitsInv
  OBVIOUS
<1>1. ASSUME NEW m \in MovieIds PROVE RowFits(m)
  <2>1. CASE m \in Seeds
    BY <2>1, SeedAssumption DEF Init, StorageInit, RowFits
  <2>2. CASE m \notin Seeds
    <3>1. movies[m] = NoRow
      BY <2>2 DEF Init, StorageInit
    <3>2. NoRow.state = "absent"
      BY DEF NoRow
    <3> QED
      BY <3>1, <3>2 DEF RowFits, Exists
  <2> QED
    BY <2>1, <2>2
<1>2. ASSUME NEW r \in Requests PROVE NewFits(r) /\ EditFits(r)
  BY DEF Init, NewFits, EditFits
<1> QED
  BY <1>1, <1>2 DEF FitsInv

LEMMA FitsNext == TypeOK /\ NamedRowsExist /\ FitsInv /\ [Next]_vars => FitsInv'
<1> SUFFICES ASSUME TypeOK, NamedRowsExist, FitsInv, [Next]_vars
             PROVE  FitsInv'
  OBVIOUS
<1>1. CASE UNCHANGED vars
  BY <1>1 DEF vars, storage, FitsInv, RowFits, NewFits, EditFits, Exists
<1>2. ASSUME NEW r \in Requests, Step(r)
      PROVE  FitsInv'
  <2>1. ASSUME NEW m \in MovieIds PROVE RowFits(m)'
    BY <1>2, RowsFit
  <2>2. ASSUME NEW q \in Requests PROVE NewFits(q)' /\ EditFits(q)'
    <3>1. CASE q = r
      BY <1>2, <3>1, FitsStep
    <3>2. CASE q # r
      <4>1. pc'[q] = pc[q] /\ input'[q] = input[q] /\ entity'[q] = entity[q]
        BY <1>2, <3>2, HandlerSteps
      <4>2. NewFits(q) /\ EditFits(q)
        BY DEF FitsInv
      <4> QED
        BY <4>1, <4>2 DEF NewFits, EditFits
    <3> QED
      BY <3>1, <3>2
  <2> QED
    BY <2>1, <2>2 DEF FitsInv
<1> QED
  BY <1>1, <1>2 DEF Next, AllDone

LEMMA ImplInit == Init => ImplInv
BY TypeInit, RowsInit, CreateInit, FitsInit DEF ImplInv

LEMMA ImplNext == ImplInv /\ [Next]_vars => ImplInv'
BY TypeNext, RowsNext, CreateNext, FitsNext DEF ImplInv, RowsInv

-----------------------------------------------------------------------------
(* The steps of the handlers are steps of the catalogue.                   *)

Quiet == UNCHANGED <<movies, input, status, Versions>>

Implements(r) ==
  \/ Promised!Ask(r)     \/ Promised!NotFound(r) \/ Promised!Conflict(r)
  \/ Promised!Fail(r)    \/ Promised!Publish(r)  \/ Promised!Add(r)
  \/ Promised!Read(r)    \/ Promised!Edit(r)     \/ Promised!Keep(r)
  \/ Promised!Drop(r)    \/ Quiet

\* A request whose handler has ended remembers nothing of a row ...
LEMMA FinishForgets ==
  ASSUME TypeOK, NEW r \in Requests, NEW code, Finish(r, code)
  PROVE  Versions' = [Versions EXCEPT ![r] = Promised!NothingRead]
<1>1. HandlersOK
  BY TypeParts
<1>2. /\ pc'[r] = "done" /\ input' = input
      /\ \A q \in Requests \ {r} : pc'[q] = pc[q] /\ entity'[q] = entity[q]
  BY <1>1 DEF Finish, HandlersOK
<1>3. Version(r)' = Promised!NothingRead
  BY <1>2 DEF Version, Steps, DbSteps, Promised!NothingRead
<1>4. \A q \in Requests \ {r} : Version(q)' = Version(q)
  BY <1>2 DEF Version
<1> QED
  BY <1>3, <1>4 DEF Versions

\* ... and one that goes on remembers what it is about to, the others as before.
LEMMA ContinueRemembers ==
  ASSUME TypeOK, NEW r \in Requests, NEW step, NEW e, Continue(r, step, e)
  PROVE  /\ pc'[r] = step /\ entity'[r] = e /\ input' = input /\ status' = status
         /\ Versions' = [Versions EXCEPT ![r] = Version(r)']
<1>1. HandlersOK
  BY TypeParts
<1>2. /\ pc'[r] = step /\ entity'[r] = e /\ input' = input /\ status' = status
      /\ \A q \in Requests \ {r} : pc'[q] = pc[q] /\ entity'[q] = entity[q]
  BY <1>1 DEF Continue, HandlersOK
<1>3. \A q \in Requests \ {r} : Version(q)' = Version(q)
  BY <1>2 DEF Version
<1> QED
  BY <1>2, <1>3 DEF Versions

\* A step on which the columns that were not named stay shows nothing.
LEMMA QuietContinue ==
  ASSUME TypeOK, NEW r \in Requests, pc[r] \in Steps \ {"find"}, UNCHANGED movies,
         NEW step \in Steps \ {"find"}, NEW e, Continue(r, step, e),
         input[r].op = "update" =>
           /\ input[r].title = "none" => e.title = entity[r].title
           /\ input[r].file # "good" /\ input[r].url = "absent" =>
                e.poster = entity[r].poster
  PROVE  Quiet
<1>1. /\ pc'[r] = step /\ entity'[r] = e /\ input' = input /\ status' = status
      /\ Versions' = [Versions EXCEPT ![r] = Version(r)']
  BY ContinueRemembers
<1>2. Version(r)' = Version(r)
  BY <1>1 DEF Version
<1>3. Versions' = Versions
  BY <1>1, <1>2 DEF Versions
<1> QED
  BY <1>1, <1>3 DEF Quiet

\* A handler that ends answers its request.
LEMMA FinishAnswers ==
  ASSUME TypeOK, NEW r \in Requests, pc[r] \in Steps,
         NEW codes, NEW code \in codes, Finish(r, code)
  PROVE  Promised!Answer(r, codes)
<1>1. HandlersOK
  BY TypeParts
<1>2. status[r] = "none" /\ input[r] # NoInput
  BY <1>1, AtStep DEF HandlersOK, Steps, DbSteps
<1>3. Versions' = [Versions EXCEPT ![r] = Promised!NothingRead]
  BY FinishForgets
<1> QED
  BY <1>2, <1>3 DEF Finish, Promised!Answer

LEMMA AcknowledgeAnswers ==
  ASSUME TypeOK, NEW r \in Requests, pc[r] \in Steps,
         NEW code, Acknowledge(r, code)
  PROVE  Promised!Answer(r, {code, "500", "lost"})
<1>1. PICK c \in Acknowledgements(code) : Finish(r, c)
  BY DEF Acknowledge
<1>2. c \in {code, "500", "lost"}
  BY DEF Acknowledgements
<1> QED
  BY <1>1, <1>2, FinishAnswers

\* The poster stage changes the poster only if the request names one.
LEMMA ToPosterKeeps ==
  ASSUME NEW r, NEW in, NEW e \in Entities, ToPoster(r, in, e)
  PROVE  \E step \in Steps \ {"find"}, f \in [title : Titles, poster : Posters \union {in.url}] :
           /\ Continue(r, step, f)
           /\ f.title = e.title
           /\ in.file # "good" /\ in.url = "absent" => f.poster = e.poster
<1>1. e \in [title : Titles, poster : Posters \union {in.url}]
  BY DEF Entities
<1>2. /\ WithUrl(in, e) \in [title : Titles, poster : Posters \union {in.url}]
      /\ WithUrl(in, e).title = e.title
      /\ in.url = "absent" => WithUrl(in, e).poster = e.poster
  BY DEF WithUrl, Entities
<1>3. {"delete", "put", "load"} \subseteq Steps \ {"find"}
  BY DEF Steps, DbSteps
<1> QED
  BY <1>1, <1>2, <1>3 DEF ToPoster

LEMMA StartImplements ==
  ASSUME TypeOK, NEW r \in Requests, Start(r)
  PROVE  Promised!Ask(r)
<1>1. HandlersOK /\ pc[r] = "idle" /\ input[r] = NoInput
  BY TypeParts DEF Start, HandlersOK
<1>2. PICK in \in Inputs :
        /\ input' = [input EXCEPT ![r] = in]
        /\ \/ pc' = [pc EXCEPT ![r] = FirstStep(in)]
           \/ pc' = [pc EXCEPT ![r] = "done"]
  BY DEF Start
<1>3. /\ input'[r] = in /\ pc'[r] \in {FirstStep(in), "done"}
      /\ \A q \in Requests \ {r} : /\ input'[q] = input[q] /\ pc'[q] = pc[q]
                                   /\ entity'[q] = entity[q]
  BY <1>1, <1>2 DEF HandlersOK, Start
<1>4. in.op = "update" => FirstStep(in) = "find"
  BY DEF FirstStep
<1>5. Version(r) = Promised!NothingRead /\ Version(r)' = Promised!NothingRead
  BY <1>1, <1>3, <1>4 DEF Version, Steps, DbSteps, Promised!NothingRead
<1>6. \A q \in Requests \ {r} : Version(q)' = Version(q)
  BY <1>3 DEF Version
<1>7. Versions' = Versions
  BY <1>5, <1>6 DEF Versions
<1> QED
  BY <1>1, <1>7 DEF Start, Promised!Ask, storage

LEMMA FindByIdImplements ==
  ASSUME TypeOK, NEW r \in Requests, FindById(r)
  PROVE  Implements(r)
<1> DEFINE in == input[r]
           e  == [title |-> movies[in.id].title, poster |-> movies[in.id].poster]
<1>1. pc[r] = "find" /\ pc[r] \in Steps /\ UNCHANGED movies
  BY DEF FindById, Steps, DbSteps, storage
<1>2. StorageTypeOK /\ HandlersOK
  BY TypeParts
<1>3. input[r].op \in {"update", "remove"} /\ in.id \in MovieIds
  BY <1>1, <1>2, AtStep, InputFacts, StepsFacts
<1>4. CASE ~Live(input[r].id) /\ Finish(r, "404")
  <2>1. Promised!Answer(r, {"404"})
    BY <1>1, <1>4, FinishAnswers
  <2> QED
    BY <1>1, <1>3, <1>4, <2>1
    DEF Implements, Promised!NotFound, Promised!Listed, Live
<1>5. CASE /\ in.op = "remove"
           /\ \E step \in {"delete", "soft"} : Continue(r, step, e)
  <2>1. PICK step \in {"delete", "soft"} : Continue(r, step, e)
    BY <1>5
  <2>2. /\ input' = input /\ status' = status
        /\ Versions' = [Versions EXCEPT ![r] = Version(r)']
    BY <2>1, ContinueRemembers
  <2>3. Version(r)' = Version(r)
    BY <1>5, <2>2 DEF Version
  <2> QED
    BY <1>1, <2>2, <2>3 DEF Versions, Quiet, Implements
<1>6. CASE Live(in.id) /\ in.op = "update"
  <2>1. e \in Entities
    BY <1>2, <1>3, StoredEntity
  <2>2. PICK step \in Steps \ {"find"}, f \in [title : Titles, poster : Posters \union {in.url}] :
          /\ Continue(r, step, f)
          /\ f.title = movies[in.id].title
          /\ in.file # "good" /\ in.url = "absent" => f.poster = movies[in.id].poster
    <3>1. CASE in.title \notin {"none", e.title}
      BY <1>1, <1>6, <2>1, <3>1 DEF FindById, Entities, Steps, DbSteps
    <3>2. CASE in.title \in {"none", e.title}
      BY <1>1, <1>6, <2>1, <3>2, ToPosterKeeps DEF FindById
    <3> QED
      BY <3>1, <3>2
  <2>3. /\ pc'[r] = step /\ entity'[r] = f /\ input' = input /\ status' = status
        /\ Versions' = [Versions EXCEPT ![r] = Version(r)']
    BY <2>2, ContinueRemembers
  <2>4. /\ Promised!TitleWanted(r) = {} <=> in.title = "none"
        /\ Promised!PosterWanted(r) = {} <=> in.file # "good" /\ in.url = "absent"
    BY DEF Promised!TitleWanted, Promised!PosterWanted
  <2>5. Version(r)' =
          [read   |-> TRUE,
           title  |-> IF Promised!TitleWanted(r)  = {} THEN movies[in.id].title  ELSE "none",
           poster |-> IF Promised!PosterWanted(r) = {} THEN movies[in.id].poster ELSE "none"]
    BY <1>6, <2>2, <2>3, <2>4 DEF Version
  <2>6. ~Versions[r].read /\ status[r] = "none"
    BY <1>1, <1>2 DEF Versions, Version, HandlersOK
  <2>7. Promised!Read(r)
    BY <1>1, <1>6, <2>3, <2>5, <2>6 DEF Promised!Read, Promised!Listed, Live
  <2> QED
    BY <2>7 DEF Implements
<1> QED
  BY <1>1, <1>3, <1>4, <1>5, <1>6 DEF FindById

LEMMA ExistsWithTitleImplements ==
  ASSUME TypeOK, NEW r \in Requests, ExistsWithTitle(r)
  PROVE  Implements(r)
<1>1. pc[r] = "exists" /\ pc[r] \in Steps /\ UNCHANGED movies
  BY DEF ExistsWithTitle, Steps, DbSteps, storage
<1>2. HandlersOK
  BY TypeParts
<1>3. input[r].op \in {"create", "createWithUpload", "update"}
  BY <1>1, <1>2, AtStep, InputFacts, StepsFacts DEF Creates
<1>4. CASE ExistsLiveTitle(input[r].title) /\ Finish(r, "409")
  <2>1. Promised!Answer(r, {"409"})
    BY <1>1, <1>4, FinishAnswers
  <2>2. \E m \in Promised!Ids :
          Promised!Listed(m) /\ movies[m].title = input[r].title
    BY <1>4
    DEF ExistsLiveTitle, Live, MovieIds, Promised!Ids, Promised!Listed
  <2> QED
    BY <1>1, <1>3, <2>1, <2>2 DEF Implements, Promised!Conflict
<1> DEFINE in == input[r]
           e  == [entity[r] EXCEPT !.title = Trim[in.title]]
<1>5. CASE in.op = "update" /\ ToPoster(r, in, e)
  <2>3. in \in Inputs /\ in.title # "none" /\ entity[r] \in Entities
    BY <1>1, <1>2, AtStep DEF HandlersOK
  <2>4. in.title \in RawTitles /\ Trim[in.title] \in Titles
    BY <2>3, InputFacts, TrimAssumption DEF Titles
  <2>1. e \in Entities /\ e.poster = entity[r].poster
    BY <2>3, <2>4 DEF Entities
  <2>5. ToPoster(r, in, e)
    BY <1>5
  <2> HIDE DEF e
  <2>2. PICK step \in Steps \ {"find"}, f \in [title : Titles, poster : Posters \union {in.url}] :
          /\ Continue(r, step, f)
          /\ in.file # "good" /\ in.url = "absent" => f.poster = e.poster
    BY <2>1, <2>5, ToPosterKeeps
  <2> QED
    BY <1>1, <2>1, <2>2, <2>3, QuietContinue DEF Implements
<1>6. CASE in.op # "update" /\ \E step \in {"put", "insert"} : \E f : Continue(r, step, f)
  BY <1>1, <1>6, QuietContinue DEF Implements, Steps, DbSteps
<1> QED
  BY <1>4, <1>5, <1>6 DEF ExistsWithTitle

LEMMA FailImplements ==
  ASSUME TypeOK, NEW r \in Requests, pc[r] \in Steps,
         Finish(r, "500") \/ Finish(r, "lost"), UNCHANGED movies
  PROVE  Implements(r)
<1>1. Promised!Answer(r, {"500", "lost"})
  BY FinishAnswers
<1> QED
  BY <1>1 DEF Implements, Promised!Fail

\* deleteOldPoster() changes nothing that a client sees, nor what update() will
\* write back.
LEMMA DeleteOldPosterImplements ==
  ASSUME TypeOK, NEW r \in Requests, DeleteOldPoster(r)
  PROVE  Implements(r)
<1> DEFINE in == input[r]
<1>1. pc[r] = "delete" /\ pc[r] \in Steps /\ UNCHANGED movies
  BY DEF DeleteOldPoster, Steps, DbSteps
<1>2. entity[r] \in Entities
  BY TypeParts DEF HandlersOK
<1>3. /\ WithUrl(in, entity[r]).title = entity[r].title
      /\ in.url = "absent" => WithUrl(in, entity[r]).poster = entity[r].poster
  BY <1>2 DEF WithUrl, Entities
<1>4. {"soft", "put", "load"} \subseteq Steps \ {"find"}
  BY DEF Steps, DbSteps
<1>5. \E step \in Steps \ {"find"}, f \in {entity[r], WithUrl(in, entity[r])} :
        Continue(r, step, f)
  BY <1>4 DEF DeleteOldPoster
<1> QED
  BY <1>1, <1>3, <1>5, QuietContinue DEF Implements

LEMMA PutObjectImplements ==
  ASSUME TypeOK, FitsInv, NEW r \in Requests, PutObject(r)
  PROVE  Implements(r)
<1>1. pc[r] = "put" /\ pc[r] \in Steps /\ UNCHANGED movies
  BY DEF PutObject, Steps, DbSteps
<1>2. HandlersOK
  BY TypeParts
<1>3. input[r].op \in {"createWithUpload", "uploadPoster", "update"}
  BY <1>1, <1>2, AtStep, InputFacts, StepsFacts DEF Creates
<1>4. CASE Finish(r, "500") \/ Finish(r, "lost")
  BY <1>1, <1>4, FailImplements
<1>5. CASE input[r].op = "uploadPoster" /\ Finish(r, "201")
  <2>1. Promised!Answer(r, {"201"})
    BY <1>1, <1>5, FinishAnswers
  <2> QED
    BY <1>1, <1>5, <2>1 DEF Implements, Promised!Publish
<1>6. CASE \E step \in {"insert", "load"} :
             Continue(r, step, [entity[r] EXCEPT !.poster = r])
  <2>1. [entity[r] EXCEPT !.poster = r].title = entity[r].title
    BY <1>2 DEF HandlersOK, Entities
  <2>2. input[r].file = "good"
    BY <1>1 DEF FitsInv, NewFits
  <2>3. {"insert", "load"} \subseteq Steps \ {"find"}
    BY DEF Steps, DbSteps
  <2> QED
    BY <1>1, <1>6, <2>1, <2>2, <2>3, QuietContinue DEF Implements
<1> QED
  BY <1>3, <1>4, <1>5, <1>6 DEF PutObject

LEMMA InsertImplements ==
  ASSUME ImplInv, NEW r \in Requests, Insert(r)
  PROVE  Implements(r)
<1> DEFINE in  == input[r]
           row == [state |-> "live", title |-> entity[r].title,
                   poster |-> entity[r].poster]
<1>1. TypeOK /\ CreateAnswersMatchRows /\ NewFits(r)
  BY DEF ImplInv, FitsInv
<1>2. HandlersOK
  BY <1>1, TypeParts
<1>3. pc[r] = "insert" /\ pc[r] \in Steps
  BY DEF Insert, Steps, DbSteps
<1>4. in.op \in Creates /\ status[r] = "none"
  BY <1>2, <1>3, AtStep, InputFacts, StepsFacts
<1>5. CASE ~Accepts(r, row) /\ Finish(r, "500") /\ UNCHANGED movies
  BY <1>1, <1>3, <1>5, FailImplements
<1>6. CASE Accepts(r, row) /\ StoreRow(r, row) /\ Acknowledge(r, "201")
  <2>1. movies[r].state = "absent"
    BY <1>1, <1>4 DEF CreateAnswersMatchRows, Acknowledgements
  <2>2. Promised!Answer(r, {"201", "500", "lost"})
    BY <1>1, <1>3, <1>6, AcknowledgeAnswers
  <2>3. /\ entity[r].title = Trim[in.title]
        /\ entity[r].poster = IF in.op = "create" THEN in.url
                              ELSE IF in.file = "good" THEN r ELSE ""
    BY <1>1, <1>3, <1>4 DEF NewFits
  <2>4. Promised!Free(Trim[in.title], r)
    BY <1>6, <2>3
    DEF Accepts, TitleTaken, Promised!Free, Promised!Ids, MovieIds
  <2>5. movies' = [movies EXCEPT ![r] =
          [state  |-> "live",
           title  |-> Trim[in.title],
           poster |-> IF in.op = "create" THEN in.url
                      ELSE IF in.file = "good" THEN r ELSE ""]]
    BY <1>6, <2>3 DEF StoreRow
  <2>6. in.op \in {"create", "createWithUpload"}
    BY <1>4 DEF Creates
  <2>7. Promised!Add(r)
    BY <2>1, <2>2, <2>4, <2>5, <2>6 DEF Promised!Add
  <2> QED
    BY <2>7 DEF Implements
<1> QED
  BY <1>5, <1>6 DEF Insert

\* A save() that finds no column to write leaves a row that is what the request
\* asked for: the entity holds every value the request names.
LEMMA LoadImplements ==
  ASSUME ImplInv, NEW r \in Requests, Load(r)
  PROVE  Implements(r)
<1> DEFINE in == input[r]
           m  == in.id
<1>1. TypeOK /\ EditFits(r)
  BY DEF ImplInv, FitsInv
<1>2. HandlersOK
  BY <1>1, TypeParts
<1>3. pc[r] = "load" /\ pc[r] \in Steps /\ UNCHANGED movies
  BY DEF Load, Steps, DbSteps, storage
<1>4. in.op = "update" /\ in \in Inputs
  BY <1>2, <1>3, AtStep, InputFacts, StepsFacts
<1>5. CASE ChangedColumns(m, entity[r]) = {} /\ Finish(r, "200")
  <2>1. Promised!Answer(r, {"200"})
    BY <1>1, <1>3, <1>5, FinishAnswers
  <2>2. /\ Live(m) /\ movies[m].title = entity[r].title
        /\ movies[m].poster = entity[r].poster
    BY <1>5 DEF ChangedColumns
  <2>3. in.title # "none" => movies[m].title = Trim[in.title]
    BY <1>1, <1>3, <1>4, <2>2 DEF EditFits
  <2>4. movies[m].poster \in IF in.file = "good" THEN {r}
                             ELSE IF in.url # "absent" THEN {in.url} ELSE Posters
    BY <1>1, <1>3, <1>4, <2>2 DEF EditFits
  <2>5. /\ \A t \in Promised!TitleWanted(r)  : movies[m].title = t
        /\ \A p \in Promised!PosterWanted(r) : movies[m].poster = p
    BY <2>3, <2>4 DEF Promised!TitleWanted, Promised!PosterWanted
  <2>6. Promised!Keep(r)
    BY <1>3, <1>4, <2>1, <2>2, <2>5 DEF Promised!Keep, Promised!Listed, Live
  <2> QED
    BY <2>6 DEF Implements
<1>6. CASE pc' = [pc EXCEPT ![r] = "write"] /\ UNCHANGED <<input, entity, status>>
  <2>1. \A q \in Requests : Version(q)' = Version(q)
    BY <1>2, <1>3, <1>6 DEF Version, Steps, DbSteps, HandlersOK
  <2> QED
    BY <1>3, <1>6, <2>1 DEF Implements, Quiet, Versions
<1> QED
  BY <1>5, <1>6 DEF Load

LEMMA WriteImplements ==
  ASSUME ImplInv, NEW r \in Requests, Write(r)
  PROVE  Implements(r)
<1> DEFINE in  == input[r]
           m   == in.id
           row == Merged(m, entity[r], diff[r])
<1>1. TypeOK /\ EditFits(r) /\ NamedRowsExist
  BY DEF ImplInv, FitsInv, RowsInv
<1>2. HandlersOK
  BY <1>1, TypeParts
<1>3. pc[r] = "write" /\ pc[r] \in Steps
  BY DEF Write, Steps, DbSteps
<1>4. in.op = "update" /\ m \in MovieIds /\ Exists(m) /\ RowFits(m)
  BY <1>1, <1>2, <1>3, AtStep, InputFacts, StepsFacts
  DEF NamedRowsExist, ImplInv, FitsInv
<1>5. CASE ~Accepts(m, row) /\ Finish(r, "500") /\ UNCHANGED movies
  BY <1>1, <1>3, <1>5, FailImplements
<1>6. CASE Accepts(m, row) /\ StoreRow(m, row) /\ Acknowledge(r, "200")
  <2>1. Promised!Answer(r, {"200", "500", "lost"})
    BY <1>1, <1>3, <1>6, AcknowledgeAnswers
  <2>2. Promised!Free(row.title, m)
    BY <1>6 DEF Accepts, TitleTaken, Promised!Free, Promised!Ids, MovieIds
  <2>3. /\ row.title \in {entity[r].title, movies[m].title}
        /\ row.poster \in {entity[r].poster, movies[m].poster}
        /\ row.state \in {"live", movies[m].state}
        /\ row = [state |-> row.state, title |-> row.title, poster |-> row.poster]
    BY DEF Merged
  <2>4. /\ entity[r].title \in RawTitles
        /\ in.title # "none" => entity[r].title = Trim[in.title]
    BY <1>1, <1>3, <1>4 DEF EditFits
  <2>11. Versions[r] =
           [read   |-> TRUE,
            title  |-> IF in.title = "none" THEN entity[r].title ELSE "none",
            poster |-> IF in.file # "good" /\ in.url = "absent"
                       THEN entity[r].poster ELSE "none"]
    BY <1>3, <1>4 DEF Versions, Version, Steps, DbSteps
  <2>12. Versions[r].read
    BY <2>11
  <2>13. movies[m].title \in RawTitles /\ entity[r].title \in RawTitles
    BY <1>4, <2>4 DEF RowFits
  <2>14. /\ movies[m].title \in Promised!EditedTitle(r)
         /\ in.title = "none" => entity[r].title \in Promised!EditedTitle(r)
    <3>1. in.title = "none" => Versions[r].title = entity[r].title
      BY <2>11
    <3>2. movies[m].title # "none" /\ entity[r].title # "none"
      BY <2>13, NamesAssumption
    <3> QED
      BY <3>1, <3>2 DEF Promised!EditedTitle
  <2>15. in.title # "none" => entity[r].title \in Promised!EditedTitle(r)
    BY <2>4 DEF Promised!EditedTitle, Promised!TitleWanted
  <2>5. row.title \in Promised!EditedTitle(r)
    BY <2>3, <2>14, <2>15
  <2>6. entity[r].poster \in IF in.file = "good" THEN {r}
                             ELSE IF in.url # "absent" THEN {in.url} ELSE Posters
    BY <1>1, <1>3, <1>4 DEF EditFits
  <2>7. row.poster # "none"
    BY <1>6, NamesAssumption DEF Accepts, StoredPosters, Keys, MovieIds
  <2>8. row.poster \in Promised!EditedPoster(r)
    BY <2>3, <2>6, <2>7, <2>11
    DEF Promised!EditedPoster, Promised!PosterWanted
  <2>9. movies' = [movies EXCEPT ![m] = [state |-> row.state, title |-> row.title,
                                         poster |-> row.poster]]
    BY <1>6, <2>3 DEF StoreRow
  <2> HIDE DEF row
  <2>10. Promised!Edit(r)
    BY <1>4, <2>1, <2>2, <2>3, <2>5, <2>8, <2>9, <2>12 DEF Promised!Edit
  <2> QED
    BY <2>10 DEF Implements
<1> QED
  BY <1>5, <1>6 DEF Write

LEMMA SoftDeleteImplements ==
  ASSUME ImplInv, NEW r \in Requests, SoftDelete(r)
  PROVE  Implements(r)
<1>1. TypeOK /\ NamedRowsExist
  BY DEF ImplInv, RowsInv
<1>2. HandlersOK
  BY <1>1, TypeParts
<1>3. pc[r] = "soft" /\ pc[r] \in Steps
  BY DEF SoftDelete, Steps, DbSteps
<1>4. input[r].op = "remove" /\ Exists(input[r].id)
  BY <1>1, <1>2, <1>3, AtStep, InputFacts, StepsFacts DEF NamedRowsExist
<1>5. Promised!Answer(r, {"200", "500", "lost"})
  BY <1>1, <1>3, AcknowledgeAnswers DEF SoftDelete
<1>6. Promised!Drop(r)
  BY <1>4, <1>5 DEF SoftDelete, MarkDeleted, Promised!Drop, Exists
<1> QED
  BY <1>6 DEF Implements

LEMMA StepImplements ==
  ASSUME ImplInv, NEW r \in Requests, Step(r)
  PROVE  Implements(r)
<1>1. TypeOK /\ FitsInv
  BY DEF ImplInv
<1>2. CASE DeleteOldPoster(r)
  BY <1>1, <1>2, DeleteOldPosterImplements
<1>3. CASE DbError(r) \/ Crash(r)
  <2>1. pc[r] \in Steps /\ UNCHANGED movies
    BY <1>3 DEF DbError, Crash, Steps, storage
  <2> QED
    BY <1>1, <1>3, <2>1, FailImplements DEF DbError, Crash
<1>4. CASE Start(r)
  BY <1>1, <1>4, StartImplements DEF Implements
<1> QED
  BY <1>1, <1>2, <1>3, <1>4, FindByIdImplements, ExistsWithTitleImplements,
     PutObjectImplements, InsertImplements, LoadImplements, WriteImplements,
     SoftDeleteImplements
  DEF Step, Handle

\* The endpoints implement the catalogue: however the handlers interleave and
\* whatever fails, each request takes effect on the table at most once, on its
\* own row, at the instant its answer is decided, and its 404 or 409 was true.
THEOREM HandlersImplementCatalogue == Spec => ImplementsCatalogue
<1>1. Init => Promised!CatalogueInit
  <2>1. Init => Versions = [r \in Requests |-> Promised!NothingRead]
    BY DEF Init, Versions, Version, Steps, DbSteps, Promised!NothingRead
  <2> QED
    BY <2>1 DEF Init, StorageInit, NoRow, MovieIds, Promised!CatalogueInit, Promised!Ids
<1>2. ImplInv /\ [Next]_vars => [Promised!CatalogueNext]_(Promised!catalogue)
  <2> SUFFICES ASSUME ImplInv, [Next]_vars
               PROVE  Promised!CatalogueNext \/ UNCHANGED Promised!catalogue
    OBVIOUS
  <2>1. CASE UNCHANGED vars
    BY <2>1 DEF vars, storage, Promised!catalogue, Versions, Version
  <2>2. ASSUME NEW r \in Requests, Step(r)
        PROVE  Promised!CatalogueNext \/ UNCHANGED Promised!catalogue
    <3>1. Implements(r)
      BY <2>2, StepImplements
    <3> QED
      BY <3>1 DEF Implements, Quiet, Promised!CatalogueNext, Promised!catalogue
  <2> QED
    BY <2>1, <2>2 DEF Next, AllDone
<1> QED
  BY <1>1, <1>2, ImplInit, ImplNext, PTL
  DEF Spec, ImplementsCatalogue, Promised!CatalogueSpec
=============================================================================
