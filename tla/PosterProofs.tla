---------------------------- MODULE PosterProofs ----------------------------
(***************************************************************************)
(* Proofs about the poster files of Movies. A file gets only to the movies *)
(* that clients gave it to, whoever the clients are. When they attach an   *)
(* uploaded poster to one movie (AttachOnce), no two movies come to share  *)
(* a file. Both hold for any number of requests in flight and any failure. *)
(***************************************************************************)
EXTENDS MoviesProofs

\* The movie whose row a request writes
Target(r) == IF input[r].op \in {"update", "remove"} THEN input[r].id ELSE r

Uploads == {"createWithUpload", "update"}

\* The object k is bound for the row m: it is there, a handler may write it there,
\* or it is the file that a request about m brings along
Claims(r, k, m) ==
  /\ Target(r) = m
  /\ \/ entity[r].poster = k
     \/ input[r].url = k /\ ~NoEffect(r)
     \/ k = r /\ input[r].op \in Uploads

Bound(k, m) == movies[m].poster = k \/ \E r \in Requests : Claims(r, k, m)

\* No object is bound for two movies
BoundOnce ==
  \A k \in Keys : \A m, n \in MovieIds : Bound(k, m) /\ Bound(k, n) => m = n

\* The object of a request that has not arrived is bound for none, and a request
\* whose handler does not run has nothing in memory
IdleHoldNothing ==
  \A r \in Requests :
    /\ pc[r] \notin Steps => entity[r].poster \notin Keys
    /\ pc[r] = "idle" => \A m \in MovieIds : ~Bound(r, m)

\* A request that is past its checks, or was not without effect
Settled(q) ==
  \/ pc[q] \in {"load", "write"} /\ input[q].op # "create"
  \/ status[q] # "none" /\ ~NoEffect(q)

Attached(k) == \E q \in Requests : Names(q, k) /\ Settled(q)

\* The object of upload-poster reaches a row, and a handler's memory, through the
\* requests that name its URL
UploadsAreNamed ==
  \A k \in Requests :
    input[k].op = "uploadPoster" =>
      /\ \A m \in MovieIds : movies[m].poster = k => Attached(k)
      /\ \A r \in Requests : entity[r].poster = k => Names(r, k) \/ Attached(k)

BoundInv == NamedRowsExist /\ BoundOnce /\ IdleHoldNothing /\ UploadsAreNamed

\* What is in memory, in a request and in a row that are not there yet.
LEMMA NoInputFacts ==
  /\ NoInput.op = "none" /\ NoInput.url \notin Keys
  /\ NoEntity.poster \notin Keys /\ NoRow.poster \notin Keys
<1>1. /\ NoInput.op = "none" /\ NoInput.url = "absent"
      /\ NoEntity.poster = "" /\ NoRow.poster = ""
  BY DEF NoInput, NoEntity, NoRow
<1>2. "" \notin Keys /\ "absent" \notin Keys
  BY NamesAssumption DEF Keys, MovieIds
<1> QED
  BY <1>1, <1>2

LEMMA NotKeys == "" \notin Keys /\ "absent" \notin Keys
BY NamesAssumption DEF Keys, MovieIds

\* Who takes a step is at one, or idle.
LEMMA WhoSteps ==
  ASSUME NEW r \in Requests, Step(r)
  PROVE  pc[r] \in Steps \/ (Start(r) /\ pc[r] = "idle")
BY DEF Step, Start, Handle, FindById, ExistsWithTitle, DeleteOldPoster, PutObject, Insert,
       Load, Write, SoftDelete, DbError, Crash, Steps, DbSteps

\* The requests that are there keep their input, and so the movie they write.
LEMMA InputsStay ==
  ASSUME TypeOK, NEW r \in Requests, Step(r), NEW q \in Requests, q # r \/ ~Start(r)
  PROVE  input'[q] = input[q]
<1>1. HandlersOK
  BY TypeParts
<1>2. CASE q # r
  BY <1>2, HandlerSteps
<1>3. CASE q = r
  BY <1>1, <1>3, WhoSteps, HandlerSteps DEF Steps, DbSteps
<1> QED
  BY <1>2, <1>3

\* A row's poster changes by a request about that row only, to what it has in
\* memory.
LEMMA PosterSteps ==
  ASSUME TypeOK, NEW r \in Requests, Step(r), NEW m \in MovieIds
  PROVE  \/ movies'[m].poster = movies[m].poster
         \/ m = Target(r) /\ movies'[m].poster = entity[r].poster
<1>1. StorageTypeOK
  BY TypeParts
<1>2. CASE UNCHANGED movies
  BY <1>2
<1>3. CASE Inserts(r)
  BY <1>1, <1>3 DEF Inserts, StoreRow, StorageTypeOK, Target, Creates
<1>4. CASE Updates(r)
  BY <1>1, <1>4 DEF Updates, StoreRow, StorageTypeOK, Target
<1>5. CASE Deletes(r)
  BY <1>1, <1>5 DEF Deletes, MarkDeleted, StorageTypeOK, Rows
<1> QED
  BY <1>2, <1>3, <1>4, <1>5, TableSteps

\* A request that was without effect stays so: its answer stands, and nobody else
\* inserts its row.
LEMMA NoEffectStays ==
  ASSUME TypeOK, NamedRowsExist, NEW r \in Requests, Step(r),
         NEW q \in Requests, NoEffect(q)
  PROVE  NoEffect(q)'
<1>1. StorageTypeOK /\ HandlersOK
  BY TypeParts
<1>2. status[q] # "none" /\ pc[q] = "done"
  BY <1>1 DEF NoEffect, HandlersOK
<1>3. q # r
  BY <1>2, WhoSteps DEF Steps, DbSteps
<1>4. status'[q] = status[q] /\ input'[q] = input[q]
  BY <1>3, HandlerSteps
<1>5. movies[q].state = "absent" => movies'[q].state = "absent"
  <2>1. CASE UNCHANGED movies
    BY <2>1
  <2>2. CASE Inserts(r)
    BY <1>1, <1>3, <2>2 DEF Inserts, StoreRow, StorageTypeOK
  <2>3. CASE Updates(r) \/ Deletes(r)
    <3>1. movies[q].state = "absent" => q # input[r].id
      BY <2>3 DEF Updates, Deletes, NamedRowsExist, Exists
    <3>2. q # input[r].id => movies'[q] = movies[q]
      BY <1>1, <2>3 DEF Updates, Deletes, StoreRow, MarkDeleted, StorageTypeOK, MovieIds
    <3> QED
      BY <3>1, <3>2
  <2> QED
    BY <2>1, <2>2, <2>3, TableSteps
<1> QED
  BY <1>2, <1>4, <1>5 DEF NoEffect

\* A request that is past its checks can no longer end without effect.
LEMMA SettledStays ==
  ASSUME TypeOK, NamedRowsExist, NEW r \in Requests, Step(r),
         NEW q \in Requests, Settled(q)
  PROVE  Settled(q)'
<1>1. StorageTypeOK /\ HandlersOK
  BY TypeParts
<1>2. pc[q] # "idle" /\ input'[q] = input[q]
  BY <1>1, HandlerSteps DEF Settled, HandlersOK
<1>3. CASE status[q] # "none" /\ ~NoEffect(q)
  <2>1. pc[q] = "done" /\ q \in MovieIds
    BY <1>1, <1>3 DEF HandlersOK, MovieIds
  <2>2. status'[q] = status[q]
    BY <2>1, WhoSteps, HandlerSteps DEF Steps, DbSteps
  <2>3. Exists(q) => Exists(q)'
    BY <2>1, RowsRemain
  <2> QED
    BY <1>2, <1>3, <2>2, <2>3 DEF Settled, NoEffect, Exists
<1>4. CASE pc[q] \in {"load", "write"} /\ input[q].op # "create"
  <2>1. CASE q # r
    BY <1>2, <1>4, <2>1, HandlerSteps DEF Settled
  <2>2. CASE q = r
    <3>1. CASE \E code \in {"200", "500", "lost"} : Finish(r, code)
      <4>1. status'[r] \in {"200", "500", "lost"}
        BY <1>1, <3>1 DEF Finish, HandlersOK
      <4> QED
        BY <1>2, <1>4, <2>2, <4>1 DEF Settled, NoEffect
    <3>2. CASE pc' = [pc EXCEPT ![r] = "write"]
      BY <1>1, <1>2, <1>4, <2>2, <3>2 DEF Settled, HandlersOK
    <3> QED
      BY <1>4, <2>2, <3>1, <3>2
      DEF Step, Start, Handle, FindById, ExistsWithTitle, DeleteOldPoster, PutObject, Insert,
          Load, Write, SoftDelete, DbError, Crash, Acknowledge, Acknowledgements
  <2> QED
    BY <2>1, <2>2
<1> QED
  BY <1>3, <1>4 DEF Settled

\* Who changes the poster of a row has ended, not without effect, and the row is
\* that of the movie it is about.
LEMMA WritersSettle ==
  ASSUME TypeOK, NEW r \in Requests, Step(r),
         NEW m \in MovieIds, movies'[m].poster # movies[m].poster
  PROVE  Settled(r)' /\ m = MovieOf(r)
<1>1. StorageTypeOK /\ HandlersOK
  BY TypeParts
<1>2. Inserts(r) \/ Updates(r) \/ Deletes(r)
  BY TableSteps
<1>3. PICK c \in {"200", "201", "500", "lost"} : Finish(r, c)
  BY <1>2 DEF Inserts, Updates, Deletes, Acknowledge, Acknowledgements
<1>4. status'[r] = c /\ input' = input
  BY <1>1, <1>3 DEF Finish, HandlersOK
<1>5. input[r].op = "create" => movies'[r].state # "absent"
  <2>1. input[r].op = "create" => Inserts(r)
    BY <1>2 DEF Updates, Deletes
  <2>2. Inserts(r) => movies'[r].state = "live"
    BY <1>1 DEF Inserts, StoreRow, StorageTypeOK, MovieIds
  <2> QED
    BY <2>1, <2>2
<1>6. m = Target(r) /\ Target(r) = MovieOf(r)
  BY <1>2, PosterSteps DEF Inserts, Updates, Deletes, Target, MovieOf, Creates
<1> QED
  BY <1>4, <1>5, <1>6 DEF Settled, NoEffect

LEMMA AttachedStays ==
  ASSUME TypeOK, NamedRowsExist, NEW r \in Requests, Step(r),
         NEW k \in Requests, Attached(k)
  PROVE  Attached(k)'
<1>1. PICK q \in Requests : Names(q, k) /\ Settled(q)
  BY DEF Attached
<1>2. pc[q] # "idle"
  BY <1>1, TypeParts DEF Settled, HandlersOK
<1> QED
  BY <1>1, <1>2, SettledStays, HandlerSteps DEF Attached, Names

\* A handler that ends forgets its entity.
LEMMA RunningHolds ==
  ASSUME TypeOK, NEW r \in Requests, Step(r), pc'[r] \notin Steps,
         pc[r] \notin Steps => entity[r].poster \notin Keys
  PROVE  entity'[r].poster \notin Keys
<1>1. HandlersOK
  BY TypeParts
<1>2. CASE \E code : Finish(r, code)
  BY <1>1, <1>2, NoInputFacts DEF Finish, HandlersOK
<1>3. CASE Start(r)
  <2>1. entity' = entity /\ pc[r] \notin Steps
    BY <1>3 DEF Start, Steps, DbSteps
  <2> QED
    BY <2>1
<1>4. ASSUME \E step \in Steps : \E e : Continue(r, step, e) PROVE FALSE
  BY <1>1, <1>4 DEF Continue, HandlersOK
<1>5. CASE Load(r)
  BY <1>1, <1>2, <1>5 DEF Load, HandlersOK, Steps, DbSteps
<1>6. {"exists", "delete", "put", "insert", "load", "soft"} \subseteq Steps
  BY DEF Steps, DbSteps
<1>7. CASE FindById(r) \/ ExistsWithTitle(r) \/ DeleteOldPoster(r)
  BY <1>2, <1>4, <1>6, <1>7 DEF FindById, ExistsWithTitle, DeleteOldPoster, ToPoster
<1>8. CASE PutObject(r)
  <2>1. input[r].op \in {"createWithUpload", "uploadPoster", "update"}
    <3>1. pc[r] = "put" /\ pc[r] \in Steps
      BY <1>8 DEF PutObject, Steps, DbSteps
    <3> QED
      BY <1>1, <3>1, AtStep, InputFacts, StepsFacts DEF Creates
  <2> QED
    BY <1>2, <1>4, <1>6, <1>8, <2>1 DEF PutObject
<1>9. CASE Insert(r) \/ Write(r) \/ SoftDelete(r) \/ DbError(r) \/ Crash(r)
  BY <1>2, <1>9 DEF Insert, Write, SoftDelete, DbError, Crash, Acknowledge
<1> QED
  BY <1>2, <1>3, <1>5, <1>7, <1>8, <1>9 DEF Step, Handle

\* A step of a request that was there binds nothing anew.
LEMMA HandleBindsNothing ==
  ASSUME TypeOK, NamedRowsExist, NEW r \in Requests, Step(r), ~Start(r),
         NEW k \in Keys, NEW m \in MovieIds, Bound(k, m)'
  PROVE  Bound(k, m)
<1>1. \A q \in Requests : input'[q] = input[q] /\ (Target(q)' = Target(q))
  BY InputsStay DEF Target
<1>2. CASE movies'[m].poster = k
  BY <1>2, PosterSteps DEF Bound, Claims
<1>4. ~NoEffect(r)
  BY WhoSteps, TypeParts DEF NoEffect, HandlersOK, Steps, DbSteps
<1>3. ASSUME NEW q \in Requests, Claims(q, k, m)'
      PROVE  Bound(k, m)
  <2>1. Target(q) = m /\ (~NoEffect(q)' => ~NoEffect(q))
    BY <1>1, <1>3, NoEffectStays DEF Claims
  <2>2. CASE entity'[q].poster # k \/ q # r
    BY <1>1, <1>3, <2>1, <2>2, HandlerSteps DEF Claims, Bound
  <2>3. CASE q = r /\ entity'[r].poster = k
    <3>1. CASE entity'[r].poster \in {"", entity[r].poster, input[r].url}
      BY <1>4, <2>1, <2>3, <3>1, NotKeys DEF Claims, Bound
    <3>2. CASE /\ input[r].op \in {"update", "remove"} /\ input[r].id \in MovieIds
               /\ entity'[r].poster = movies[input[r].id].poster
      BY <2>1, <2>3, <3>2 DEF Bound, Target
    <3>3. CASE input[r].op \in Uploads /\ entity'[r].poster = r
      BY <2>1, <2>3, <3>3 DEF Claims, Bound
    <3> QED
      BY <3>1, <3>2, <3>3, EntitySteps DEF Uploads, Names
  <2> QED
    BY <2>2, <2>3
<1> QED
  BY <1>2, <1>3 DEF Bound

\* A request that arrives binds what it names, and the file it brings along, for
\* the movie it is about.
LEMMA StartBinds ==
  ASSUME TypeOK, IdleHoldNothing, NEW r \in Requests, Step(r), Start(r),
         NEW k \in Keys, NEW m \in MovieIds, Bound(k, m)'
  PROVE  \/ Bound(k, m)
         \/ /\ m = Target(r)' /\ input'[r] \in Inputs /\ Sendable(input'[r])
            /\ input'[r].url = k \/ (k = r /\ input'[r].op \in Uploads)
<1>1. UNCHANGED <<movies, entity>> /\ pc[r] = "idle"
  BY DEF Start, storage
<1>2. CASE movies'[m].poster = k
  BY <1>1, <1>2 DEF Bound
<1>3. ASSUME NEW q \in Requests, Claims(q, k, m)', q # r
      PROVE  Bound(k, m)
  <2>1. input'[q] = input[q] /\ status'[q] = status[q]
    BY <1>3, InputsStay, HandlerSteps
  <2> QED
    BY <1>1, <1>3, <2>1 DEF Claims, Bound, Target, NoEffect
<1>4. CASE Claims(r, k, m)'
  <2>1. entity'[r].poster # k
    BY <1>1 DEF IdleHoldNothing, Steps, DbSteps
  <2>2. input'[r] \in Inputs /\ Sendable(input'[r])
    <3>1. PICK in \in {i \in Inputs : Sendable(i)} : input' = [input EXCEPT ![r] = in]
      BY DEF Start
    <3>2. input'[r] = in
      BY <3>1, TypeParts DEF HandlersOK
    <3> QED
      BY <3>1, <3>2
  <2> QED
    BY <1>4, <2>1, <2>2 DEF Claims
<1> QED
  BY <1>2, <1>3, <1>4 DEF Bound

\* The object of upload-poster is bound for none until a request names its URL,
\* and for none after the requests that named it were without effect.
LEMMA BoundIsNamed ==
  ASSUME TypeOK, IdleHoldNothing, UploadsAreNamed,
         NEW k \in Requests, input[k].op = "uploadPoster",
         NEW m \in MovieIds, Bound(k, m)
  PROVE  \E q \in Requests : input[q].url = k /\ ~NoEffect(q)
<1>1. HandlersOK /\ k \in Keys
  BY TypeParts DEF Keys
<1>2. CASE Attached(k)
  <2>1. \A q \in Requests : Settled(q) => ~NoEffect(q)
    BY <1>1 DEF Settled, NoEffect, HandlersOK
  <2> QED
    BY <1>2, <2>1 DEF Attached, Names
<1>3. CASE \E r \in Requests : input[r].url = k /\ ~NoEffect(r)
  BY <1>3
<1>4. \A r \in Requests : entity[r].poster = k => ~NoEffect(r)
  BY <1>1 DEF IdleHoldNothing, NoEffect, HandlersOK, Steps, DbSteps
<1> QED
  BY <1>2, <1>3, <1>4 DEF UploadsAreNamed, Bound, Claims, Uploads, Names

\* What a well-behaved client names is bound for nobody else.
LEMMA SendableUrl ==
  ASSUME TypeOK, AttachOnce, BoundInv, NEW in \in Inputs, Sendable(in), in.url \in Keys
  PROVE  \/ /\ in.url \in Requests /\ status[in.url] = "201"
            /\ \A m \in MovieIds : ~Bound(in.url, m)
         \/ in.op = "update" /\ in.id \in MovieIds /\ Bound(in.url, in.id)
<1>1. CASE FreshUpload(in)
  <2> SUFFICES ASSUME NEW m \in MovieIds, Bound(in.url, m)
               PROVE  in.op = "update" /\ in.id \in MovieIds /\ Bound(in.url, in.id)
    BY <1>1 DEF FreshUpload
  <2>1. PICK q \in Requests : input[q].url = in.url /\ ~NoEffect(q)
    BY <1>1, BoundIsNamed DEF FreshUpload, BoundInv
  <2>2. in.op = "update" /\ input[q].op = "update" /\ in.id = input[q].id
    BY <1>1, <2>1 DEF FreshUpload
  <2>3. in.id \in MovieIds
    BY <2>2, InputFacts
  <2> QED
    BY <2>1, <2>2, <2>3 DEF Bound, Claims, Target
<1>2. CASE in.op = "update" /\ movies[in.id].poster = in.url
  BY <1>2, InputFacts DEF Bound
<1> QED
  BY <1>1, <1>2 DEF Sendable

\* What a request that arrives binds was bound for the same movie, or for none.
LEMMA StartBindsOnce ==
  ASSUME TypeOK, AttachOnce, BoundInv, NEW r \in Requests, Step(r), Start(r),
         NEW k \in Keys, NEW m \in MovieIds, Bound(k, m)', ~Bound(k, m)
  PROVE  /\ \A n \in MovieIds : ~Bound(k, n)
         /\ m = Target(r)'
         /\ k # r => input'[r].url = k /\ k \in Requests /\ status[k] = "201"
<1>1. /\ m = Target(r)' /\ input'[r] \in Inputs /\ Sendable(input'[r])
      /\ input'[r].url = k \/ (k = r /\ input'[r].op \in Uploads)
  BY StartBinds DEF BoundInv
<1>2. pc[r] = "idle" /\ \A n \in MovieIds : ~Bound(r, n)
  BY DEF Start, BoundInv, IdleHoldNothing
<1>3. CASE k = r
  BY <1>1, <1>2, <1>3
<1>4. CASE k # r
  <2> DEFINE in == input'[r]
  <2>1. in.url = k
    BY <1>1, <1>4
  <2>2. CASE in.op = "update" /\ in.id \in MovieIds /\ Bound(in.url, in.id)
    BY <1>1, <2>1, <2>2 DEF Target
  <2>3. CASE /\ k \in Requests /\ status[k] = "201"
             /\ \A n \in MovieIds : ~Bound(k, n)
    BY <1>1, <2>1, <2>3
  <2>4. \A i \in Inputs : Sendable(i) /\ i.url = k =>
          \/ k \in Requests /\ status[k] = "201" /\ \A n \in MovieIds : ~Bound(k, n)
          \/ i.op = "update" /\ i.id \in MovieIds /\ Bound(k, i.id)
    BY SendableUrl
  <2> QED
    BY <1>1, <2>1, <2>2, <2>3, <2>4
<1> QED
  BY <1>3, <1>4

\* The object of upload-poster gets into a row, or into a handler's memory, only
\* from its URL in a request.
LEMMA UploadsStayNamed ==
  ASSUME TypeOK, NamedRowsExist, IdleHoldNothing, UploadsAreNamed,
         NEW r \in Requests, Step(r)
  PROVE  UploadsAreNamed'
<1> SUFFICES ASSUME NEW k \in Requests, input'[k].op = "uploadPoster"
             PROVE  /\ \A m \in MovieIds : movies'[m].poster = k => Attached(k)'
                    /\ \A q \in Requests : entity'[q].poster = k =>
                                            Names(q, k)' \/ Attached(k)'
  BY DEF UploadsAreNamed
<1>1. StorageTypeOK /\ HandlersOK /\ k \in Keys
  BY TypeParts DEF Keys
<1>2. Attached(k) => Attached(k)'
  BY AttachedStays
<1>3. CASE Start(r)
  <2>1. UNCHANGED <<movies, entity>> /\ pc[r] = "idle"
    BY <1>3 DEF Start, storage
  <2>2. CASE k = r
    <3>1. \A m \in MovieIds : ~Bound(k, m)
      BY <2>1, <2>2 DEF IdleHoldNothing
    <3>2. ASSUME NEW q \in Requests, entity[q].poster = k
          PROVE  FALSE
      <4>1. Target(q) \in MovieIds
        BY <1>1, InputFacts DEF Target, HandlersOK, MovieIds, NoInput
      <4> QED
        BY <3>1, <3>2, <4>1 DEF Bound, Claims
    <3> QED
      BY <2>1, <3>1, <3>2 DEF Bound
  <2>3. CASE k # r
    <3>1. input[k].op = "uploadPoster"
      BY <2>3, InputsStay
    <3>2. \A q \in Requests : q # r => input'[q] = input[q]
      BY InputsStay
    <3>3. entity[r].poster # k
      BY <1>1, <2>1 DEF IdleHoldNothing, Steps, DbSteps
    <3> QED
      BY <1>2, <2>1, <3>1, <3>2, <3>3 DEF UploadsAreNamed, Names
  <2> QED
    BY <2>2, <2>3
<1>4. CASE ~Start(r)
  <2>1. /\ \A q \in Requests : input'[q] = input[q]
        /\ pc[r] \in Steps
    BY <1>4, InputsStay, WhoSteps
  <2>2. /\ \A m \in MovieIds : movies[m].poster = k => Attached(k)
        /\ \A q \in Requests : entity[q].poster = k => Names(q, k) \/ Attached(k)
    BY <2>1 DEF UploadsAreNamed
  <2>3. ASSUME NEW m \in MovieIds, movies'[m].poster = k, movies[m].poster # k
        PROVE  Attached(k)'
    <3>1. entity[r].poster = k
      BY <2>3, PosterSteps
    <3>2. CASE Names(r, k)
      BY <2>1, <2>3, <3>2, WritersSettle DEF Attached, Names
    <3> QED
      BY <1>2, <2>2, <3>1, <3>2
  <2>4. ASSUME NEW q \in Requests, entity'[q].poster = k
        PROVE  Names(q, k)' \/ Attached(k)'
    <3>1. CASE q # r
      BY <1>2, <2>1, <2>2, <2>4, <3>1, HandlerSteps DEF Names
    <3>2. CASE q = r
      <4>1. CASE \/ entity'[r].poster \in {"", entity[r].poster}
                 \/ Names(r, input[r].url) /\ entity'[r].poster = input[r].url
        BY <1>1, <1>2, <2>1, <2>2, <2>4, <3>2, <4>1, NotKeys DEF Names
      <4>2. CASE input[r].id \in MovieIds /\ entity'[r].poster = movies[input[r].id].poster
        BY <1>2, <2>2, <2>4, <3>2, <4>2
      <4>3. CASE input[r].op \in {"createWithUpload", "update"} /\ entity'[r].poster = r
        BY <2>1, <2>4, <3>2, <4>3
      <4> QED
        BY <4>1, <4>2, <4>3, EntitySteps
    <3> QED
      BY <3>1, <3>2
  <2> QED
    BY <1>2, <2>2, <2>3, <2>4
<1> QED
  BY <1>3, <1>4

LEMMA BoundInit == Init => BoundInv
<1> SUFFICES ASSUME Init PROVE BoundInv
  OBVIOUS
<1>1. \A r \in Requests : entity[r].poster \notin Keys /\ input[r].url \notin Keys
                          /\ input[r].op = "none"
  <2> SUFFICES ASSUME NEW r \in Requests
               PROVE  entity[r].poster \notin Keys /\ input[r].url \notin Keys
                      /\ input[r].op = "none"
    OBVIOUS
  <2>1. entity[r] = NoEntity /\ input[r] = NoInput
    BY DEF Init
  <2> QED
    BY <2>1, NoInputFacts
<1>2. \A k \in Keys, m \in MovieIds : Bound(k, m) => movies[m].poster = k
  BY <1>1 DEF Bound, Claims, Uploads
<1>3. \A m \in MovieIds : movies[m].poster \in Keys => movies[m].poster = m /\ m \in Seeds
  <2> SUFFICES ASSUME NEW m \in MovieIds, movies[m].poster \in Keys
               PROVE  movies[m].poster = m /\ m \in Seeds
    OBVIOUS
  <2>1. m \in Seeds
    <3>1. m \notin Seeds => movies[m] = NoRow
      BY DEF Init, StorageInit
    <3> QED
      BY <3>1, NoInputFacts
  <2>2. movies[m].poster = SeedMovies[m].poster
    BY <2>1 DEF Init, StorageInit
  <2> QED
    BY <2>1, <2>2, SeedAssumption
<1>4. BoundOnce
  BY <1>2, <1>3 DEF BoundOnce
<1>5. \A r \in Requests, m \in MovieIds : ~Bound(r, m)
  <2> SUFFICES ASSUME NEW r \in Requests, NEW m \in MovieIds, Bound(r, m)
               PROVE  FALSE
    OBVIOUS
  <2>1. r \in Keys /\ r \notin Seeds
    BY NamesAssumption DEF Keys
  <2> QED
    BY <1>2, <1>3, <2>1
<1> QED
  BY <1>1, <1>4, <1>5, RowsInit DEF BoundInv, RowsInv, IdleHoldNothing, UploadsAreNamed

LEMMA BoundNext ==
  TypeOK /\ RowsInv /\ RowsInv' /\ AttachOnce /\ BoundInv /\ [Next]_vars => BoundInv'
<1> SUFFICES ASSUME TypeOK, RowsInv, RowsInv', AttachOnce, BoundInv, [Next]_vars
             PROVE  BoundInv'
  OBVIOUS
<1>1. CASE UNCHANGED vars
  <2>1. /\ \A q \in Requests : NoEffect(q)' = NoEffect(q) /\ Settled(q)' = Settled(q)
        /\ \A k : Attached(k)' = Attached(k)
    BY <1>1 DEF vars, storage, NoEffect, Settled, Attached, Names
  <2>2. \A k \in Keys, m \in MovieIds : Bound(k, m)' = Bound(k, m)
    BY <1>1, <2>1 DEF vars, storage, Bound, Claims, Target
  <2>3. Requests \subseteq Keys
    BY DEF Keys
  <2> QED
    BY <1>1, <2>1, <2>2, <2>3
    DEF vars, storage, BoundInv, BoundOnce, IdleHoldNothing, UploadsAreNamed, NamedRowsExist,
        Exists, Names
<1>2. ASSUME NEW r \in Requests, Step(r)
      PROVE  BoundInv'
  <2>1. HandlersOK /\ NamedRowsExist /\ BoundOnce /\ IdleHoldNothing /\ UploadsAreNamed
    BY TypeParts DEF BoundInv
  <2>2. ASSUME NEW k \in Keys, NEW m \in MovieIds, Bound(k, m)', ~Bound(k, m)
        PROVE  /\ Start(r) /\ m = Target(r)'
               /\ \A n \in MovieIds : ~Bound(k, n)
               /\ k # r => input'[r].url = k /\ k \in Requests /\ status[k] = "201"
    BY <1>2, <2>1, <2>2, HandleBindsNothing, StartBindsOnce
  <2>3. BoundOnce'
    <3> SUFFICES ASSUME NEW k \in Keys, NEW m \in MovieIds, NEW n \in MovieIds,
                        Bound(k, m)', Bound(k, n)'
                 PROVE  m = n
      BY DEF BoundOnce
    <3> QED
      BY <2>1, <2>2 DEF BoundOnce
  <2>4. IdleHoldNothing'
    <3>4. ASSUME NEW q \in Requests, pc'[q] \notin Steps
          PROVE  entity'[q].poster \notin Keys
      <4>1. CASE q = r
        BY <1>2, <2>1, <3>4, <4>1, RunningHolds DEF IdleHoldNothing
      <4>2. CASE q # r
        BY <1>2, <2>1, <3>4, <4>2, HandlerSteps DEF IdleHoldNothing
      <4> QED
        BY <4>1, <4>2
    <3> SUFFICES ASSUME NEW q \in Requests, pc'[q] = "idle"
                 PROVE  \A m \in MovieIds : ~Bound(q, m)'
      BY <3>4 DEF IdleHoldNothing
    <3>1. q # r
      <4>1. "done" # "idle" /\ \A s \in Steps : s # "idle"
        BY DEF Steps, DbSteps
      <4>2. CASE Start(r)
        <5>1. input'[r] \in Inputs
          <6>1. PICK in \in Inputs : input' = [input EXCEPT ![r] = in]
            BY <4>2 DEF Start
          <6> QED
            BY <2>1, <6>1 DEF HandlersOK
        <5>2. input'[r].op # "none"
          BY <5>1, InputFacts DEF Creates
        <5>3. HandlersOK'
          BY <1>2, TypeNext, TypeParts DEF HandlersOK, TypeOK, Entities
        <5> QED
          BY <5>2, <5>3, NoInputFacts DEF HandlersOK
      <4>3. CASE ~Start(r)
        <5>1. input'[r] = input[r] /\ pc[r] \in Steps
          BY <1>2, <4>3, WhoSteps, InputsStay
        <5>2. input[r] # NoInput
          BY <2>1, <4>1, <5>1 DEF HandlersOK
        <5>3. HandlersOK'
          BY <1>2, TypeNext, TypeParts DEF HandlersOK, TypeOK, Entities
        <5> QED
          BY <5>1, <5>2, <5>3 DEF HandlersOK
      <4> QED
        BY <4>2, <4>3
    <3>2. pc[q] = "idle" /\ entity'[q] = entity[q] /\ status[q] = "none" /\ q \in Keys
      BY <1>2, <2>1, <3>1, HandlerSteps DEF HandlersOK, Keys
    <3>3. ASSUME NEW m \in MovieIds, Bound(q, m)'
          PROVE  FALSE
      BY <2>1, <2>2, <3>1, <3>2, <3>3 DEF IdleHoldNothing
    <3> QED
      BY <3>3
  <2>5. UploadsAreNamed'
    BY <1>2, <2>1, UploadsStayNamed
  <2> QED
    BY <2>3, <2>4, <2>5 DEF BoundInv, RowsInv
<1> QED
  BY <1>1, <1>2 DEF Next, AllDone

-----------------------------------------------------------------------------
(* Files get only to the movies they were given to, whatever clients send. *)

Owns(k, m) == (m = k /\ k \in Seeds) \/ (k \in Requests /\ MovieOf(k) = m)

\* A movie that a file was given to, and by a request that cannot end without
\* effect any more
Has(k, m) ==
  \/ Owns(k, m)
  \/ \E q \in Requests : MovieOf(q) = m /\ Names(q, k) /\ Settled(q)

RowsHave == \A k \in Keys, m \in MovieIds : movies[m].poster = k => Has(k, m)

\* A handler at work has a file in memory that its movie has, or its client named
HandlersHave ==
  \A r \in Requests, k \in Keys :
    entity[r].poster = k =>
      /\ pc[r] \in Steps
      /\ \A m \in MovieIds : m = MovieOf(r) => Has(k, m) \/ Names(r, k)

GivenInv == NamedRowsExist /\ RowsHave /\ HandlersHave

LEMMA HasIsGiven ==
  ASSUME TypeOK, NEW k \in Keys, NEW m \in MovieIds, Has(k, m)
  PROVE  m \in GivenTo(k)
<1>1. \A q \in Requests : Settled(q) => ~NoEffect(q)
  BY TypeParts DEF Settled, NoEffect, HandlersOK
<1> QED
  BY <1>1 DEF Has, Owns, GivenTo, Names

LEMMA HasStays ==
  ASSUME TypeOK, NamedRowsExist, NEW r \in Requests, Step(r),
         NEW k \in Keys, NEW m \in MovieIds, Has(k, m)
  PROVE  Has(k, m)'
<1>1. \A q \in Requests : MovieOf(q) = m => input'[q] = input[q]
  <2> SUFFICES ASSUME NEW q \in Requests, MovieOf(q) = m
               PROVE  input'[q] = input[q]
    OBVIOUS
  <2>1. "none" \notin MovieIds /\ NoInput.op \notin Creates /\ NoInput.id = "none"
    BY NamesAssumption DEF NoInput, Creates
  <2>2. input[q] # NoInput
    BY <2>1 DEF MovieOf
  <2> QED
    BY <2>2, TypeParts, HandlerSteps DEF HandlersOK
<1>2. CASE Owns(k, m)
  BY <1>1, <1>2 DEF Has, Owns, MovieOf
<1>3. CASE \E q \in Requests : MovieOf(q) = m /\ Names(q, k) /\ Settled(q)
  BY <1>1, <1>3, SettledStays DEF Has, Names, MovieOf
<1> QED
  BY <1>2, <1>3 DEF Has

LEMMA GivenInit == Init => GivenInv
<1> SUFFICES ASSUME Init PROVE GivenInv
  OBVIOUS
<1>1. RowsHave
  <2> SUFFICES ASSUME NEW m \in MovieIds, movies[m].poster \in Keys
               PROVE  movies[m].poster = m /\ m \in Seeds
    BY DEF RowsHave, Has, Owns
  <2>1. m \in Seeds
    <3>1. m \notin Seeds => movies[m] = NoRow
      BY DEF Init, StorageInit
    <3> QED
      BY <3>1, NoInputFacts
  <2>2. movies[m].poster = SeedMovies[m].poster
    BY <2>1 DEF Init, StorageInit
  <2> QED
    BY <2>1, <2>2, SeedAssumption
<1>2. \A r \in Requests : entity[r].poster \notin Keys
  BY NoInputFacts DEF Init
<1> QED
  BY <1>1, <1>2, RowsInit DEF GivenInv, HandlersHave, RowsInv

LEMMA GivenNext ==
  TypeOK /\ RowsInv' /\ GivenInv /\ [Next]_vars => GivenInv'
<1> SUFFICES ASSUME TypeOK, RowsInv', GivenInv, [Next]_vars
             PROVE  GivenInv'
  OBVIOUS
<1>1. CASE UNCHANGED vars
  <2>1. \A k, m : Has(k, m)' = Has(k, m)
    BY <1>1 DEF vars, storage, Has, Owns, MovieOf, Names, Settled, NoEffect
  <2> QED
    BY <1>1, <2>1 DEF vars, storage, GivenInv, RowsHave, HandlersHave, NamedRowsExist, Exists,
                      MovieOf, Names
<1>2. ASSUME NEW r \in Requests, Step(r)
      PROVE  GivenInv'
  <2>1. HandlersOK /\ NamedRowsExist /\ RowsHave /\ HandlersHave
    BY TypeParts DEF GivenInv
  <2>2. pc[r] \notin Steps => entity[r].poster \notin Keys
    BY <2>1 DEF HandlersHave
  <2>3. ASSUME NEW m \in MovieIds, NEW k \in Keys, movies'[m].poster = k
        PROVE  Has(k, m)'
    <3>1. CASE k = movies[m].poster
      BY <1>2, <2>1, <2>3, <3>1, HasStays DEF RowsHave
    <3>2. CASE k # movies[m].poster
      <4>1. Settled(r)' /\ m = MovieOf(r) /\ k = entity[r].poster
        BY <1>2, <2>3, <3>2, WritersSettle, PosterSteps
      <4>2. Has(k, m) \/ Names(r, k)
        BY <2>1, <2>3, <4>1 DEF HandlersHave
      <4>3. input'[r] = input[r]
        BY <1>2, <2>1, <2>3, <4>1, HandlerSteps DEF HandlersHave, HandlersOK, Steps, DbSteps
      <4>4. Names(r, k) => Has(k, m)'
        BY <4>1, <4>3 DEF Has, MovieOf, Names
      <4> QED
        BY <1>2, <2>1, <2>3, <4>2, <4>4, HasStays
    <3> QED
      BY <3>1, <3>2
  <2>4. ASSUME NEW q \in Requests, NEW k \in Keys, entity'[q].poster = k
        PROVE  /\ pc'[q] \in Steps
               /\ \A m \in MovieIds : m = MovieOf(q)' => Has(k, m)' \/ Names(q, k)'
    <3>1. CASE q # r
      <4>1. /\ entity'[q] = entity[q] /\ pc'[q] = pc[q] /\ input'[q] = input[q]
        BY <1>2, <3>1, HandlerSteps
      <4>2. /\ pc[q] \in Steps
            /\ \A m \in MovieIds : m = MovieOf(q) => Has(k, m) \/ Names(q, k)
        BY <2>1, <2>4, <4>1 DEF HandlersHave
      <4>3. MovieOf(q)' = MovieOf(q) /\ (Names(q, k)' <=> Names(q, k))
        BY <4>1 DEF MovieOf, Names
      <4> QED
        BY <1>2, <2>1, <2>4, <4>1, <4>2, <4>3, HasStays
    <3>2. CASE q = r
      <4>1. pc'[r] \in Steps
        BY <1>2, <2>2, <2>4, <3>2, RunningHolds
      <4>2. CASE Start(r)
        BY <2>2, <2>4, <3>2, <4>2 DEF Start, Steps, DbSteps
      <4>3. CASE ~Start(r)
        <5> SUFFICES ASSUME NEW m \in MovieIds, m = MovieOf(r)'
                     PROVE  Has(k, m)' \/ Names(r, k)'
          BY <3>2, <4>1
        <5>1. input'[r] = input[r]
          BY <1>2, <4>3, InputsStay
        <5>2. MovieOf(r)' = MovieOf(r) /\ (Names(r, k)' <=> Names(r, k))
          BY <5>1 DEF MovieOf, Names
        <5>3. CASE k = entity[r].poster
          BY <1>2, <2>1, <2>4, <5>2, <5>3, HasStays DEF HandlersHave
        <5>4. CASE Names(r, input[r].url) /\ k = input[r].url
          BY <5>2, <5>4
        <5>5. CASE /\ input[r].op \in {"update", "remove"} /\ input[r].id \in MovieIds
                   /\ k = movies[input[r].id].poster
          <6>1. MovieOf(r) = input[r].id
            BY <5>5 DEF MovieOf, Creates
          <6>2. Has(k, m)
            BY <2>1, <2>4, <5>2, <5>5, <6>1 DEF RowsHave
          <6> QED
            BY <1>2, <2>1, <6>2, HasStays
        <5>6. CASE k = r
          BY <5>6, <3>2 DEF Has, Owns
        <5> QED
          BY <1>2, <2>4, <3>2, <5>3, <5>4, <5>5, <5>6, EntitySteps, NotKeys
      <4> QED
        BY <4>2, <4>3
    <3> QED
      BY <3>1, <3>2
  <2>5. RowsHave'
    BY <2>3 DEF RowsHave
  <2>6. HandlersHave'
    BY <2>4 DEF HandlersHave
  <2> QED
    BY <2>5, <2>6 DEF GivenInv, RowsInv
<1> QED
  BY <1>1, <1>2 DEF Next, AllDone

-----------------------------------------------------------------------------
(* Theorems.                                                               *)

\* Where clients attach an uploaded poster to one movie, no file is bound for two
\* movies, in their rows or on its way there, however requests overlap and fail.
THEOREM ObjectsAreBoundOnce ==
  ASSUME AttachOnce
  PROVE  Spec => []BoundInv
<1>1. TypeOK /\ RowsInv /\ RowsInv' /\ BoundInv /\ [Next]_vars => BoundInv'
  BY BoundNext
<1>2. Spec => []RowsInv
  BY TypeCorrect, RowsInit, RowsNext, PTL DEF Spec
<1> QED
  BY <1>1, <1>2, TypeCorrect, BoundInit, PTL DEF Spec

THEOREM FilesAreGiven == Spec => []GivenInv
<1>1. Spec => []RowsInv
  BY TypeCorrect, RowsInit, RowsNext, PTL DEF Spec
<1> QED
  BY <1>1, TypeCorrect, GivenInit, GivenNext, PTL DEF Spec

\* Whatever the clients send, a request deletes the file of another movie only if
\* both were given it, though the URL it deletes by was read before an await.
THEOREM FilesDieWithTheirMovie == Spec => NoCrossMovieDelete
<1> DEFINE A == \A k \in Keys : bucket[k] = "stored" /\ bucket'[k] # "stored" =>
                  \E r \in Requests :
                    /\ pc[r] = "delete" /\ pc'[r] # "delete"
                    /\ \A m \in MovieIds :
                         movies[m].poster = k =>
                           m = input[r].id \/ {m, input[r].id} \subseteq GivenTo(k)
<1>1. TypeOK /\ GivenInv /\ [Next]_vars => A
  <2> SUFFICES ASSUME TypeOK, GivenInv, [Next]_vars,
                      NEW k \in Keys, bucket[k] = "stored", bucket'[k] # "stored"
               PROVE  \E r \in Requests :
                        /\ pc[r] = "delete" /\ pc'[r] # "delete"
                        /\ \A m \in MovieIds :
                             movies[m].poster = k =>
                               m = input[r].id \/ {m, input[r].id} \subseteq GivenTo(k)
    OBVIOUS
  <2>1. StorageTypeOK /\ HandlersOK
    BY TypeParts
  <2>2. PICK r \in Requests : DeleteOldPoster(r)
    BY <2>1 DEF Next, Step, Start, Handle, FindById, ExistsWithTitle, PutObject, Insert, Load,
                Write, SoftDelete, DbError, Crash, AllDone, vars, storage, PutFile,
                StorageTypeOK
  <2>3. entity[r].poster = k
    BY <2>1, <2>2 DEF DeleteOldPoster, RemoveFile, StorageTypeOK
  <2>4. pc[r] = "delete" /\ pc[r] \in Steps
    BY <2>2 DEF DeleteOldPoster, Steps, DbSteps
  <2>5. pc'[r] # "delete"
    BY <2>1, <2>2 DEF DeleteOldPoster, Continue, HandlersOK
  <2>6. MovieOf(r) = input[r].id /\ input[r].id \in MovieIds
    BY <2>1, <2>4, AtStep, InputFacts, StepsFacts DEF MovieOf, Creates
  <2>7. input[r].id \in GivenTo(k)
    <3>1. Has(k, input[r].id) \/ Names(r, k)
      BY <2>3, <2>6 DEF GivenInv, HandlersHave
    <3>2. Names(r, k) => input[r].id \in GivenTo(k)
      BY <2>1, <2>4, <2>6 DEF Names, GivenTo, NoEffect, HandlersOK, Steps, DbSteps
    <3> QED
      BY <2>6, <3>1, <3>2, HasIsGiven
  <2>8. \A m \in MovieIds : movies[m].poster = k => m \in GivenTo(k)
    BY HasIsGiven DEF GivenInv, RowsHave
  <2> QED
    BY <2>4, <2>5, <2>7, <2>8
<1> QED
  BY <1>1, TypeCorrect, FilesAreGiven, PTL DEF Spec, NoCrossMovieDelete
=============================================================================
