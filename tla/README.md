# Verification of the movie platform backend

TLA+ models of the movie platform backend (NestJS, PostgreSQL through TypeORM,
poster files in S3), TLC runs that check them on small instances, and TLAPS
proofs of their main properties for every instance. Paths below are relative to
the repository root, which the project calls `src/`; the application's own
source is `src/src/`.

The service is a set of asynchronous handlers. Node runs the code between two
`await`s alone, but at every `await` any other handler may run, in this process
or in the other replica (`charts/movie-be` deploys two). Nothing is locked and
no query runs in a transaction of more than one statement. So nearly everything
that can go wrong goes wrong *between* two awaited calls of one handler, and the
models are cut exactly there: **one action is one awaited call, together with
the code up to the next await**.

## 1. Inventory

| Component | State | Operations | Talks to |
|---|---|---|---|
| Movies (`modules/movies`) | table `movies` (title unique, soft delete) | create, createWithUpload, uploadPoster, update, remove; list, findOne | PostgreSQL, S3 |
| S3 storage (`core/services/s3.service.ts`) | the bucket | uploadFile, deleteFile; getSignedUrl, fileExists (no caller) | AWS |
| File validation (`shared/pipes`) | none | transform | Movies controller |
| Authentication (`modules/auth`) | table `refresh_tokens`; access tokens live with the clients | register, login, refreshToken (no route), JwtStrategy, JwtAuthGuard, RolesGuard | Users |
| Users (`modules/users`) | table `users` (email unique, soft delete) | create, findByEmail, findById, list | PostgreSQL, bcrypt |
| Request pipeline (`core/interceptors`, `filters`, `middleware`) | timers of the requests in flight | timeout, response wrapper, exception filter, request id | every handler |
| Pagination (`shared/dtos`, repositories) | none | skip/take, findAndCount | Movies, Users |
| Metrics (`modules/metrics`) | a counter and a histogram in the process | count, observe, scrape | every handler |
| Configuration, bootstrap (`core/config`, `main.ts`) | environment, `runtime.json` cache | load at start | everything |
| Seeding, migrations (`db`, `modules/seeding`) | the two tables | seedUsers, seedMovies, two migrations | PostgreSQL |
| Health, telemetry, logging, charts, scripts | none that the program reads | — | — |

What is hard, and what makes each component correct:

* **Movies.** `update()` makes up to six awaited calls on two stores with no
  transaction: it reads the row, checks the title, deletes the old file, stores
  the new one, and only then `save()`s the entity it read at the start.
  Correct means: titles stay unique; an answer tells the truth about the table;
  a refusal has no effect; a row never refers to an object that never existed;
  a movie loses its file to a request about another one only where a client gave
  the file to both; what a failure leaves behind is bounded and known.
* **Sessions** (authentication and users). Two check-then-act windows (email,
  refresh token), two stores of truth about roles (the access token and the
  row), and times of three kinds (the `expiresIn` a client is told, the `exp` in
  the token, `expires_at` in the table).
  Correct means: emails stay unique; an answered client has what it was told it
  has; a token is redeemed by overlapping requests at most; rights that are
  taken away are gone at once; nobody is refused for a reason that is not true.
* **Request pipeline.** The 15 s timeout answers 408 and does not stop the
  handler, whose effects land later, beside the client's retry. So the answer on
  the wire and the end of the handler are two things.
  The guards run before the interceptors, so their lookup of the user has no timer.
  Correct means: past the guards every client is answered; the handlers are only
  ever run, never stopped half-way by the pipeline; what a timeout can undo is
  bounded and known.
* **Metrics.** Requests are counted on arrival, durations observed on success.
  Correct means: the two differ by exactly the requests that run or failed.
* **Pagination.** A page is one query and its total another, the order by
  `created_at` has ties, users have no order, and the table changes between pages.
  Correct means: a client that walks to the end misses or repeats a row only if
  rows left or came, or the row's place was never fixed.
* **Configuration, seeding.** `main.ts` reads the CORS origins before the hook
  that loads `runtime.json` has run, in each replica at another time; `seed.ts`
  and `typeorm.config.ts` make a `ConfigService` that knows none of the settings;
  `seed.ts` makes two inserts with nothing around them.
  Correct means: the replicas agree; examples never come without the admin; a run
  that ends well has filled the right database.

`PROJECT.json` lists the hazards one by one with the line where each bites.

## 2. Modules

| Module | What it is |
|---|---|
| `MovieStorage` | the two stores of the movie endpoints, and each round trip to them |
| `Movies` | the handlers of `MoviesController`/`MoviesService` over `MovieStorage`, their properties |
| `Catalogue` | abstract specification: what the movie endpoints promise about the table, with no handlers and no S3 |
| `Serving` | processes, guards, interceptors, timeouts and retries around the handlers of `Movies`; metrics; the CORS origins |
| `Listing` | the two lists, and a client that walks through their pages while rows come and go |
| `Seeding` | how the database is made and filled, over the tables of `Listing` |
| `MCMovies`, `MCServing`, `MCSeeding` | instances for TLC |
| `MoviesProofs` | types, titles, refusals, creates and object references, proved |
| `CatalogueProofs` | that `Movies` implements `Catalogue`, proved |
| `PosterProofs` | that files get only to the movies they were given to, proved for any client; that movies do not share files, for disciplined ones |
| `SequentialProofs` | that a handler which is alone with its movie remembers the row as it is; what failures lose and leave, and what a PATCH writes, proved for one request at a time |
| `ServingProofs` | that the service runs the handlers and nothing else; metrics and origins; what a 408 can revive, lose and leave, proved for clients that wait |
| `SeedingProofs` | what runs of `seed.ts` leave, what a walk through the pages misses and repeats, proved |
| `Sessions` | `AuthService`, `UsersService`, the token repository, the strategy and the guards |
| `MCSessions` | instances for TLC |
| `SessionsProofs` | types, emails, answers and revoked tokens, proved |
| `RefusalProofs` | refusals, redemption, rights and expiry, proved |

`Serving` composes with `Movies` (it extends it, and its steps are steps of the
handlers or stutters); `Seeding` composes with `Listing`. `Sessions` is separate
from `Movies`: they share no table. How the guards decide is in `Sessions`; that they
let a request through, refuse it, fail or keep it waiting is in `Serving`.

### MovieStorage and Movies

| Model | Code |
|---|---|
| `movies[m]` (`state`, `title`, `poster`) | a row of `movies`: absent, live, or with `deleted_at` set |
| `bucket[k]` | an object: absent, stored, or deleted again |
| `pc[r]` | the awaited call that request `r` makes next |
| `input[r]` | its path and body after `ValidationPipe` |
| `entity[r]` | the `MovieEntity` in the handler's memory |
| `diff[r]` | the columns `save()` found different from the row it re-read |
| `status[r]` | the HTTP status; `"lost"` when the process died |
| `touched` | history: requests that changed a store |

The paths through the awaited calls are in the header of `Movies.tla`. Points
where the translation matters:

* `save()` of a loaded entity is **two** round trips in TypeORM: `Load` re-reads
  the row (soft-deleted rows included) and computes the changed columns, `Write`
  updates those. `deleted_at` is one of them: the entity was read live, so a row
  deleted meanwhile gets `deleted_at = NULL`.
* `existsWithTitle` compares the title *as sent* with the live rows. The row
  stores it trimmed, and the unique index covers deleted rows. `Trim` is
  applied where the code applies it and nowhere else.
* An error of `deleteFile` is swallowed, any other becomes 500
  (`HttpExceptionFilter`).
* A request names the row id and the S3 key it creates, since both are fresh
  UUIDs. Collisions of UUIDs are therefore not modelled.
* `Accepts` is what the database takes as a row: a title that is free and not too
  long (`TooLong`, 255 characters), a `poster_url` that is neither null nor too long
  (`"null"`, `"long"`, 1024 characters). No DTO has a `MaxLength`, and `IsOptional` lets
  a null through, so all of these end in a 500 when the row is written.
* `publishingYear` and the file's contents are left out. No step depends on
  them, but for a null `publishingYear` in a PATCH, which ends like a title that
  is too long; `FileValidationPipe`'s verdict is part of the input (`"good"`, `"bad"`).

Failures are actions: a query or an S3 call fails with no effect, or takes effect
and its answer is lost (`Acknowledge`), or the process dies between two calls
(`Crash`). A restarted process has no memory of its requests, so a crash of one
process is a set of requests that end `"lost"`.

### Catalogue

Each request takes effect on the table at most once, on its own row, at the
instant its answer is decided; a 404 or a 409 is true of the table at some
instant while the request runs. An edit is two steps: `Read`, while the movie is
listed, and `Edit`. In between the row may change, and the edit is *allowed* to put
the columns it does not name back to what it has read (`versions`), and to revive a
row that was deleted. It is allowed nothing else: a column it does not name stays,
or goes back to that one value, and a column it names stays or gets the value named.
That is what the code does, and the module says so where a reader would look for it.
The refinement mapping is the identity on table, inputs and answers, and takes the
versions from the handlers' memory:
`Promised == INSTANCE Catalogue WITH rows <- movies, asked <- input,
answer <- status, versions <- Versions`.

### Sessions

| Model | Code |
|---|---|
| `users[u]` | a row of `users`; `r` names the user that request `r` registers |
| `tokens[k]` | a row of `refresh_tokens`; `r` names the token it issues |
| `access[k]` | the payload of the access token signed with it (no table) |
| `now` | the clock |
| `deployment` | the type of the column `users.roles`, and whether `JWT_EXPIRES_IN_SECONDS` comes from the environment |
| `pc`, `input`, `user`, `read`, `status` | the handler: next call, request, the user it holds, the time it passes to a query, the answer |

* `refreshToken()` is not reachable: `AuthController` has `register` and `login`
  only. It is modelled as a handler because it is a public method waiting for its
  route; everything said about refreshing is about that method.
* A `call` is any other request up to the end of the guards: passport checks the
  signature and `exp`, `JwtStrategy.validate` reads the user, `RolesGuard`
  compares the roles *of the row*.
* `Sign` merges `signAsync` with `createAndSave` up to its query, since `signAsync`
  touches no shared state. `read` keeps the `new Date()` of the latter.
* Passwords are right or wrong; bcrypt is not modelled.
* No endpoint removes a user or changes roles. `Operate` is external: an operator
  who writes `deleted_at` or `roles`.
* The entity declares `roles` as `simple-array` (text), the migration creates
  `text array`. With the migrated table every INSERT of a user sends `customer`
  where an array literal is expected and fails, so registration is answered 500
  and the admin cannot be seeded. This is the deployment `roles = "text[]"`, in
  which `Init` has no users. With `DB_SYNCHRONIZE=true` it is `"text"`.

### Serving

| Model | Code |
|---|---|
| `up`, `server` | the replicas, and which of them has a request |
| `reply[r]` | the answer on the wire; `status[r]` of `Movies` is the end of the handler |
| `counted`, `observed` | the requests in `http_requests_total` and in the count of `http_request_duration_seconds` of a process |
| `runtime`, `cache`, `origins` | `config/runtime.json`, what `DynamicConfigService` holds of it, what `enableCors` was given |

* `Send` hands a request to a process, whose guards begin with the lookup of the
  user (`JwtStrategy.validate`). The request is then `Guarded` until they let it
  through (`Arrive`), refuse it (`Refuse`: 401, or 403, which is not told apart), or
  their query fails (`GuardFails`: 500). None of this is counted or has a timer, and
  a process that dies takes the connection along. The body is looked at in `Arrive`:
  what a client may send is a matter of that instant.
* The interceptors are installed as `MetricsInterceptor` around
  `TimeoutInterceptor`, after the guards. `Arrive` counts and starts the timer, `Work`
  lets the handler take a step and passes its end on with `Answer`, and `TimeOut`
  answers 408 instead. rxjs then drops the handler's result, but nothing tells the
  handler.
* `Bootstrap` is `NestFactory.create` and `enableCors`, `Listen` is `app.listen`,
  which is when `onModuleInit` reads the file. So `origins` never come from it.
* `Fail` ends a process: connections break, both metrics start anew, and its
  handlers take no step any more (`Abandon` only notes that they are gone).
* A client that repeats a request sends another one with the same input.

### Listing and Seeding

* `ReadPage` and `CountRows` are the two queries of `findAndCount`. TypeORM leaves
  the second one out where the page tells the total by itself. `PagesOf` is the set
  of results that SQL allows: rows whose order is not fixed come in any order, and
  in another one the next time.
* `stayed`, `came`, `left` and `twice` are history, for the properties.
* Rows appear and disappear in `Listing` as the other handlers make them: an
  insert with a `created_at` that may be older than what is there, a soft delete,
  and the revival that `Movies` shows to be possible.
* `names` gives each row the title or the email it will have (`Namings`): a movie the
  service makes may take the title of an example, a user the email of the admin,
  and the unique indices let only one of them in (`Taken`). Rows keep their names;
  renamings are left out here (they are in `Movies`).
* `Connect` is the service's TypeORM connecting, and making the tables if
  `DB_SYNCHRONIZE` is set. Databases start without tables, migrated or synchronized,
  as an operator left them: `npm run migrate` itself is no action, see the
  divergences below. A database that neither the service nor `seed.ts` connects
  to has no tables.
* A run of `seed.ts` is `SeedUsers`, `CountMovies`, `SeedMovies`, one awaited call
  each. Any rejection ends it. Runs overlap and fail at any call.

## 3. Runs

Bounds are given by the `.cfg` files and the `MC` modules. `Faults` lists what
may fail; `Concurrency` bounds the handlers in flight.

| Run | Question | Instance | States |
|---|---|---|---|
| `movies_concurrent` | Do the table and the answers stay right in every interleaving and failure, do the handlers implement `Catalogue`, and when can a request about one movie delete the file of another? | 3 overlapping requests of any kind, 2 seeded movies, all faults, any client | 509 k |
| `movies_sequential` | One request at a time: what do failures leave in the two stores, and what does a PATCH write? | 3 requests, 2 seeds, database faults and crashes, every combination of fields | 1.33 M |
| `movies_liveness` | Is every request that starts answered? | 2 requests, `FairSpec`, all faults | 34 k |
| `movies_lost_poster` | Does a live movie keep its file? **No** | 2 edits, no faults | violated |
| `movies_revived` | Does a deleted movie stay deleted? **No** | a PATCH and a DELETE, no faults | violated |
| `movies_title_conflict` | Is a taken title answered 409? **No** | 2 requests, no faults | violated |
| `movies_kept_file` | Does a DELETE that is answered 200 remove the file? **No** | one request at a time, S3 may fail | violated |
| `sessions` | Emails, answers, redemption, refusals, rights, expiry | 2 overlapping requests of any kind beside a logged-in admin, an operator, 4 instants, 3 deployments, database faults and crashes | 389 k |
| `sessions_expiry` | Does an access token live as long as the client was told? **No** | the setting in the environment, no faults | violated |
| `serving` | Guards, timeouts, retries and dying replicas: who may wait for ever, do the handlers keep their behaviour, and what can a 408 undo? | 2 requests, 1 seed, 2 replicas, clients that wait for an answer and attach once, database faults and crashes, one edit of `runtime.json`; `FairServing` | 790 k |
| `serving_attached` | Which files are left over by a client that uploads a poster, attaches it, replaces it and deletes the movie? | 3 requests, 1 seed, 1 replica, the same clients and faults | 422 k |
| `seeding` | What do runs of `seed.ts` leave, and what does a client that walks through the pages get? | 2 runs, 3 movies of which 2 examples, 2 users, every choice of names, 2 databases in every state, 2 instants, pages of 1 and 2 | 991 k |

**Why the bounds are enough to be interesting.** Every movie property relates at
most two rows, one object and two requests; three requests allow two that
overlap and one that prepares the ground (uploads a poster, creates the movie
that is edited). Titles are one per seed, one free, the free one with white
space, and one that is too long. URLs are empty, null, too long, outside the bucket,
and every object. In
`sessions` the admin is already logged in, so that two requests suffice for each
pair that can interfere: two registrations of one email in different case, two
refreshes of one token, a refresh or a call beside an operator. The instants are 0,
3 s (a token signed for "3600" ms has expired), 3600 s (one signed for 3600 s has)
and 604800 s (so has a refresh token). In `serving` two requests are what each claim about a 408 needs: the one that
timed out and the one after it. A file of `upload-poster` that is left over takes a
third (uploaded, attached, dropped), so `serving_attached` has three, one process,
which is enough to die and to come back, and no liveness, so that symmetry is sound. In
`seeding` three movies and pages of one or
two rows give walks of up to three pages with a row on either side of each
boundary; two instants give both ties and order. Symmetry is used in runs without
liveness only, on requests, on the runs of `seed.ts`, and on the two examples.

**Clients.** In `movies_concurrent` a client may send any URL it can know. In
the sequential runs and in `serving` it attaches an uploaded poster to one movie only
(`AttachOnce`), because two rows that share a file lose it together, and nothing in
the code prevents a client from making two rows share one. Such a client may use a
URL again where it was without effect (after a 400, 404 or 409, or a create that
left no row), and may repeat a PATCH of the same movie while it is unanswered or after
a 500 or a lost answer. In `serving` clients are also `Patient`: each waits for an
answer before it sends the next request. Handlers overlap all the same, since a 408
leaves one running, and what is left to go wrong is then the pipeline's doing.

**Deadlock** is checked in every run: the system may stop only when all requests
have ended (`AllDone`, `AllAnswered`). In `seeding` a process may connect again at
any time.

**Fairness.** `FairSpec` is weak fairness of every handler's own steps. Node
resumes a handler whose promise has settled, and the S3 and PostgreSQL clients
settle every call with a result or an error. `FairServing` is weak fairness of
`TimeOut` alone: the timers of a living process fire, and nothing more is asked.
There the stores may never answer, neither the handlers nor the guards, and a process
may die and stay dead. A client past the guards is answered even so. No fairness is assumed of clients, faults, crashes,
the clock or the operator.

### What the violated runs show

* `LivePostersStored`. A PATCH of the title, loaded before another PATCH
  replaced the poster, saves the old URL over the new one after the old file was
  deleted. Both are answered 200 and the movie has lost its poster.
* `DeletedStaysDeleted`. `save()` of an entity read before a DELETE clears
  `deleted_at`: the movie is back, its file is gone.
* `TitleConflictIs409`. White space, a soft-deleted movie or an overlapping
  create hides the conflict from the check; the unique index answers with 500.
* `DeleteRemovesThePoster`. `deleteOldPoster` logs an error of S3 and forgets it:
  the DELETE is answered 200 and the file stays, although the endpoint's description
  says that it is removed.
* `AccessLastsAsTold`. The setting is a string when it comes from the
  environment, and `jsonwebtoken` takes a bare string as milliseconds: the
  token expires after 3 s while the response says 3600.

Divergences seen while reading that need no run: `README.md:7` announces a
refresh endpoint, and no controller has one; the Swagger texts of
`movies.controller.ts` list "403 Admin role required" on POST, PATCH and DELETE,
and only `upload-poster` has a `@Roles`. They also say that a PATCH can clear the
poster with an empty string (`:201`): `""` is refused with 400, and `null` ends in a 500
after the old file was deleted. `README.md:19-24` tells the reader to
run the migrations and then the seeds: the first finds none, because
`MIGRATION_PATHS` matches no file in any build, and both connect with the default
settings, because the `ConfigService` they make has no loaders. So where `.env` names
another database, as `README.md:21` asks for, seeding ends well and the service has no
admin (`SeedingFillsTheDefault` says where the rows are instead). `runtime.json` has
a list of CORS origins that never applies. `REQUEST_TIMEOUT_MS=` (set, but empty)
is the number 0, with which every request that awaits anything is answered 408.
After a change of the bucket's URL the posters stored before have no key, and
their files are never deleted.

### What the passing runs show

Safety in every interleaving (`movies_concurrent`): `UniqueTitles`,
`ClientErrorsLeaveNoTrace` (400/404/409 changed neither store),
`CreateAnswersMatchRows` (a 201 has its row; an error with a row is a 500 or a lost
answer after the INSERT), `ReferencedWasUploaded`, `ImplementsCatalogue`, and
`NoCrossMovieDelete`: a request deletes the file of another movie only where both were
*given* it (`GivenTo`: it was uploaded for one and its URL sent for the other, or the
URL was sent for both). Overlaps, stale URLs and failures alone never do that. One at
a time: `DanglingOnlyAfterFailure`, `OrphanOnlyAfterFailure`, `DeletedMoviesKeepNoFile`,
`PatchWritesOnlyWhatItNames`; the first two say precisely what the missing
transaction costs, which is a dead URL or an orphaned object, and only through
a request that failed. `EveryRequestAnswered` is the liveness property.

`sessions`: `UniqueEmails`, `AnswersMatchTables`, `RevokedForANewOne`,
`RefreshRefusalsAreTrue`, `RedeemedOnlyInOverlap` (two refreshes may both redeem a
token, but not after one of them was answered), `RightsAreCurrent`, and
`DefaultAccessLastsAsTold` (the expiry is right where the setting is left to its
default).

`serving`: `RunsTheHandlers` (the service implements `Movies`, so everything above
holds in it), `OnlyGuardsKeepWaiting` (liveness: a client that is never answered waits
for the guards, whose lookup no timer watches; whatever else hangs, it is told 408 or
loses its connection), `HistogramLacksTheErrors`, `ReplicasAllowTheSameOrigins`.
`DanglingOnlyAfterTrouble` and `RevivedOnlyAfterTrouble` there, and
`OrphanOnlyAfterTrouble` in `serving_attached`, say what a timeout costs a client
that does everything right. They hold because damage needs a handler that outlives
its answer, or a failure, and the client was told 408, 500 or nothing. A client that
was only ever told 2xx, 400, 404 or 409 has lost no file and no deletion.
A file is left over only if nobody attached what `upload-poster` stored, or its
uploading request was in trouble, or a request in trouble was about a movie
the file was uploaded for or attached to (`MoviesWith`); a file that was attached and
dropped by requests that went well is gone.

`seeding`: `ExamplesComeWithTheAdmin`, `SeedingFillsTheDefault` (wherever the service
is), `HalfSeededStays` (a run that stopped half-way cannot be made good
by another), `WalkMissesOnlyAfterRemoval`, `WalkRepeatsOnlyAfterArrival`. The last two
make an exception of *tied* rows. The two examples of `seedMovies` are tied, having
been saved in one transaction, and so are all users.

Each property of a passing run is broken by a plausible change of the code; these
changes are the operators marked `Mutant` beside the definitions they change.

## 4. Proofs

The theorems hold for every value of the constants that satisfies the named
`ASSUME`s: sets of requests and seeds of any size, any inputs of the right shape,
any faults. The assumptions say that requests, seeds and the markers are distinct,
that trimming is idempotent and both it and lower-casing stay among the names a
client can send, that the seeded rows are well-formed, not too long and unique, that no process is called
"none", that movies and users are finite sets with no row in common, that page sizes are
positive, that the default database exists and there is an example movie, and
that the bounds are numbers. TLC evaluates them in every run that uses them.

Some theorems have a hypothesis about a constant besides; it is always one that the
run which checks the property has in its `.cfg`:

* `AttachOnce`: a client attaches an uploaded file to one movie, as said under Clients
  above. Without it two rows can share a file, and lose it together. So it is for
  all theorems about files, but for `ReferencesWereUploaded` and
  `FilesDieWithTheirMovie`.
* `Concurrency = 1`: one request at a time. Without it the violated runs
  `movies_lost_poster` and `movies_revived` are the counterexamples.
* `Patient`: a client waits for its answer. It is the same discipline as seen from
  the client; handlers still overlap after a 408, and it says nothing of when they end.
* `"s3" \notin Faults`: S3 does what it is asked. `remove()` and `update()`
  swallow an error of `deleteFile` and go on to a 200, so with that fault a
  file is left behind with no failed request to blame, and the properties about
  files that are *left* are false. Those about files that are *lost* are proved
  with that fault too, which the runs leave out.

| Theorem | Property | Argument |
|---|---|---|
| `MoviesProofs!TypeCorrect` | `TypeOK` | inductive; one lemma per action |
| `MoviesProofs!TitlesStayUnique` | `UniqueTitles` | with `NamedRowsExist`: a request names only rows that exist, so `TitleTaken` guards the writes that can collide |
| `MoviesProofs!NoTraceOfClientErrors` | `ClientErrorsLeaveNoTrace` | `NoTraceInv`: a request that has touched a store is past the last call that can answer 4xx |
| `MoviesProofs!CreatesAnsweredTruly` | `CreateAnswersMatchRows` | inductive with the row invariant: row `r` is absent while `r` has not inserted it |
| `MoviesProofs!ReferencesWereUploaded` | `ReferencedWasUploaded` | `UploadedInv`: rows, entities in memory, and URLs in requests refer to objects that exist or did |
| `CatalogueProofs!HandlersImplementCatalogue` | `ImplementsCatalogue` | step simulation under `ImplInv`: what a handler has in memory *fits* its request, so the row a PATCH reads is an abstract `Read`, each write an `Add`, `Edit` or `Drop` within what was read or named, each answer the abstract one, every other step a stutter |
| `SessionsProofs!SessionsTypeCorrect` | `TypeOK` | from `SessionsInv` |
| `SessionsProofs!AnswersAreTrue` | `AnswersMatchTables` | from `SessionsInv`, below |
| `SessionsProofs!EmailsStayUnique` | `UniqueEmails` | only the index of `InsertUser` is needed, never the preceding check |
| `SessionsProofs!TokensAreGivenUpForNewOnes` | `RevokedForANewOne` | a request that redeemed a token goes on having redeemed it: it signs, issues to the same owner, or fails |
| `RefusalProofs!RefusalsOfRefreshAreTrue` | `RefreshRefusalsAreTrue` | `RefusalInv`, below |
| `RefusalProofs!TokensAreRedeemedInOverlap` | `RedeemedOnlyInOverlap` | a 200 means the token is revoked in the table, and `FindToken` wants it unrevoked |
| `RefusalProofs!RightsEndAtOnce` | `RightsAreCurrent` | the only step that ends a call with 200 reads the row itself |
| `RefusalProofs!AccessLastsByDefault` | `DefaultAccessLastsAsTold` | `RefusalInv` |
| `PosterProofs!FilesDieWithTheirMovie` | `NoCrossMovieDelete` | `GivenInv`, below (any client) |
| `PosterProofs!ObjectsAreBoundOnce` | — | `BoundInv`, below (`AttachOnce`) |
| `SequentialProofs!HandlersAreAlone` | — | `AloneInv`, below (`Concurrency = 1`) |
| `SequentialProofs!PatchesWriteWhatTheyName` | `PatchWritesOnlyWhatItNames` | from `AloneInv`, step by step: the columns that `save()` finds different are those of the body (`Concurrency = 1`) |
| `SequentialProofs!FilesWaitForTheirMovie` | — | `HandsInv`, below (`AttachOnce`; requests may overlap) |
| `SequentialProofs!FilesAreLostByFailure` | `DanglingOnlyAfterFailure` | `KeptInv`, below (`Concurrency = 1`, `AttachOnce`) |
| `SequentialProofs!FilesAreDropped` | `OrphanOnlyAfterFailure`, `DeletedMoviesKeepNoFile` | `DroppedInv`, below (the same, `"s3" \notin Faults`) |
| `ServingProofs!ServiceRunsTheHandlers` | `RunsTheHandlers` | step simulation: a step of the service is a handler's or a stutter |
| `ServingProofs!ServiceKeepsThePromises` | — | so `UniqueTitles`, `ClientErrorsLeaveNoTrace` and `CreateAnswersMatchRows` hold in the service |
| `ServingProofs!ServingTypeCorrect` | `ServingTypeOK` | `PipelineOK` beside `TypeOK` |
| `ServingProofs!HistogramIsShortByTheErrors` | `HistogramLacksTheErrors` | `PipelineInv`: a running request of a living process is counted, and no process that has one is starting; `MetricsOK`: what a process counted has come past the guards |
| `ServingProofs!SameOriginsEverywhere` | `ReplicasAllowTheSameOrigins` | `OriginsInv`: a process that is not up has loaded nothing |
| `ServingProofs!OneRequestIsWaitedFor` | — | `RepliesOK` relates the answer on the wire to how far the handler is (`Patient`) |
| `ServingProofs!TimeoutsReviveMovies` | `RevivedOnlyAfterTrouble` | `RevivedInv`: after the 200 of a DELETE the PATCHes of the movie that can still write have timed out (`Patient`) |
| `ServingProofs!FilesAreLostByTrouble` | `DanglingOnlyAfterTrouble` | `ServedKept`, below (`Patient`, `AttachOnce`) |
| `ServingProofs!FilesAreLeftByTrouble` | `OrphanOnlyAfterTrouble` | `ServedDropped` and `ServedUploads`, below (the same, `"s3" \notin Faults`) |
| `SeedingProofs!SeedingTypeCorrect` | `SeedingTypeOK` | `ListingInv` and `BootOK` |
| `SeedingProofs!ExamplesNeedTheAdmin` | `ExamplesComeWithTheAdmin` | `SeededInv`: a run past its first call has the admin in the table |
| `SeedingProofs!SeedingIsForTheDefault` | `SeedingFillsTheDefault` | `SeededInv` |
| `SeedingProofs!HalfSeededForGood` | `HalfSeededStays` | from `SeededInv`, step by step: `SeedUsers` is refused by the admin's email |
| `SeedingProofs!WalksMissWhatMovedUp` | `WalkMissesOnlyAfterRemoval` | `MissInv`, below |
| `SeedingProofs!WalksRepeatWhatMovedDown` | `WalkRepeatsOnlyAfterArrival` | `RepeatInv`, below |

Why the properties need strengthening: `TypeOK` says nothing of what a handler
*remembers*. `SessionsInv` adds `RequestOK`, which relates memory to the tables
at each `pc`: the user in memory owns the token that is being redeemed, has the
email that was asked for, and the row a request creates is absent until it creates it.
It adds `TokenOK`: a stored token and the access token made with it have one owner. A step is
then split into its effect on its own request (one lemma per action) and a frame
lemma that shows the other requests' memory still agrees with the tables
(`StepKeepsMemory`, `StepKeepsTables`, `OthersKeep`). `ImplInv` plays the same part for
the movies.

`RefusalInv` is about the reasons of refusals. A 401 that was true when it was
decided is only true now if its reason cannot go away. So the module first shows
that reasons last (`Lasting`, `ReasonsLast`): time goes on, and a stored token, its
owner and its access token never change but for `revoked`, which is never taken
back, and a removed user stays removed.

Where files get. A URL travels from the bucket through an answer, a request body
and a handler's memory into a row, and the old one travels back out of memory into
`deleteFile`. `GivenInv` follows it, for any client: whatever a row or a handler at
work has, the movie was given (`Has`), by the upload itself or by a request that names
the URL and is past the last call that could still refuse it (`Settled`); a handler
may also have what its own request names. Being given a file in this sense is for good
(`HasStays`), which is why it says `Settled` and not just "named".

`BoundInv` says for disciplined clients that an object is *bound* for one movie
(`Bound(k, m)`: row `m` has it, or a request about `m` has it in memory, in its body,
or is about to store it), and that the object of an upload-poster
gets into a row or a memory only through requests that name its URL
(`UploadsAreNamed`). Requests that were without effect bind nothing, and stay
without effect (`NoEffectStays`), so a client may use the URL anew after them.

What failures lose and leave. `DanglingOnlyAfterFailure` looks at the stores
between requests only; during a request the row and the bucket disagree all the
time, on purpose. The invariant of `SequentialProofs` therefore says of each call
what the handler has in hand, in parts that rest on each other:

* `HandsInv` is about files that are waited for: one that a create refers to, or that a
  client has uploaded and not attached, is stored, and none is there
  before its own request stores it. It holds however requests overlap, since
  `BoundInv` says that nobody else's file is deleted.
* `AloneInv`: one request is at work, and `HandRow`: at each call its entity is the row,
  up to the title and the poster the body gives it, so that the columns
  `save()` finds different are its own.
* `KeptInv`: a live movie has its file (`Rest`) unless the request that is replacing
  or removing it is past its `deleteFile`; and what that request will write is
  stored (`HandKept`). This is asked of movies that no failed request named, which is the
  exception the property makes; a request that failed has failed for good, so
  the set of such movies only shrinks.
* `DroppedInv`: past `deleteFile` the row's old file is gone (`HandFile`), a
  deleted movie has none (`Emptied`), and every stored file is held by a live row or by a
  handler about to write one (`Held`), or its own request failed, or nobody
  has attached it.

In `Serving` the same `HandRow`, `HandKept` and `HandFile` hold of the movies no
request about which was answered 408 or 500 or lost (`TroubleFree`): the handlers
that still run after their answer are all about other movies, and
`OneRequestIsWaitedFor` leaves one request at most about this one. So the
lemmas about one call of a handler that is alone *with its movie* serve both modules
(`ServedKept`, `ServedDropped`). A file that no row holds any more is charged to
the movie it was bound for, its `Home`. The file of an upload-poster has no home until
it is attached: `ServedUploads` says that it is held, or not attached yet (`Unserved`:
the requests that name it were refused or are at work), or its own request was in
trouble, or one about the movie of a request that named it and was not refused
(`Blamed`). The blame is fixed at the step that drops the file or fails to attach
it, and stays (`BlamedStays`).

The walk through the pages. `Position(x)` is the number of live rows ahead of `x` in
the list. For a row whose place is fixed (not `Tied`), that number is its index in every
result that SQL allows (`PagePositions`). A removal can only lower it, an arrival only
raise it (`RowsMiss`, `RowsRepeat`). `MissInv`: as long as no row was removed,
what the client has not got is at or behind the offset of the next page. `RepeatInv`: as
long as none came, what it has got is before it. The total
is of a later instant than its page; where no row was removed in between, it still counts
whatever lies behind the page, so the client does not stop too early. A page that
failed and is read again changes neither.

Model-checked only: liveness (`EveryRequestAnswered`, `OnlyGuardsKeepWaiting`), which is
beyond the prover, as is `ENABLED`. Every invariant and every action property
of the passing runs is proved. The inductive invariants above are proved and
are not properties of runs of their own.

## 5. Not modelled, and why

* **Health, telemetry, logging**: no state the program reads.
* **Charts, CI, scripts**: no program logic. The two replicas appear as processes
  that start, serve and die separately.
* **getSignedUrl, fileExists**: no caller.
* **URL patterns of `extractKeyFromUrl`**: only its outcome, a key or none. With fixed
  settings every URL the service makes itself has its key.
* **The checks of `FileValidationPipe`** one by one: only its verdict.
* **Other settings** (database, S3, JWT secret, timeout): read once and fixed.
* **Labels of the metrics, the scrape, response wrapping, request ids**: output.
* **`GET /movies/:id`**: one read, no effect.

## 6. Plan

Done, the most important first: `MovieStorage`, `Movies`, `MoviesProofs`,
`Catalogue`, `CatalogueProofs`, `Sessions`, `SessionsProofs`, `Serving`, `Listing`,
`Seeding`, `ServingProofs`, `SeedingProofs`, `RefusalProofs`, `PosterProofs`,
`SequentialProofs`, the single-client theorems of `ServingProofs` and the walks of
`SeedingProofs`. Left:

1. What a failing `deleteFile` costs exactly. `movies_kept_file` shows that it costs a
   file; to prove is that, with `"s3" \in Faults`, an orphan with no failed request to
   blame is a file whose movie was edited or deleted with a 200.
2. Which of the single-client theorems survive several clients that each keep to
   movies of their own.
