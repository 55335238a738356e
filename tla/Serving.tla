------------------------------ MODULE Serving ------------------------------
(***************************************************************************)
(* What stands between the clients and the handlers of Movies: the         *)
(* processes of the service and how they start, the guards, and the global *)
(* interceptors that main.ts installs (MetricsInterceptor around           *)
(* TimeoutInterceptor).                                                    *)
(*                                                                         *)
(* What the client is told and what the handler does are two things here:  *)
(* reply is the answer on the wire, status the end of the handler. They    *)
(* differ after a timeout, which does not stop the handler, and when the   *)
(* process dies.                                                           *)
(***************************************************************************)
EXTENDS Movies

CONSTANTS
  Processes,  \* the replicas of the service
  Patient     \* the clients wait for an answer before they send the next

ASSUME ServingAssumption == "none" \notin Processes /\ Patient \in BOOLEAN

VARIABLES
  up,        \* each process: down, starting or up
  runtime,   \* the origins in config/runtime.json, "absent" if there are none
  cache,     \* what DynamicConfigService of each process has loaded of it
  origins,   \* what the CORS middleware of each process allows
  server,    \* the process the load balancer gave each request to
  reply,     \* what the client of each request was told
  counted,   \* the requests in http_requests_total of a process: its value is
             \* the size of the set, and a process starts with none
  observed   \* those in the count of http_request_duration_seconds

service == <<up, runtime, cache, origins, server, reply, counted, observed>>
process == <<up, runtime, cache, origins>>

Replies == Codes \union {"none", "401", "408"}

-----------------------------------------------------------------------------
(* bootstrap().                                                            *)

\* Mutant: DynamicConfigService looks into the file itself
AllowedOriginsFile(p) == IF runtime = "absent" THEN "defaultOrigins" ELSE runtime

\* dynamicConfigService.get('cors.allowedOrigins') ?? defaultOrigins
AllowedOrigins(p) == IF cache[p] = "absent" THEN "defaultOrigins" ELSE cache[p]

ServingInit ==
  /\ Init
  /\ up       = [p \in Processes |-> "up"]
  /\ runtime  = "list"
  /\ cache    = [p \in Processes |-> "list"]
  /\ origins  = [p \in Processes |-> "defaultOrigins"]
  /\ server   = [r \in Requests |-> "none"]
  /\ reply    = [r \in Requests |-> "none"]
  /\ counted  = [p \in Processes |-> {}]
  /\ observed = [p \in Processes |-> {}]

\* NestFactory.create and enableCors, of a process the cluster starts again
Bootstrap(p) ==
  /\ up[p] = "down"
  /\ \A r \in Requests : server[r] = p => pc[r] \notin Steps
  /\ up' = [up EXCEPT ![p] = "starting"]
  /\ origins' = [origins EXCEPT ![p] = AllowedOrigins(p)]
  /\ UNCHANGED <<vars, runtime, cache, server, reply, counted, observed>>

\* app.listen(): onModuleInit loads the file, and requests come in
Listen(p) ==
  /\ up[p] = "starting"
  /\ up' = [up EXCEPT ![p] = "up"]
  /\ cache' = [cache EXCEPT ![p] = runtime]
  /\ UNCHANGED <<vars, runtime, origins, server, reply, counted, observed>>

\* An operator takes the origins out of config/runtime.json. Bound: one edit
EditRuntime ==
  /\ runtime = "list"
  /\ runtime' = "absent"
  /\ UNCHANGED <<vars, up, cache, origins, server, reply, counted, observed>>

-----------------------------------------------------------------------------

\* A request that was sent and is not answered: in the guards, or at work
Waiting(r) == server[r] # "none" /\ reply[r] = "none"

Guarded(r) == Waiting(r) /\ pc[r] = "idle"

-----------------------------------------------------------------------------
(* Answers.                                                                *)

\* Mutant: the duration is observed in finalize(), errors included
AnswerObserved(r, code) ==
  /\ reply' = [reply EXCEPT ![r] = IF @ = "none" THEN code ELSE @]
  /\ observed' = [observed EXCEPT ![server[r]] = @ \union {r}]
  /\ UNCHANGED <<process, server, counted>>

\* The handler settles. rxjs has dropped its result if the timeout came first;
\* tap() sees the values that get through, and no errors
Answer(r, code) ==
  /\ reply' = [reply EXCEPT ![r] = IF @ = "none" THEN code ELSE @]
  /\ observed' = IF reply[r] = "none" /\ code \in {"200", "201"}
                 THEN [observed EXCEPT ![server[r]] = @ \union {r}]
                 ELSE observed
  /\ UNCHANGED <<process, server, counted>>

\* The connections break, and the counters go with the memory
ProcessDies(p) ==
  /\ up' = [up EXCEPT ![p] = "down"]
  /\ reply' = [r \in Requests |->
                 IF server[r] = p /\ Waiting(r) THEN "lost" ELSE reply[r]]
  /\ counted' = [counted EXCEPT ![p] = {}]
  /\ observed' = [observed EXCEPT ![p] = {}]
  /\ cache' = [cache EXCEPT ![p] = "absent"]
  /\ UNCHANGED <<runtime, origins, server>>

-----------------------------------------------------------------------------
(* A request comes in.                                                     *)

\* The URL of an uploaded file is in the answer to the upload and in the list
KnownUrl(u) ==
  u \in Requests => reply[u] = "201" \/ \E m \in MovieIds : Live(m) /\ movies[m].poster = u

MaySend(r) ==
  /\ server[r] = "none"
  /\ Patient => \A q \in Requests : ~Waiting(q)

\* The guards begin: JwtStrategy.validate asks for the row of the user. They run
\* before the interceptors, so no timer does, and they look at the token alone:
\* what is asked for matters when the handler starts
Send(r) ==
  /\ MaySend(r)
  /\ \E p \in Processes :
       /\ up[p] = "up"
       /\ server' = [server EXCEPT ![r] = p]
  /\ UNCHANGED <<vars, process, reply, counted, observed>>

\* The guards refuse it (401, or 403)
Refuse(r) ==
  /\ Guarded(r)
  /\ up[server[r]] = "up"
  /\ reply' = [reply EXCEPT ![r] = "401"]
  /\ UNCHANGED <<vars, process, server, counted, observed>>

\* The query for the user fails
GuardFails(r) ==
  /\ "db" \in Faults
  /\ Guarded(r)
  /\ up[server[r]] = "up"
  /\ reply' = [reply EXCEPT ![r] = "500"]
  /\ UNCHANGED <<vars, process, server, counted, observed>>

\* They let it through: MetricsInterceptor counts it, the timer starts, the pipes
\* check it and the handler makes its first call
Arrive(r) ==
  /\ Guarded(r)
  /\ up[server[r]] = "up"
  /\ Start(r)
  /\ Tracked(r)
  /\ KnownUrl(input'[r].url)
  /\ counted' = [counted EXCEPT ![server[r]] = @ \union {r}]
  /\ reply' = [reply EXCEPT ![r] = status'[r]]
  /\ UNCHANGED <<process, server, observed>>

-----------------------------------------------------------------------------
(* ... and is worked on.                                                   *)

Work(r) ==
  /\ pc[r] \in Steps
  /\ up[server[r]] = "up"
  /\ Handle(r) \/ DbError(r)
  /\ Tracked(r)
  /\ \/ pc'[r] # "done" /\ UNCHANGED service
     \/ pc'[r] = "done" /\ status'[r] # "lost" /\ Answer(r, status'[r])
     \/ pc'[r] = "done" /\ status'[r] = "lost" /\ ProcessDies(server[r])

\* Mutants: an expired request is answered with nothing, catchError(() => of());
\* uploads are exempt; the handler is stopped with its request
TimeOutEmpty(r) ==
  /\ Waiting(r) /\ pc[r] \in Steps
  /\ up[server[r]] = "up"
  /\ reply' = [reply EXCEPT ![r] = "200"]
  /\ UNCHANGED <<vars, process, server, counted, observed>>

TimeOutNoFile(r) ==
  /\ Waiting(r) /\ pc[r] \in Steps
  /\ up[server[r]] = "up"
  /\ input[r].file = "none"
  /\ reply' = [reply EXCEPT ![r] = "408"]
  /\ UNCHANGED <<vars, process, server, counted, observed>>

TimeOutStops(r) ==
  /\ Waiting(r) /\ pc[r] \in Steps
  /\ up[server[r]] = "up"
  /\ reply' = [reply EXCEPT ![r] = "408"]
  /\ pc' = [pc EXCEPT ![r] = "idle"]
  /\ UNCHANGED <<storage, input, entity, diff, status, touched, process, server, counted, observed>>

\* TimeoutInterceptor: 408 after app.requestTimeoutMs. Nothing tells the handler
TimeOut(r) ==
  /\ Waiting(r) /\ pc[r] \in Steps
  /\ up[server[r]] = "up"
  /\ reply' = [reply EXCEPT ![r] = "408"]
  /\ UNCHANGED <<vars, process, server, counted, observed>>

\* A process dies. Its handlers take no step any more (Abandon is bookkeeping)
Fail(p) ==
  /\ "crash" \in Faults
  /\ up[p] # "down"
  /\ ProcessDies(p)
  /\ UNCHANGED vars

Abandon(r) ==
  /\ pc[r] \in Steps
  /\ up[server[r]] # "up"
  /\ Crash(r)
  /\ Tracked(r)
  /\ UNCHANGED service

\* Every client has its answer and every handler has ended
AllAnswered ==
  /\ \A r \in Requests : reply[r] # "none" /\ pc[r] \notin Steps
  /\ UNCHANGED <<vars, service>>

ServingNext ==
  \/ \E r \in Requests :
       \/ Send(r) \/ Refuse(r) \/ GuardFails(r) \/ Arrive(r)
       \/ Work(r) \/ TimeOut(r) \/ Abandon(r)
  \/ \E p \in Processes : Fail(p) \/ Bootstrap(p) \/ Listen(p)
  \/ EditRuntime
  \/ AllAnswered

ServingSpec == ServingInit /\ [][ServingNext]_<<vars, service>>

\* The timers of a living process go off. A store may never answer: neither a
\* handler, nor the guards
FairServing == ServingSpec /\ \A r \in Requests : WF_<<vars, service>>(TimeOut(r))

-----------------------------------------------------------------------------
(* Properties.                                                             *)

\* The variables have their types, and what the metrics of a process hold are
\* requests it got.
ServingTypeOK ==
  /\ TypeOK
  /\ up \in [Processes -> {"down", "starting", "up"}]
  /\ runtime \in {"absent", "list"}
  /\ cache \in [Processes -> {"absent", "list"}]
  /\ origins \in [Processes -> {"defaultOrigins", "list"}]
  /\ server \in [Requests -> Processes \union {"none"}]
  /\ reply \in [Requests -> Replies]
  /\ counted \in [Processes -> SUBSET Requests]
  /\ observed \in [Processes -> SUBSET Requests]
  /\ \A r \in Requests : server[r] = "none" => pc[r] = "idle" /\ reply[r] = "none"
  /\ \A p \in Processes : \A r \in counted[p] : server[r] = p

\* Whatever the pipeline does around them (timeouts, retries, dying processes),
\* the handlers still behave as Movies says, so all that holds there holds here.
RunsTheHandlers == Spec

\* A client that is never answered waits for the guards, whose lookup of the user no
\* timer watches (jwt.strategy.ts, validate): past them it has its answer even when
\* a store never answers the handler, or the process dies.
OnlyGuardsKeepWaiting ==
  \A r \in Requests : <>[]Waiting(r) => <>[]Guarded(r)

\* In a living process the duration histogram lacks exactly the requests that
\* run, timed out or failed: rates of the two metrics differ by the errors, but
\* those of the guards (401, 403, and 500) are in neither.
HistogramLacksTheErrors ==
  \A p \in Processes, r \in Requests :
    /\ r \in observed[p] => r \in counted[p] /\ reply[r] \in {"200", "201"}
    /\ r \in counted[p] \ observed[p] =>
         reply[r] \in {"none", "400", "404", "408", "409", "500"}
    /\ reply[r] # "none" /\ input[r] = NoInput => r \notin counted[p]

\* A browser is not let in by one replica and kept out by the next, whatever is
\* edited in config/runtime.json between their starts (as the file comes too late
\* to be used at all).
ReplicasAllowTheSameOrigins ==
  \A p, q \in Processes : up[p] = "up" /\ up[q] = "up" => origins[p] = origins[q]

Trouble(r) == reply[r] \in {"408", "500", "lost"}

\* For a client that sends one request at a time, the movie whose poster file is
\* gone is one it was told of: an answer 408, 500 or none to a request about it.
\* The handler of a 408 goes on beside the next request, and can undo its work.
DanglingOnlyAfterTrouble ==
  InFlight = {} =>
    \A m \in MovieIds :
      Live(m) /\ movies[m].poster \in Keys =>
        \/ bucket[movies[m].poster] = "stored"
        \/ \E r \in Requests : input[r].id = m /\ Trouble(r)

\* For the same client, a movie whose DELETE was answered 200 comes back only
\* through a PATCH of it that was answered 408: the one that was still running.
RevivedOnlyAfterTrouble ==
  \A r \in Requests :
    /\ input[r].op = "remove"
    /\ reply[r] = "200"
    /\ Live(input[r].id)
    => \E q \in Requests :
         input[q].op = "update" /\ input[q].id = input[r].id /\ reply[q] = "408"

\* A request that may have attached a file: it named the URL and was not refused
Attaches(r, k) ==
  /\ input[r].url = k
  /\ input[r].file # "good"
  /\ reply[r] \notin {"400", "404", "409"}

\* The movies that may have had a file
MoviesWith(k) ==
  MovieIds \intersect
    ({k} \union {MovieOf(r) : r \in {q \in Requests : q = k \/ Attaches(q, k)}})

\* For the same client, a stored file that no live movie refers to was never
\* attached to one; or the request that uploaded it was in trouble, or a request
\* about a movie that it was uploaded for or attached to.
OrphanOnlyAfterTrouble ==
  InFlight = {} =>
    \A k \in Keys :
      bucket[k] = "stored" =>
        \/ \E m \in MovieIds : Live(m) /\ movies[m].poster = k
        \/ /\ k \in Requests /\ input[k].op = "uploadPoster"
           /\ \A r \in Requests : ~Attaches(r, k)
        \/ k \in Requests /\ Trouble(k)
        \/ \E r \in Requests : Trouble(r) /\ MovieOf(r) \in MoviesWith(k)
=============================================================================
