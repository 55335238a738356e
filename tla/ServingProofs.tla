--------------------------- MODULE ServingProofs ---------------------------
(***************************************************************************)
(* Theorems of Serving: the pipeline runs the handlers of Movies and       *)
(* nothing else, so what MoviesProofs proves of the handlers holds in the  *)
(* service; the two metrics of a process are related as they should; and   *)
(* for a client that waits for its answers, what a timeout can revive,     *)
(* lose or leave behind, with the lemmas of SequentialProofs for the       *)
(* movies that no timeout and no failure has touched.                      *)
(***************************************************************************)
EXTENDS Serving, SequentialProofs

-----------------------------------------------------------------------------
(* Every step of the service is a step of a handler or none.               *)

LEMMA ServingSteps == [ServingNext]_<<vars, service>> => [Next]_vars
<1> SUFFICES ASSUME [ServingNext]_<<vars, service>> PROVE [Next]_vars
  OBVIOUS
<1>1. ASSUME NEW r \in Requests, Step(r) PROVE Next
  BY <1>1 DEF Next
<1>2. ASSUME NEW r \in Requests, Arrive(r) PROVE Next
  BY <1>1, <1>2 DEF Arrive, Step
<1>3. ASSUME NEW r \in Requests, Work(r) PROVE Next
  BY <1>1, <1>3 DEF Work, Step
<1>4. ASSUME NEW r \in Requests, Abandon(r) PROVE Next
  BY <1>1, <1>4 DEF Abandon, Step
<1>5. ASSUME NEW r \in Requests, Send(r) \/ Refuse(r) \/ GuardFails(r) \/ TimeOut(r)
      PROVE  UNCHANGED vars
  BY <1>5 DEF Send, Refuse, GuardFails, TimeOut
<1>6. ASSUME NEW p \in Processes, Fail(p) \/ Bootstrap(p) \/ Listen(p)
      PROVE UNCHANGED vars
  BY <1>6 DEF Fail, Bootstrap, Listen
<1>7. EditRuntime \/ AllAnswered => UNCHANGED vars
  BY DEF EditRuntime, AllAnswered
<1> QED
  BY <1>2, <1>3, <1>4, <1>5, <1>6, <1>7 DEF ServingNext

\* Timeouts, refused and repeated requests and dying processes included, the
\* handlers of the service behave as Movies specifies.
THEOREM ServiceRunsTheHandlers == ServingSpec => RunsTheHandlers
<1>1. ServingInit => Init
  BY DEF ServingInit
<1> QED
  BY <1>1, ServingSteps, PTL DEF ServingSpec, RunsTheHandlers, Spec

\* So in the service no two movies have the same title, an answer 400, 404 or 409
\* means that nothing was done, and every create was answered what it did.
THEOREM ServiceKeepsThePromises ==
  ServingSpec => [](UniqueTitles /\ ClientErrorsLeaveNoTrace /\ CreateAnswersMatchRows)
BY ServiceRunsTheHandlers, TitlesStayUnique, NoTraceOfClientErrors,
   CreatesAnsweredTruly, PTL DEF RunsTheHandlers

-----------------------------------------------------------------------------
(* Types, and the bookkeeping of the processes.                            *)

\* The part of ServingTypeOK about the pipeline
PipelineOK ==
  /\ up \in [Processes -> {"down", "starting", "up"}]
  /\ runtime \in {"absent", "list"}
  /\ cache \in [Processes -> {"absent", "list"}]
  /\ origins \in [Processes -> {"defaultOrigins", "list"}]
  /\ server \in [Requests -> Processes \union {"none"}]
  /\ reply \in [Requests -> Replies]
  /\ counted \in [Processes -> SUBSET Requests]
  /\ observed \in [Processes -> SUBSET Requests]
  /\ \A r \in Requests : server[r] = "none" => pc[r] = "idle" /\ reply[r] = "none"
  /\ \A p \in Processes : \A r \in counted[p] : server[r] = p

LEMMA ServingTypeParts == ServingTypeOK <=> TypeOK /\ PipelineOK
BY DEF ServingTypeOK, PipelineOK

\* What a handler's step, seen from the pipeline, may change
LEMMA HandlerInPipeline ==
  ASSUME TypeOK, NEW r \in Requests, Step(r)
  PROVE  /\ TypeOK'
         /\ \A q \in Requests \ {r} : pc'[q] = pc[q] /\ status'[q] = status[q]
         /\ pc'[r] # "idle"
         /\ pc'[r] \in Steps \union {"done"}
         /\ pc'[r] = "done" <=> status'[r] # "none"
         /\ status'[r] \in Codes \union {"none"}
<1>1. TypeOK'
  BY TypeNext DEF Next
<1>2. HandlersOK'
  BY <1>1, TypeParts DEF TypeOK, HandlersOK, Entities
<1>3. \A q \in Requests \ {r} : pc'[q] = pc[q] /\ status'[q] = status[q]
  BY HandlerSteps
<1>4. pc'[r] # "idle"
  <2>1. pc[r] # "idle" => input'[r] = input[r] /\ input[r] # NoInput
    BY HandlerSteps DEF TypeOK
  <2>2. pc[r] = "idle" => Start(r)
    BY DEF Step, Handle, FindById, ExistsWithTitle, DeleteOldPoster, PutObject,
           Insert, Load, Write, SoftDelete, DbError, Crash, DbSteps, Steps
  <2>3. ASSUME Start(r) PROVE pc'[r] # "idle"
    <3>1. PICK in \in Inputs :
            pc' = [pc EXCEPT ![r] = FirstStep(in)] \/ pc' = [pc EXCEPT ![r] = "done"]
      BY <2>3 DEF Start
    <3>2. FirstStep(in) # "idle"
      BY InputFacts DEF FirstStep, Creates
    <3> QED
      BY <3>1, <3>2 DEF TypeOK
  <2> QED
    BY <1>2, <2>1, <2>2, <2>3 DEF HandlersOK
<1> QED
  BY <1>1, <1>2, <1>3, <1>4 DEF HandlersOK

\* The metrics of a process, from how far its requests are
MetricsOK ==
  \A p \in Processes, r \in Requests :
    /\ r \in observed[p] => r \in counted[p] /\ reply[r] \in {"200", "201"}
    /\ r \in counted[p] \ observed[p] =>
         reply[r] \in {"none", "400", "404", "408", "409", "500"}
    /\ pc[r] = "idle" => r \notin counted[p]

\* ... and the way it starts
PipelineInv ==
  /\ MetricsOK
  /\ \A r \in Requests :
       pc[r] \in Steps =>
         /\ up[server[r]] # "starting"
         /\ up[server[r]] = "up" => r \in counted[server[r]]

LEMMA MetricsLackTheErrors == TypeOK /\ MetricsOK => HistogramLacksTheErrors
BY DEF TypeOK, MetricsOK, HistogramLacksTheErrors

\* The origins are the same because no process has loaded the file when it is
\* asked for them
OriginsInv ==
  \A p \in Processes :
    /\ origins[p] = "defaultOrigins"
    /\ up[p] \in {"down", "starting"} => cache[p] = "absent"

ServingInv == TypeOK /\ PipelineOK /\ PipelineInv

LEMMA ServingInvInit == ServingInit => ServingInv /\ OriginsInv
<1> SUFFICES ASSUME ServingInit PROVE ServingInv /\ OriginsInv
  OBVIOUS
<1>1. TypeOK
  BY TypeInit DEF ServingInit
<1>2. PipelineOK
  BY ServingAssumption DEF ServingInit, Init, PipelineOK, Replies
<1>3. PipelineInv
  BY DEF ServingInit, Init, PipelineInv, MetricsOK, Steps, DbSteps
<1>4. OriginsInv
  BY DEF ServingInit, OriginsInv
<1> QED
  BY <1>1, <1>2, <1>3, <1>4 DEF ServingInv

LEMMA StepFacts == "idle" \notin Steps /\ "done" \notin Steps
BY DEF Steps, DbSteps

LEMMA ReplyFacts ==
  /\ {"none", "401", "408", "500", "lost"} \subseteq Replies
  /\ Codes \subseteq Replies
  /\ "none" \notin Codes /\ "401" \notin Codes
BY DEF Replies, Codes

\* The process of a request that is worked on
LEMMA ServerFacts ==
  ASSUME PipelineOK, NEW r \in Requests, pc[r] \in Steps
  PROVE  server[r] \in Processes /\ server[r] # "none"
BY ServingAssumption, StepFacts DEF PipelineOK

\* A request that no handler has got is in the metrics of no process
LEMMA NotCounted ==
  ASSUME PipelineOK, PipelineInv, NEW r \in Requests, pc[r] = "idle",
         NEW p \in Processes
  PROVE  r \notin counted[p] /\ r \notin observed[p]
BY DEF PipelineInv, MetricsOK

LEMMA HandlersStand == ASSUME TypeOK, UNCHANGED vars PROVE TypeOK'
BY TypeNext

LEMMA SendInv ==
  ASSUME ServingInv, NEW r \in Requests, Send(r)
  PROVE  ServingInv'
<1>1. TypeOK /\ TypeOK'
  BY HandlersStand DEF ServingInv, Send
<1>2. pc[r] = "idle" /\ \A p \in Processes : r \notin counted[p]
  BY NotCounted DEF ServingInv, Send, MaySend, PipelineOK
<1>3. PICK p \in Processes : server' = [server EXCEPT ![r] = p]
  BY DEF Send
<1>4. UNCHANGED <<vars, up, runtime, cache, origins, reply, counted, observed>>
  BY DEF Send, process
<1>5. PipelineOK'
  BY <1>2, <1>3, <1>4, ServingAssumption DEF ServingInv, PipelineOK, vars
<1>6. \A q \in Requests : pc[q] \in Steps => server'[q] = server[q]
  BY <1>2, <1>3, StepFacts DEF ServingInv, PipelineOK
<1>7. PipelineInv'
  BY <1>4, <1>6 DEF ServingInv, PipelineInv, MetricsOK, vars
<1> QED
  BY <1>1, <1>5, <1>7 DEF ServingInv

LEMMA RefuseInv ==
  ASSUME ServingInv, NEW r \in Requests, Refuse(r) \/ GuardFails(r)
  PROVE  ServingInv'
<1>1. TypeOK'
  BY HandlersStand DEF ServingInv, Refuse, GuardFails
<1>2. PICK code \in {"401", "500"} : reply' = [reply EXCEPT ![r] = code]
  BY DEF Refuse, GuardFails
<1>3. /\ UNCHANGED <<vars, up, runtime, cache, origins, server, counted, observed>>
      /\ pc[r] = "idle" /\ server[r] # "none"
  BY DEF Refuse, GuardFails, Guarded, Waiting, process
<1>4. PipelineOK'
  BY <1>2, <1>3, ReplyFacts DEF ServingInv, PipelineOK, vars
<1>5. \A p \in Processes : r \notin counted[p] /\ r \notin observed[p]
  BY <1>3, NotCounted DEF ServingInv
<1>6. PipelineInv'
  BY <1>2, <1>3, <1>5, StepFacts DEF ServingInv, PipelineOK, PipelineInv, MetricsOK, vars
<1> QED
  BY <1>1, <1>4, <1>6 DEF ServingInv

LEMMA TimeOutInv ==
  ASSUME ServingInv, NEW r \in Requests, TimeOut(r)
  PROVE  ServingInv'
<1>1. TypeOK'
  BY HandlersStand DEF ServingInv, TimeOut
<1>2. PipelineOK'
  BY ReplyFacts DEF ServingInv, PipelineOK, TimeOut, Waiting, process, vars
<1>3. PipelineInv'
  BY StepFacts
  DEF ServingInv, PipelineOK, PipelineInv, MetricsOK, TimeOut, Waiting,
      process, vars
<1> QED
  BY <1>1, <1>2, <1>3 DEF ServingInv

LEMMA ArriveInv ==
  ASSUME ServingInv, NEW r \in Requests, Arrive(r)
  PROVE  ServingInv'
<1>1. TypeOK /\ PipelineOK /\ PipelineInv /\ Step(r)
  BY DEF ServingInv, Arrive, Step
<1>2. /\ TypeOK'
      /\ \A q \in Requests \ {r} : pc'[q] = pc[q]
      /\ pc'[r] # "idle"
      /\ status'[r] \in Codes \union {"none"}
  BY <1>1, HandlerInPipeline
<1>3. pc[r] = "idle" /\ status'[r] \in {"none", "400"}
  BY <1>1 DEF Arrive, Start, TypeOK
<1>4. /\ server[r] \in Processes /\ up[server[r]] = "up"
      /\ \A p \in Processes : r \notin counted[p] /\ r \notin observed[p]
  BY <1>1, <1>3, NotCounted DEF PipelineOK, Arrive, Guarded, Waiting
<1>5. /\ counted' = [counted EXCEPT ![server[r]] = @ \union {r}]
      /\ reply' = [reply EXCEPT ![r] = status'[r]]
      /\ UNCHANGED <<up, runtime, cache, origins, server, observed>>
  BY DEF Arrive, process
<1>6. PipelineOK'
  <2>1. \A x \in Processes : \A q \in counted'[x] : server'[q] = x
    BY <1>1, <1>4, <1>5 DEF PipelineOK
  <2>2. \A q \in Requests : server'[q] = "none" => pc'[q] = "idle" /\ reply'[q] = "none"
    BY <1>1, <1>2, <1>4, <1>5, ServingAssumption DEF PipelineOK
  <2> QED
    BY <1>1, <1>2, <1>4, <1>5, <2>1, <2>2, ReplyFacts DEF PipelineOK
<1>7. PipelineInv'
  <2>1. MetricsOK'
    <3> SUFFICES ASSUME NEW x \in Processes, NEW q \in Requests
                 PROVE  /\ q \in observed'[x] =>
                             q \in counted'[x] /\ reply'[q] \in {"200", "201"}
                        /\ q \in counted'[x] \ observed'[x] =>
                             reply'[q] \in {"none", "400", "404", "408", "409", "500"}
                        /\ pc'[q] = "idle" => q \notin counted'[x]
      BY DEF MetricsOK
    <3>1. counted[x] \subseteq counted'[x]
      BY <1>1, <1>5 DEF PipelineOK
    <3>2. CASE q = r
      BY <1>1, <1>2, <1>3, <1>4, <1>5, <3>1, <3>2 DEF PipelineOK
    <3>3. CASE q # r
      <4>1. /\ reply'[q] = reply[q] /\ (q \in counted'[x] <=> q \in counted[x])
            /\ pc'[q] = pc[q]
        BY <1>1, <1>2, <1>4, <1>5, <3>3 DEF PipelineOK
      <4> QED
        BY <1>1, <1>5, <4>1 DEF PipelineInv, MetricsOK
    <3> QED
      BY <3>2, <3>3
  <2>2. \A q \in Requests :
          pc'[q] \in Steps => /\ up'[server'[q]] # "starting"
                              /\ up'[server'[q]] = "up" => q \in counted'[server'[q]]
    BY <1>1, <1>2, <1>4, <1>5 DEF PipelineOK, PipelineInv
  <2> QED
    BY <2>1, <2>2 DEF PipelineInv
<1> QED
  BY <1>2, <1>6, <1>7 DEF ServingInv

\* How the pipeline sees that a handler has ended, or goes on
LEMMA WorkFacts ==
  ASSUME ServingInv, NEW r \in Requests, Work(r)
  PROVE  /\ server[r] \in Processes /\ up[server[r]] = "up"
         /\ pc[r] \in Steps /\ r \in counted[server[r]]
         /\ TypeOK'
         /\ \A q \in Requests \ {r} : pc'[q] = pc[q]
         /\ pc'[r] \in Steps \union {"done"}
         /\ \/ pc'[r] \in Steps /\ UNCHANGED service
            \/ pc'[r] = "done" /\ status'[r] \in Codes \ {"lost"} /\ Answer(r, status'[r])
            \/ pc'[r] = "done" /\ ProcessDies(server[r])
<1>1. TypeOK /\ PipelineOK /\ PipelineInv
  BY DEF ServingInv
<1>2. pc[r] \in Steps /\ up[server[r]] = "up" /\ Step(r)
  BY DEF Work, Step
<1>3. server[r] \in Processes /\ r \in counted[server[r]]
  BY <1>1, <1>2, ServerFacts DEF PipelineInv
<1>4. /\ TypeOK'
      /\ \A q \in Requests \ {r} : pc'[q] = pc[q]
      /\ pc'[r] \in Steps \union {"done"}
      /\ pc'[r] = "done" <=> status'[r] # "none"
      /\ status'[r] \in Codes \union {"none"}
  BY <1>1, <1>2, HandlerInPipeline
<1>5. \/ pc'[r] # "done" /\ UNCHANGED service
      \/ pc'[r] = "done" /\ status'[r] # "lost" /\ Answer(r, status'[r])
      \/ pc'[r] = "done" /\ status'[r] = "lost" /\ ProcessDies(server[r])
  BY DEF Work
<1> QED
  BY <1>2, <1>3, <1>4, <1>5

LEMMA AnswerInv ==
  ASSUME ServingInv, NEW r \in Requests, Work(r),
         NEW code \in Codes \ {"lost"}, Answer(r, code), pc'[r] = "done"
  PROVE  ServingInv'
<1>1. TypeOK /\ PipelineOK /\ PipelineInv
  BY DEF ServingInv
<1>2. /\ server[r] \in Processes /\ pc[r] \in Steps /\ r \in counted[server[r]]
      /\ TypeOK'
      /\ \A q \in Requests \ {r} : pc'[q] = pc[q]
  BY WorkFacts
<1>3. /\ reply' = [reply EXCEPT ![r] = IF @ = "none" THEN code ELSE @]
      /\ observed' = IF reply[r] = "none" /\ code \in {"200", "201"}
                     THEN [observed EXCEPT ![server[r]] = @ \union {r}]
                     ELSE observed
      /\ UNCHANGED <<up, runtime, cache, origins, server, counted>>
  BY DEF Answer, process
<1>4. PipelineOK'
  <2>1. /\ reply' \in [Requests -> Replies]
        /\ observed' \in [Processes -> SUBSET Requests]
    BY <1>1, <1>2, <1>3, ReplyFacts DEF PipelineOK
  <2>2. \A q \in Requests : server'[q] = "none" => pc'[q] = "idle" /\ reply'[q] = "none"
    BY <1>1, <1>2, <1>3, StepFacts, ServingAssumption DEF PipelineOK
  <2> QED
    BY <1>1, <1>3, <2>1, <2>2 DEF PipelineOK
<1>5. MetricsOK'
  <2> SUFFICES ASSUME NEW x \in Processes, NEW q \in Requests
               PROVE  /\ q \in observed'[x] =>
                           q \in counted'[x] /\ reply'[q] \in {"200", "201"}
                      /\ q \in counted'[x] \ observed'[x] =>
                           reply'[q] \in {"none", "400", "404", "408", "409", "500"}
                      /\ pc'[q] = "idle" => q \notin counted'[x]
    BY DEF MetricsOK
  <2>1. /\ counted'[x] = counted[x] /\ (q \in counted[x] => server[q] = x)
        /\ pc'[r] # "idle"
    BY <1>1, <1>3, StepFacts DEF PipelineOK
  <2>2. CASE q # r
    <3>1. /\ reply'[q] = reply[q] /\ (q \in observed'[x] <=> q \in observed[x])
          /\ pc'[q] = pc[q]
      BY <1>1, <1>2, <1>3, <2>2 DEF PipelineOK
    <3> QED
      BY <1>1, <2>1, <3>1 DEF PipelineInv, MetricsOK
  <2>3. CASE q = r /\ reply[r] # "none"
    <3>1. reply'[q] = reply[q] /\ observed'[x] = observed[x]
      BY <1>1, <1>3, <2>3 DEF PipelineOK
    <3> QED
      BY <1>1, <2>1, <2>3, <3>1 DEF PipelineInv, MetricsOK
  <2>4. CASE q = r /\ reply[r] = "none"
    <3>1. reply'[q] = code /\ r \notin observed[x]
      BY <1>1, <1>3, <2>4 DEF PipelineOK, PipelineInv, MetricsOK
    <3>2. CASE code \in {"200", "201"}
      <4>1. observed' = [observed EXCEPT ![server[r]] = @ \union {r}]
        BY <1>3, <2>4, <3>2
      <4>2. q \in observed'[x] <=> x = server[r]
        BY <1>1, <1>2, <2>4, <3>1, <4>1 DEF PipelineOK
      <4> QED
        BY <1>2, <2>1, <2>4, <3>1, <3>2, <4>2
    <3>3. CASE code \notin {"200", "201"}
      BY <1>3, <2>4, <3>1, <3>3 DEF Codes
    <3> QED
      BY <3>2, <3>3
  <2> QED
    BY <2>2, <2>3, <2>4
<1>6. PipelineInv'
  <2>1. \A q \in Requests :
          pc'[q] \in Steps => /\ up'[server'[q]] # "starting"
                              /\ up'[server'[q]] = "up" => q \in counted'[server'[q]]
    BY <1>1, <1>2, <1>3, StepFacts DEF PipelineInv
  <2> QED
    BY <1>5, <2>1 DEF PipelineInv
<1> QED
  BY <1>2, <1>4, <1>6 DEF ServingInv

\* A process that dies takes its counters with it, whatever its handlers do
LEMMA ProcessDiesInv ==
  ASSUME ServingInv, TypeOK', NEW p \in Processes, ProcessDies(p),
         \A r \in Requests : pc'[r] = pc[r] \/ (pc[r] \in Steps /\ pc'[r] = "done")
  PROVE  ServingInv'
<1>1. TypeOK /\ PipelineOK /\ PipelineInv
  BY DEF ServingInv
<1>2. /\ up' = [up EXCEPT ![p] = "down"]
      /\ reply' = [r \in Requests |->
                     IF server[r] = p /\ Waiting(r) THEN "lost" ELSE reply[r]]
      /\ counted' = [counted EXCEPT ![p] = {}]
      /\ observed' = [observed EXCEPT ![p] = {}]
      /\ cache' = [cache EXCEPT ![p] = "absent"]
      /\ UNCHANGED <<runtime, origins, server>>
  BY DEF ProcessDies
<1>3. \A r \in Requests : pc'[r] = "idle" <=> pc[r] = "idle"
  BY StepFacts
<1>4. \A r \in Requests : pc'[r] \in Steps => pc[r] \in Steps
  BY StepFacts
<1>5. PipelineOK'
  <2>1. /\ up' \in [Processes -> {"down", "starting", "up"}]
        /\ cache' \in [Processes -> {"absent", "list"}]
        /\ reply' \in [Requests -> Replies]
        /\ counted' \in [Processes -> SUBSET Requests]
        /\ observed' \in [Processes -> SUBSET Requests]
    BY <1>1, <1>2, ReplyFacts DEF PipelineOK
  <2>2. \A x \in Processes : \A q \in counted'[x] : server'[q] = x
    BY <1>1, <1>2 DEF PipelineOK
  <2>3. \A r \in Requests : server'[r] = "none" => pc'[r] = "idle" /\ reply'[r] = "none"
    BY <1>1, <1>2, <1>3 DEF PipelineOK, Waiting
  <2> QED
    BY <1>1, <1>2, <2>1, <2>2, <2>3 DEF PipelineOK
<1>6. MetricsOK'
  <2> SUFFICES ASSUME NEW x \in Processes, NEW q \in Requests
               PROVE  /\ q \in observed'[x] =>
                           q \in counted'[x] /\ reply'[q] \in {"200", "201"}
                      /\ q \in counted'[x] \ observed'[x] =>
                           reply'[q] \in {"none", "400", "404", "408", "409", "500"}
                      /\ pc'[q] = "idle" => q \notin counted'[x]
    BY DEF MetricsOK
  <2>1. CASE x = p
    BY <1>1, <1>2, <2>1 DEF PipelineOK
  <2>2. CASE x # p
    <3>1. counted'[x] = counted[x] /\ observed'[x] = observed[x]
      BY <1>1, <1>2, <2>2 DEF PipelineOK
    <3>2. q \in counted[x] => server[q] # p
      BY <1>1, <2>2 DEF PipelineOK
    <3>3. reply'[q] \in {reply[q], "lost"} /\ (server[q] # p => reply'[q] = reply[q])
      BY <1>2
    <3> QED
      BY <1>1, <1>3, <3>1, <3>2, <3>3 DEF PipelineInv, MetricsOK
  <2> QED
    BY <2>1, <2>2
<1>7. PipelineInv'
  <2>1. ASSUME NEW q \in Requests, pc'[q] \in Steps
        PROVE  /\ up'[server'[q]] # "starting"
               /\ up'[server'[q]] = "up" => q \in counted'[server'[q]]
    <3>1. pc[q] \in Steps /\ server[q] \in Processes
      BY <1>1, <1>4, <2>1, ServerFacts
    <3> QED
      BY <1>1, <1>2, <3>1 DEF PipelineOK, PipelineInv
  <2> QED
    BY <1>6, <2>1 DEF PipelineInv
<1> QED
  BY <1>5, <1>7 DEF ServingInv

LEMMA WorkInv ==
  ASSUME ServingInv, NEW r \in Requests, Work(r)
  PROVE  ServingInv'
<1>1. /\ server[r] \in Processes /\ up[server[r]] = "up"
      /\ pc[r] \in Steps /\ r \in counted[server[r]]
      /\ TypeOK'
      /\ \A q \in Requests \ {r} : pc'[q] = pc[q]
      /\ pc'[r] \in Steps \union {"done"}
      /\ \/ pc'[r] \in Steps /\ UNCHANGED service
         \/ pc'[r] = "done" /\ status'[r] \in Codes \ {"lost"} /\ Answer(r, status'[r])
         \/ pc'[r] = "done" /\ ProcessDies(server[r])
  BY WorkFacts
<1>2. CASE pc'[r] \in Steps /\ UNCHANGED service
  <2>1. PipelineOK'
    BY <1>1, <1>2, StepFacts DEF ServingInv, PipelineOK, service
  <2>2. PipelineInv'
    BY <1>1, <1>2, StepFacts
    DEF ServingInv, PipelineInv, PipelineOK, MetricsOK, service
  <2> QED
    BY <1>1, <2>1, <2>2 DEF ServingInv
<1>3. CASE pc'[r] = "done" /\ status'[r] \in Codes \ {"lost"} /\ Answer(r, status'[r])
  BY <1>3, AnswerInv
<1>4. CASE pc'[r] = "done" /\ ProcessDies(server[r])
  BY <1>1, <1>4, ProcessDiesInv
<1> QED
  BY <1>1, <1>2, <1>3, <1>4

LEMMA AbandonInv ==
  ASSUME ServingInv, NEW r \in Requests, Abandon(r)
  PROVE  ServingInv'
<1>1. TypeOK /\ PipelineOK /\ PipelineInv
  BY DEF ServingInv
<1>2. pc[r] \in Steps /\ pc' = [pc EXCEPT ![r] = "done"] /\ UNCHANGED service
  BY DEF Abandon, Crash, Finish
<1>3. TypeOK'
  BY <1>1, HandlerInPipeline DEF Abandon, Step
<1>4. PipelineOK'
  BY <1>1, <1>2, StepFacts DEF PipelineOK, service, TypeOK
<1>5. PipelineInv'
  BY <1>1, <1>2, StepFacts DEF PipelineInv, MetricsOK, service, TypeOK
<1> QED
  BY <1>3, <1>4, <1>5 DEF ServingInv

LEMMA ProcessInv ==
  ASSUME ServingInv, NEW p \in Processes, Fail(p) \/ Bootstrap(p) \/ Listen(p)
  PROVE  ServingInv'
<1>1. TypeOK /\ PipelineOK /\ PipelineInv
  BY DEF ServingInv
<1>2. TypeOK' /\ UNCHANGED vars
  BY <1>1, HandlersStand DEF Fail, Bootstrap, Listen
<1>3. CASE Fail(p)
  BY <1>2, <1>3, ProcessDiesInv DEF Fail, vars
<1>4. CASE Bootstrap(p)
  <2>1. \A r \in Requests : server[r] = p => pc[r] \notin Steps
    BY <1>4 DEF Bootstrap
  <2>2. PipelineOK'
    BY <1>1, <1>4 DEF PipelineOK, Bootstrap, AllowedOrigins, vars
  <2>3. PipelineInv'
    BY <1>1, <1>4, <2>1
    DEF PipelineOK, PipelineInv, MetricsOK, Bootstrap, vars
  <2> QED
    BY <1>2, <2>2, <2>3 DEF ServingInv
<1>5. CASE Listen(p)
  <2>1. \A r \in Requests : server[r] = p => pc[r] \notin Steps
    BY <1>1, <1>5 DEF Listen, PipelineInv
  <2>2. PipelineOK'
    BY <1>1, <1>5 DEF PipelineOK, Listen, vars
  <2>3. PipelineInv'
    BY <1>1, <1>5, <2>1
    DEF PipelineOK, PipelineInv, MetricsOK, Listen, vars
  <2> QED
    BY <1>2, <2>2, <2>3 DEF ServingInv
<1> QED
  BY <1>3, <1>4, <1>5

LEMMA ServingInvNext == ServingInv /\ [ServingNext]_<<vars, service>> => ServingInv'
<1> SUFFICES ASSUME ServingInv, [ServingNext]_<<vars, service>> PROVE ServingInv'
  OBVIOUS
<1>1. CASE EditRuntime \/ UNCHANGED <<vars, service>>
  <2>1. UNCHANGED <<vars, up, cache, origins, server, reply, counted, observed>>
        /\ runtime' \in {runtime, "absent"}
    BY <1>1 DEF EditRuntime, service
  <2>2. TypeOK'
    BY <2>1, HandlersStand DEF ServingInv
  <2>3. PipelineOK'
    BY <2>1 DEF ServingInv, PipelineOK, vars
  <2>4. PipelineInv'
    BY <2>1 DEF ServingInv, PipelineInv, MetricsOK, vars
  <2> QED
    BY <2>2, <2>3, <2>4 DEF ServingInv
<1>2. CASE AllAnswered
  BY <1>1, <1>2 DEF AllAnswered
<1> QED
  BY <1>1, <1>2, SendInv, RefuseInv, ArriveInv, WorkInv, TimeOutInv, AbandonInv, ProcessInv
  DEF ServingNext

\* The variables of the pipeline have their types, and the metrics of a process
\* hold requests it got.
THEOREM ServingTypeCorrect == ServingSpec => []ServingTypeOK
<1>1. ServingInv => ServingTypeOK
  BY ServingTypeParts DEF ServingInv
<1> QED
  BY <1>1, ServingInvInit, ServingInvNext, PTL DEF ServingSpec

\* However timeouts, failures and dying processes fall, in a living process the
\* duration histogram lacks exactly the requests that run, failed or timed out.
THEOREM HistogramIsShortByTheErrors == ServingSpec => []HistogramLacksTheErrors
<1>1. ServingInv => HistogramLacksTheErrors
  BY MetricsLackTheErrors DEF ServingInv, PipelineInv
<1> QED
  BY <1>1, ServingInvInit, ServingInvNext, PTL DEF ServingSpec

-----------------------------------------------------------------------------
(* What bootstrap() reads before onModuleInit.                             *)

LEMMA OriginsNext ==
  ServingInv /\ OriginsInv /\ [ServingNext]_<<vars, service>> => OriginsInv'
<1> SUFFICES ASSUME ServingInv, OriginsInv, [ServingNext]_<<vars, service>>
             PROVE  OriginsInv'
  OBVIOUS
<1>1. PipelineOK
  BY DEF ServingInv
<1>2. CASE UNCHANGED <<up, cache, origins>>
  BY <1>2 DEF OriginsInv
<1>3. ASSUME NEW p \in Processes, ProcessDies(p) PROVE OriginsInv'
  BY <1>1, <1>3 DEF OriginsInv, PipelineOK, ProcessDies
<1>4. ASSUME NEW p \in Processes, Bootstrap(p) PROVE OriginsInv'
  BY <1>1, <1>4 DEF OriginsInv, PipelineOK, Bootstrap, AllowedOrigins
<1>5. ASSUME NEW p \in Processes, Listen(p) PROVE OriginsInv'
  BY <1>1, <1>5 DEF OriginsInv, PipelineOK, Listen
<1>6. ASSUME NEW r \in Requests, Work(r) PROVE OriginsInv'
  BY <1>2, <1>3, <1>6, WorkFacts DEF Answer, process, service
<1>7. ASSUME NEW r \in Requests,
             \/ Send(r) \/ Refuse(r) \/ GuardFails(r) \/ Arrive(r)
             \/ TimeOut(r) \/ Abandon(r)
      PROVE  OriginsInv'
  BY <1>2, <1>7 DEF Send, Refuse, GuardFails, Arrive, TimeOut, Abandon, process, service
<1> QED
  BY <1>2, <1>3, <1>4, <1>5, <1>6, <1>7
  DEF ServingNext, Fail, EditRuntime, AllAnswered, service

\* Whatever is edited in config/runtime.json while replicas stop and start, all
\* of them allow the same origins.
THEOREM SameOriginsEverywhere == ServingSpec => []ReplicasAllowTheSameOrigins
<1>1. OriginsInv => ReplicasAllowTheSameOrigins
  BY DEF OriginsInv, ReplicasAllowTheSameOrigins
<1> QED
  BY <1>1, ServingInvInit, ServingInvNext, OriginsNext, PTL DEF ServingSpec

-----------------------------------------------------------------------------
(* A client that waits for its answer. No two requests are waited for; the *)
(* others at work have timed out, or have lost their process.              *)

OneWaiting == \A q, r \in Requests : Waiting(q) /\ Waiting(r) => q = r

\* What is known of the answer, from how far the handler is
ReplyOK(r) ==
  /\ pc[r] \in Steps =>
       /\ reply[r] \in {"none", "408", "lost"}
       /\ reply[r] = "none" => up[server[r]] = "up"
       /\ reply[r] = "lost" => up[server[r]] = "down"
  /\ pc[r] = "done" => reply[r] \in {status[r], "408", "lost"}

RepliesOK == \A r \in Requests : ReplyOK(r)

LEMMA RepliesInit == ServingInit => RepliesOK /\ OneWaiting
BY DEF ServingInit, Init, RepliesOK, ReplyOK, OneWaiting, Waiting, Steps, DbSteps

\* Processes that stop and start, as the requests on them see it
LEMMA RepliesOfProcess ==
  ASSUME ServingInv, RepliesOK, NEW p \in Processes,
         Fail(p) \/ Bootstrap(p) \/ Listen(p)
  PROVE  RepliesOK'
<1>1. PipelineOK /\ PipelineInv /\ UNCHANGED vars
  BY DEF ServingInv, Fail, Bootstrap, Listen
<1> SUFFICES ASSUME NEW r \in Requests PROVE ReplyOK(r)'
  BY DEF RepliesOK
<1>2. pc'[r] = pc[r] /\ status'[r] = status[r] /\ server'[r] = server[r] /\ ReplyOK(r)
  BY <1>1 DEF RepliesOK, vars, Fail, Bootstrap, Listen, ProcessDies
<1>3. pc[r] \in Steps => server[r] \in Processes /\ server[r] # "none"
  BY <1>1, ServerFacts
<1>4. CASE Fail(p)
  <2>1. reply'[r] = IF server[r] = p /\ Waiting(r) THEN "lost" ELSE reply[r]
    BY <1>4 DEF Fail, ProcessDies
  <2>2. pc[r] \in Steps => up'[server[r]] = IF server[r] = p THEN "down" ELSE up[server[r]]
    BY <1>1, <1>3, <1>4 DEF Fail, ProcessDies, PipelineOK
  <2>3. pc[r] = "done" => ~Waiting(r)
    BY <1>2 DEF ReplyOK, Waiting, ServingInv, TypeOK
  <2> QED
    BY <1>2, <1>3, <2>1, <2>2, <2>3 DEF ReplyOK, Waiting
<1>5. CASE Bootstrap(p) \/ Listen(p)
  <2>1. pc[r] \in Steps => server[r] # p
    BY <1>1, <1>5 DEF Bootstrap, Listen, PipelineInv
  <2>2. reply'[r] = reply[r] /\ (pc[r] \in Steps => up'[server[r]] = up[server[r]])
    BY <1>1, <1>3, <1>5, <2>1 DEF Bootstrap, Listen, PipelineOK
  <2> QED
    BY <1>2, <2>2 DEF ReplyOK
<1> QED
  BY <1>4, <1>5

\* A handler goes on, or ends, as the client of any request sees it
LEMMA RepliesOfHandler ==
  ASSUME ServingInv, RepliesOK, NEW r \in Requests,
         Arrive(r) \/ Work(r) \/ Abandon(r)
  PROVE  RepliesOK'
<1>1. TypeOK /\ PipelineOK /\ PipelineInv /\ Step(r)
  BY DEF ServingInv, Arrive, Work, Abandon, Step
<1>2. /\ \A q \in Requests \ {r} : pc'[q] = pc[q] /\ status'[q] = status[q]
      /\ pc'[r] \in Steps \union {"done"}
      /\ pc'[r] = "done" <=> status'[r] # "none"
  BY <1>1, HandlerInPipeline
<1> SUFFICES ASSUME NEW q \in Requests PROVE ReplyOK(q)'
  BY DEF RepliesOK
<1>3. /\ ReplyOK(q)
      /\ pc[q] \in Steps => server[q] \in Processes /\ server[q] # "none"
  BY <1>1, ServerFacts DEF RepliesOK
<1>4. CASE Arrive(r)
  <2>1. /\ UNCHANGED <<up, server>> /\ reply' = [reply EXCEPT ![r] = status'[r]]
        /\ up[server[r]] = "up"
    BY <1>4 DEF Arrive, process
  <2> QED
    BY <1>1, <1>2, <1>3, <2>1, StepFacts DEF ReplyOK, PipelineOK
<1>5. CASE Work(r)
  <2>1. pc[r] \in Steps /\ up[server[r]] = "up" /\ reply[r] \in {"none", "408"}
    BY <1>5, RepliesOK DEF Work, RepliesOK, ReplyOK
  <2>2. CASE pc'[r] # "done" /\ UNCHANGED service
    BY <1>2, <1>3, <2>1, <2>2, StepFacts DEF ReplyOK, service, RepliesOK
  <2>3. CASE pc'[r] = "done" /\ Answer(r, status'[r])
    <3>1. /\ reply' = [reply EXCEPT ![r] = IF @ = "none" THEN status'[r] ELSE @]
          /\ up' = up /\ server' = server
      BY <2>3 DEF Answer, process
    <3> QED
      BY <1>1, <1>2, <1>3, <2>1, <2>3, <3>1, StepFacts DEF ReplyOK, PipelineOK
  <2>4. CASE pc'[r] = "done" /\ ProcessDies(server[r])
    <3> DEFINE p == server[r]
    <3>1. /\ reply'[q] = IF server[q] = p /\ Waiting(q) THEN "lost" ELSE reply[q]
          /\ server' = server
      BY <2>4 DEF ProcessDies
    <3>2. pc[q] \in Steps => up'[server[q]] = IF server[q] = p THEN "down" ELSE up[server[q]]
      BY <1>1, <1>3, <2>4 DEF ProcessDies, PipelineOK
    <3>3. CASE q = r
      BY <1>3, <2>1, <2>4, <3>1, <3>3, StepFacts DEF ReplyOK, Waiting
    <3>4. CASE q # r
      BY <1>2, <1>3, <3>1, <3>2, <3>4, StepFacts DEF ReplyOK, Waiting
    <3> QED
      BY <3>3, <3>4
  <2> QED
    BY <1>5, <2>2, <2>3, <2>4 DEF Work
<1>6. CASE Abandon(r)
  <2>1. pc'[r] = "done" /\ UNCHANGED service
    BY <1>1, <1>6, Finished, TypeParts DEF Abandon, Crash
  <2>2. reply[r] \in {"408", "lost"}
    BY <1>6, ReplyFacts DEF Abandon, RepliesOK, ReplyOK
  <2> QED
    BY <1>2, <1>3, <2>1, <2>2, StepFacts DEF ReplyOK, service
<1> QED
  BY <1>4, <1>5, <1>6

LEMMA RepliesNext ==
  ServingInv /\ RepliesOK /\ [ServingNext]_<<vars, service>> => RepliesOK'
<1> SUFFICES ASSUME ServingInv, RepliesOK, [ServingNext]_<<vars, service>>
             PROVE  RepliesOK'
  OBVIOUS
<1>1. CASE UNCHANGED <<vars, up, server, reply>>
  BY <1>1 DEF RepliesOK, ReplyOK, vars
<1>2. ASSUME NEW r \in Requests, Send(r) \/ Refuse(r) \/ GuardFails(r)
      PROVE  RepliesOK'
  <2>1. /\ UNCHANGED <<vars, up>> /\ pc[r] = "idle"
        /\ \A q \in Requests \ {r} : server'[q] = server[q] /\ reply'[q] = reply[q]
    BY <1>2 DEF Send, MaySend, Refuse, GuardFails, Guarded, ServingInv, PipelineOK, process
  <2> QED
    BY <2>1, StepFacts DEF RepliesOK, ReplyOK, vars
<1>3. ASSUME NEW r \in Requests, TimeOut(r) PROVE RepliesOK'
  BY <1>3, StepFacts
  DEF TimeOut, Waiting, RepliesOK, ReplyOK, vars, process, ServingInv, PipelineOK
<1> QED
  BY <1>1, <1>2, <1>3, RepliesOfProcess, RepliesOfHandler
  DEF ServingNext, EditRuntime, AllAnswered, service

\* A request that is worked on is waited for until there is an answer
LEMMA AtWork ==
  ASSUME PipelineOK, NEW r \in Requests, pc[r] \in Steps
  PROVE  Waiting(r) <=> reply[r] = "none"
BY ServerFacts DEF Waiting

\* An answer is final; a handler starts for a client that waits, and one whose
\* process is down does nothing more.
LEMMA ServedSteps ==
  ASSUME ServingInv, RepliesOK, [ServingNext]_<<vars, service>>
  PROVE  /\ \A q \in Requests : reply[q] # "none" => reply'[q] = reply[q]
         /\ \/ UNCHANGED vars
            \/ \E r \in Requests :
                 /\ Step(r)
                 /\ Start(r) => Guarded(r)
                 /\ pc[r] \in Steps /\ reply[r] = "lost" => UNCHANGED storage
<1> DEFINE Goal == /\ \A q \in Requests : reply[q] # "none" => reply'[q] = reply[q]
                   /\ \/ UNCHANGED vars
                      \/ \E r \in Requests :
                           /\ Step(r)
                           /\ Start(r) => Guarded(r)
                           /\ pc[r] \in Steps /\ reply[r] = "lost" => UNCHANGED storage
<1>1. TypeOK /\ PipelineOK
  BY DEF ServingInv
<1>2. CASE UNCHANGED <<vars, reply>>
  BY <1>2
<1>3. ASSUME NEW r \in Requests, Send(r) \/ Refuse(r) \/ GuardFails(r) \/ TimeOut(r)
      PROVE  Goal
  BY <1>1, <1>3
  DEF Send, Refuse, GuardFails, TimeOut, Guarded, Waiting, PipelineOK
<1>4. ASSUME NEW r \in Requests, Arrive(r) PROVE Goal
  <2>1. Step(r) /\ Guarded(r) /\ pc[r] \notin Steps
    BY <1>4, StepFacts DEF Arrive, Step, Guarded
  <2>2. reply' = [reply EXCEPT ![r] = status'[r]] /\ reply[r] = "none"
    BY <1>4 DEF Arrive, Guarded, Waiting
  <2> QED
    BY <1>1, <2>1, <2>2 DEF PipelineOK
<1>5. ASSUME NEW p \in Processes, ProcessDies(p)
      PROVE  \A q \in Requests : reply[q] # "none" => reply'[q] = reply[q]
  BY <1>5 DEF ProcessDies, Waiting
<1>6. ASSUME NEW r \in Requests, Work(r) PROVE Goal
  <2>1. Step(r) /\ pc[r] \in Steps /\ reply[r] # "lost" /\ ~Start(r) /\ server[r] \in Processes
    BY <1>1, <1>6, ServerFacts, StepFacts, OwnCall DEF Work, Step, RepliesOK, ReplyOK
  <2>2. \A q \in Requests : reply[q] # "none" => reply'[q] = reply[q]
    BY <1>1, <1>5, <1>6, <2>1 DEF Work, Answer, service, PipelineOK
  <2> QED
    BY <2>1, <2>2
<1>7. ASSUME NEW r \in Requests, Abandon(r) PROVE Goal
  <2>1. Step(r) /\ UNCHANGED storage /\ ~Start(r) /\ reply' = reply
    BY <1>7, StepFacts, OwnCall DEF Abandon, Crash, Step, service
  <2> QED
    BY <2>1
<1>8. ASSUME NEW p \in Processes, Fail(p) \/ Bootstrap(p) \/ Listen(p) PROVE Goal
  BY <1>5, <1>8 DEF Fail, Bootstrap, Listen
<1> QED
  BY <1>2, <1>3, <1>4, <1>6, <1>7, <1>8 DEF ServingNext, EditRuntime, AllAnswered, service

LEMMA OneWaitingNext ==
  ASSUME Patient
  PROVE  ServingInv /\ RepliesOK /\ OneWaiting /\ [ServingNext]_<<vars, service>>
           => OneWaiting'
<1> SUFFICES ASSUME ServingInv, RepliesOK, OneWaiting, [ServingNext]_<<vars, service>>
             PROVE  OneWaiting'
  OBVIOUS
<1>1. \A q \in Requests : reply'[q] = "none" => reply[q] = "none"
  BY ServedSteps
<1>2. ASSUME NEW r \in Requests, Send(r) PROVE OneWaiting'
  <2>1. /\ \A q \in Requests : ~Waiting(q)
        /\ \A q \in Requests \ {r} : server'[q] = server[q]
    BY <1>2 DEF Send, MaySend, ServingInv, PipelineOK
  <2> QED
    BY <1>1, <2>1 DEF OneWaiting, Waiting
<1>3. CASE server' = server
  BY <1>1, <1>3 DEF OneWaiting, Waiting
<1> QED
  BY <1>2, <1>3
  DEF ServingNext, Refuse, GuardFails, Arrive, Work, Answer, ProcessDies, TimeOut, Abandon,
      Fail, Bootstrap, Listen, EditRuntime, AllAnswered, service, process

\* A client that waits for its answer before it sends the next request has one
\* request under way, and no answer is given for another that is at work.
THEOREM OneRequestIsWaitedFor ==
  ASSUME Patient
  PROVE  ServingSpec => [](ServingInv /\ RepliesOK /\ OneWaiting)
<1>1. ServingInv /\ RepliesOK /\ OneWaiting /\ [ServingNext]_<<vars, service>> => OneWaiting'
  BY OneWaitingNext
<1> QED
  BY <1>1, ServingInvInit, ServingInvNext, RepliesInit, RepliesNext, PTL DEF ServingSpec

-----------------------------------------------------------------------------
(* A deleted movie that comes back.                                        *)

Updating(q, m) == input[q].op = "update" /\ input[q].id = m

\* After the 200 of a DELETE, the PATCHes of its movie that can still write it have
\* timed out, and such a one is what brings it back
Revived(r) ==
  LET m == input[r].id IN
  input[r].op = "remove" /\ reply[r] = "200" =>
    \/ \E q \in Requests : Updating(q, m) /\ reply[q] = "408"
    \/ /\ ~Live(m)
       /\ \A q \in Requests :
            Updating(q, m) /\ pc[q] \in Steps \ {"find"} => reply[q] = "lost"

RevivedInv == \A r \in Requests : Revived(r)

\* A DELETE is answered 200 when its row is marked.
LEMMA RemoveAnswers ==
  ASSUME ServingInv, RepliesOK, [ServingNext]_<<vars, service>>, NEW r \in Requests,
         reply'[r] = "200", reply[r] # "200"
  PROVE  /\ Step(r) /\ Waiting(r) /\ pc[r] \in Steps
         /\ pc'[r] = "done" /\ status'[r] = "200"
<1>1. PipelineOK
  BY DEF ServingInv
<1>2. ASSUME NEW p \in Processes \union {"none"}, ProcessDies(p) PROVE FALSE
  BY <1>2 DEF ProcessDies
<1>3. CASE \E q \in Requests : Send(q) \/ Refuse(q) \/ GuardFails(q) \/ TimeOut(q)
  BY <1>1, <1>3 DEF Send, Refuse, GuardFails, TimeOut, PipelineOK
<1>4. ASSUME NEW q \in Requests, Arrive(q) PROVE FALSE
  <2>1. TypeOK /\ Step(q) /\ Start(q)
    BY <1>4 DEF ServingInv, Arrive, Step
  <2>2. status'[q] \in {"none", "400"}
    BY <2>1, StartSteps
  <2> QED
    BY <1>1, <1>4, <2>2 DEF Arrive, PipelineOK
<1>5. ASSUME NEW q \in Requests, Work(q)
      PROVE  /\ Step(r) /\ Waiting(r) /\ pc[r] \in Steps
             /\ pc'[r] = "done" /\ status'[r] = "200"
  <2>1. pc[q] \in Steps /\ server[q] \in Processes /\ Step(q)
    BY <1>1, <1>5, ServerFacts DEF Work, Step
  <2>2. pc'[q] = "done" /\ Answer(q, status'[q])
    BY <1>2, <1>5, <2>1 DEF Work, service
  <2>3. q = r /\ reply[q] = "none" /\ status'[q] = "200"
    BY <1>1, <2>2 DEF Answer, PipelineOK
  <2> QED
    BY <1>1, <2>1, <2>2, <2>3, AtWork
<1>6. CASE \E p \in Processes : Fail(p) \/ Bootstrap(p) \/ Listen(p)
  BY <1>2, <1>6 DEF Fail, Bootstrap, Listen
<1> QED
  BY <1>3, <1>4, <1>5, <1>6 DEF ServingNext, Abandon, EditRuntime, AllAnswered, service

LEMMA RemoveMarks ==
  ASSUME TypeOK, NEW r \in Requests, Step(r), input[r].op = "remove", pc'[r] = "done",
         status'[r] = "200"
  PROVE  input[r].id \in MovieIds /\ movies'[input[r].id].state = "deleted"
<1>1. StorageTypeOK /\ HandlersOK
  BY TypeParts
<1>2. pc[r] \in Steps /\ pc[r] \in StepsOf("remove")
  <2>1. ~(Start(r) /\ pc[r] = "idle")
    BY <1>1, NoInputFacts DEF HandlersOK
  <2> QED
    BY <1>1, <2>1, WhoSteps, AtStep
<1>3. pc[r] = "soft"
  BY <1>2, Refused DEF StepsOf
<1>4. ~Failed(r)'
  BY DEF Failed
<1> QED
  BY <1>1, <1>3, <1>4, AtSoft DEF StorageTypeOK, Rows

\* A row that is deleted stays so, unless a PATCH writes it.
LEMMA StayDeleted ==
  ASSUME TypeOK, NamedRowsExist, CreateAnswersMatchRows, NEW r \in Requests, Step(r),
         NEW m \in MovieIds, Exists(m), ~Live(m), movies'[m].state = "live"
  PROVE  Updating(r, m) /\ pc[r] = "write" /\ ~(UNCHANGED storage)
<1>1. StorageTypeOK
  BY TypeParts
<1>2. movies'[m] # movies[m]
  BY DEF Live
<1>3. Edited(r, m)
  BY <1>2, RowsOfOthers
<1>4. CASE Updates(r)
  BY <1>2, <1>3, <1>4 DEF Updates, Updating, Edited, storage
<1>5. CASE Deletes(r)
  BY <1>1, <1>3, <1>5 DEF Deletes, MarkDeleted, Edited, StorageTypeOK, Rows
<1> QED
  BY <1>2, <1>3, <1>4, <1>5, TableSteps DEF Inserts, Edited, Edits, Creates

LEMMA RevivedNext ==
  /\ ServingInv /\ RepliesOK /\ OneWaiting /\ NamedRowsExist /\ CreateAnswersMatchRows
  /\ RevivedInv /\ [ServingNext]_<<vars, service>>
  => RevivedInv'
<1> SUFFICES ASSUME ServingInv, RepliesOK, OneWaiting, NamedRowsExist,
                    CreateAnswersMatchRows, RevivedInv, [ServingNext]_<<vars, service>>,
                    NEW r \in Requests, input'[r].op = "remove", reply'[r] = "200"
             PROVE  \/ \E q \in Requests : Updating(q, input[r].id)' /\ reply'[q] = "408"
                    \/ /\ movies'[input'[r].id].state # "live"
                       /\ \A q \in Requests :
                            Updating(q, input[r].id)' /\ pc'[q] \in Steps \ {"find"}
                              => reply'[q] = "lost"
  BY DEF RevivedInv, Revived, Live
<1> DEFINE m == input[r].id
<1>1. TypeOK /\ StorageTypeOK /\ HandlersOK
  BY TypeParts DEF ServingInv
<1>2. \A q \in Requests : reply[q] # "none" => reply'[q] = reply[q]
  BY ServedSteps
<1>3. CASE reply[r] # "200"
  <2>1. /\ Step(r) /\ Waiting(r) /\ pc[r] \in Steps
        /\ pc'[r] = "done" /\ status'[r] = "200"
    BY <1>3, RemoveAnswers
  <2>2. input'[r] = input[r] /\ input[r].op = "remove"
    <3>1. ~Start(r)
      BY <2>1, OwnCall, StepFacts
    <3> QED
      BY <1>1, <2>1, <3>1, InputsStay
  <2>3. movies'[m].state = "deleted"
    BY <1>1, <2>1, <2>2, RemoveMarks
  <2>4. ASSUME NEW q \in Requests, Updating(q, m)', pc'[q] \in Steps
        PROVE  reply'[q] \in {"408", "lost"}
    <3>1. q # r
      BY <2>2, <2>4 DEF Updating
    <3>2. pc[q] \in Steps
      BY <1>1, <2>1, <2>4, <3>1, HandlerSteps
    <3>3. reply[q] \in {"408", "lost"}
      BY <2>1, <3>1, <3>2, AtWork DEF OneWaiting, RepliesOK, ReplyOK, ServingInv
    <3> QED
      BY <1>2, <3>3
  <2> QED
    BY <2>2, <2>3, <2>4
<1>4. CASE reply[r] = "200"
  <2>1. \A x \in Requests : Step(x) /\ (Start(x) => Guarded(x)) => input'[r] = input[r]
    <3>1. \A x \in Requests : Guarded(x) => x # r
      BY <1>4 DEF Guarded, Waiting
    <3> QED
      BY <1>1, <3>1, InputsStay
  <2>2. input'[r] = input[r] /\ m \in MovieIds
    <3>1. input'[r] = input[r]
      BY <2>1, ServedSteps DEF vars
    <3>2. input[r] \in Inputs
      BY <1>1, <3>1, NoInputFacts DEF HandlersOK
    <3> QED
      BY <3>1, <3>2, InputFacts
  <2>3. ASSUME NEW q \in Requests, Updating(q, m), reply[q] = "408"
        PROVE  Updating(q, m)' /\ reply'[q] = "408"
    <3>1. pc[q] # "idle"
      BY <1>1, <2>3, NoInputFacts DEF HandlersOK, Updating
    <3>2. input'[q] = input[q]
      BY <1>1, <3>1, HandlerSteps, ServedSteps DEF vars
    <3> QED
      BY <1>2, <2>2, <2>3, <3>2 DEF Updating
  <2>4. CASE /\ ~Live(m)
             /\ \A q \in Requests :
                  Updating(q, m) /\ pc[q] \in Steps \ {"find"} => reply[q] = "lost"
    <3>1. CASE UNCHANGED vars
      BY <1>2, <2>2, <2>4, <3>1 DEF vars, storage, Live, Updating
    <3>2. ASSUME NEW x \in Requests, Step(x),
                 pc[x] \in Steps /\ reply[x] = "lost" => UNCHANGED storage
          PROVE  /\ movies'[m].state # "live"
                 /\ \A q \in Requests :
                      Updating(q, m)' /\ pc'[q] \in Steps \ {"find"} => reply'[q] = "lost"
      <4>1. movies'[m].state # "live"
        <5>1. Exists(m)
          BY <2>2 DEF NamedRowsExist
        <5>2. Updating(x, m) /\ pc[x] = "write" => UNCHANGED storage
          BY <2>4, <3>2 DEF Steps, DbSteps
        <5> QED
          BY <1>1, <2>2, <2>4, <3>2, <5>1, <5>2, StayDeleted
      <4>2. ASSUME NEW q \in Requests, Updating(q, m)', pc'[q] \in Steps \ {"find"}
            PROVE  reply'[q] = "lost"
        <5>1. CASE q # x
          <6>1. pc'[q] = pc[q] /\ input'[q] = input[q]
            BY <1>1, <3>2, <5>1, HandlerSteps
          <6> QED
            BY <1>2, <2>2, <2>4, <4>2, <6>1 DEF Updating
        <5>2. CASE q = x
          <6>1. ~Start(x)
            <7>1. Start(x) => pc'[x] \in {FirstStep(input'[x]), "done"}
              BY <1>1, <3>2, StartSteps
            <7>2. Start(x) => pc'[x] \in {"find", "done"}
              BY <4>2, <5>2, <7>1 DEF FirstStep, Updating
            <7> QED
              BY <4>2, <5>2, <7>2, StepFacts
          <6>2. input'[x] = input[x] /\ Updating(x, m) /\ input[x].op \in Edits
            BY <1>1, <2>2, <3>2, <4>2, <5>2, <6>1, InputsStay DEF Updating, Edits
          <6>3. pc[x] \in Steps /\ pc[x] # "find"
            <7>1. /\ pc[x] \in Steps
                  /\ \/ Reads(x) \/ RemovesFile(x) \/ StoresFile(x) \/ Compares(x)
                     \/ pc'[x] = "done"
              BY <1>1, <3>2, <6>2, EditSteps
            <7> QED
              BY <2>4, <4>2, <5>2, <6>2, <7>1, StepFacts
              DEF Reads, RemovesFile, StoresFile, Compares, Updating
          <6> QED
            BY <1>2, <2>4, <5>2, <6>2, <6>3
        <5> QED
          BY <5>1, <5>2
      <4> QED
        BY <4>1, <4>2
    <3> QED
      BY <2>2, <3>1, <3>2, ServedSteps
  <2> QED
    BY <1>4, <2>2, <2>3, <2>4 DEF RevivedInv, Revived
<1> QED
  BY <1>3, <1>4

\* For a client that sends one request at a time, a movie whose DELETE was answered
\* 200 comes back only through a PATCH of it that was answered 408, and was still
\* running: whatever fails, and however many such handlers go on.
THEOREM TimeoutsReviveMovies ==
  ASSUME Patient
  PROVE  ServingSpec => []RevivedOnlyAfterTrouble
<1>1. RevivedInv => RevivedOnlyAfterTrouble
  BY DEF RevivedInv, Revived, RevivedOnlyAfterTrouble, Updating
<1>2. ServingInit => RevivedInv
  BY DEF ServingInit, RevivedInv, Revived
<1> QED
  BY <1>1, <1>2, RevivedNext, OneRequestIsWaitedFor, ServiceRunsTheHandlers, NamedRowsHold,
     CreatesAnsweredTruly, PTL DEF ServingSpec, RunsTheHandlers

-----------------------------------------------------------------------------
(* The files, for the same client. Two requests about a movie are at work  *)
(* at a time only after one of them was in trouble: what is proved in      *)
(* SequentialProofs of one request at a time holds of the movies without   *)
(* trouble.                                                                *)

TroubleFree(m) == \A r \in Requests : input[r].id = m => ~Trouble(r)

\* The movie that a file is bound for
Home(k) == IF k \in Requests THEN Target(k) ELSE k

\* The file of a seed is bound for the movie it came with
SeedsOwn == \A k \in Seeds, m \in MovieIds : Bound(k, m) => m = k

\* What is needed later is not deleted before
ServedKept ==
  /\ \A r \in Requests : TroubleFree(input[r].id) => HandRow(r) /\ HandKept(r)
  /\ \A m \in MovieIds : TroubleFree(m) => Rest(m)

\* What is not needed any more is
Spared(k) == k \in Requests /\ (Trouble(k) \/ input[k].op = "uploadPoster")

ServedDropped ==
  /\ \A r \in Requests : TroubleFree(input[r].id) => HandFile(r)
  /\ \A k \in Keys : Stored(k) /\ TroubleFree(Home(k)) => Held(k) \/ Spared(k)

\* The file of an upload-poster that no request has attached: those that name it
\* were refused, or are at work
Unserved(k) ==
  \A q \in Requests : Names(q, k) => reply[q] \in {"400", "404", "409"} \/ pc[q] \in Steps

\* A request was in trouble about the movie of one that names the file, and that
\* one is not refused any more
Blames(r, q, k) ==
  /\ Trouble(r)
  /\ Names(q, k)
  /\ Settled(q) \/ Trouble(q)
  /\ MovieOf(r) = MovieOf(q)

Blamed(k) == \E r, q \in Requests : Blames(r, q, k)

ServedUploads ==
  \A k \in Requests :
    input[k].op = "uploadPoster" /\ Stored(k) =>
      Held(k) \/ Trouble(k) \/ Unserved(k) \/ Blamed(k)

LEMMA SeedFacts ==
  /\ "none" \notin MovieIds
  /\ \A k \in Seeds : k \in Keys /\ k \in MovieIds /\ k \notin Requests
<1>1. "none" \notin MovieIds
  BY NamesAssumption
<1>2. Requests \intersect Seeds = {}
  BY NamesAssumption
<1> QED
  BY <1>1, <1>2 DEF Keys, MovieIds

\* A movie without trouble had none before.
LEMMA TroubleStays ==
  ASSUME ServingInv, RepliesOK, [ServingNext]_<<vars, service>>, NEW m \in MovieIds,
         TroubleFree(m)'
  PROVE  /\ TroubleFree(m)
         /\ \A r \in Requests : Edited(r, m) => ~Failed(r)'
<1>1. HandlersOK
  BY TypeParts DEF ServingInv
<1>2. ASSUME NEW r \in Requests, input[r].id = m PROVE input'[r] = input[r]
  <2>1. NoInput.id = "none" /\ "none" \notin MovieIds
    BY SeedFacts DEF NoInput
  <2>2. pc[r] # "idle"
    BY <1>1, <1>2, <2>1 DEF HandlersOK
  <2> QED
    BY <2>2, HandlerSteps, ServedSteps DEF ServingInv, vars
<1>3. TroubleFree(m)
  BY <1>2, ServedSteps DEF TroubleFree, Trouble
<1>4. ASSUME NEW r \in Requests, Edited(r, m), Failed(r)' PROVE FALSE
  <2>1. RepliesOK' /\ ServingInv'
    BY RepliesNext, ServingInvNext
  <2>2. HandlersOK'
    BY <2>1, TypeParts DEF ServingInv, TypeOK, HandlersOK, Entities
  <2>3. reply'[r] \in {"500", "lost", "408"}
    BY <1>4, <2>1, <2>2 DEF Failed, RepliesOK, ReplyOK, HandlersOK
  <2> QED
    BY <1>2, <1>4, <2>3 DEF TroubleFree, Trouble, Edited
<1> QED
  BY <1>3, <1>4

\* On a movie without trouble there is one request at work.
LEMMA AloneWithMovie ==
  ASSUME ServingInv, RepliesOK, OneWaiting, NEW m \in MovieIds, TroubleFree(m),
         NEW q \in Requests, NEW r \in Requests, Edited(q, m), Edited(r, m)
  PROVE  q = r
<1>1. ASSUME NEW x \in Requests, Edited(x, m) PROVE Waiting(x)
  BY <1>1, AtWork DEF ServingInv, RepliesOK, ReplyOK, TroubleFree, Trouble, Edited
<1> QED
  BY <1>1 DEF OneWaiting

\* And there is none when the handler of one starts that is about it.
LEMMA StartsWithNobody ==
  ASSUME ServingInv, RepliesOK, OneWaiting, NEW m \in MovieIds, TroubleFree(m),
         NEW r \in Requests, Guarded(r), NEW q \in Requests
  PROVE  ~Edited(q, m)
<1> SUFFICES ASSUME Edited(q, m) PROVE FALSE
  OBVIOUS
<1>1. Waiting(q) /\ pc[q] \in Steps
  BY AtWork DEF ServingInv, RepliesOK, ReplyOK, TroubleFree, Trouble, Edited
<1> QED
  BY <1>1, StepFacts DEF OneWaiting, Guarded

\* It has no failure either: the answer to a request tells of it.
LEMMA NoTroubleNoFailure ==
  ASSUME ServingInv, RepliesOK, NEW m, TroubleFree(m)
  PROVE  Undisturbed(m)
BY DEF ServingInv, TypeOK, RepliesOK, ReplyOK, TroubleFree, Trouble, Undisturbed, Failed

LEMMA SeedsInit == Init => SeedsOwn
<1> SUFFICES ASSUME Init, NEW k \in Seeds, NEW m \in MovieIds, Bound(k, m) PROVE m = k
  BY DEF SeedsOwn
<1>1. k \in Keys
  BY DEF Keys
<1>2. \A r \in Requests : input[r] = NoInput /\ entity[r] = NoEntity
  BY DEF Init
<1>3. \A r \in Requests : ~Claims(r, k, m)
  BY <1>1, <1>2, NoInputFacts DEF Claims, Uploads
<1>4. movies[m].poster = k
  BY <1>3 DEF Bound
<1>5. m \in Seeds /\ SeedMovies[m].poster = k
  BY <1>1, <1>4, NoInputFacts DEF Init, StorageInit
<1> QED
  BY <1>1, <1>5, SeedAssumption

LEMMA SeedsNext == Basis /\ AttachOnce /\ SeedsOwn /\ [Next]_vars => SeedsOwn'
<1> SUFFICES ASSUME Basis, AttachOnce, SeedsOwn, [Next]_vars,
                    NEW k \in Seeds, NEW m \in MovieIds, Bound(k, m)'
             PROVE  m = k
  BY DEF SeedsOwn
<1>1. k \in Keys /\ k \notin Requests
  BY SeedFacts
<1>2. CASE UNCHANGED vars
  <2>1. Bound(k, m)
    BY <1>2 DEF Bound, Claims, Target, NoEffect, vars, storage
  <2> QED
    BY <2>1 DEF SeedsOwn
<1>3. ASSUME NEW r \in Requests, Step(r) PROVE m = k
  <2>1. Bound(k, m)
    BY <1>1, <1>3, HandleBindsNothing, StartBindsOnce, BasisParts DEF Basis
  <2> QED
    BY <2>1 DEF SeedsOwn
<1> QED
  BY <1>2, <1>3 DEF Next, AllDone

\* Where a stored file is bound for: its Home, and nowhere else.
LEMMA StoredAtHome ==
  ASSUME Basis, HandsInv, SeedsOwn, NEW k \in Keys, Stored(k), ~Spared(k)
  PROVE  /\ Home(k) \in MovieIds
         /\ \A m \in MovieIds : Bound(k, m) => m = Home(k)
         /\ k \in Requests => pc[k] # "idle"
<1>1. CASE k \in Seeds
  BY <1>1, SeedFacts DEF SeedsOwn, Home
<1>2. CASE k \in Requests
  <2>1. input[k].op \in Uploads /\ pc[k] # "idle"
    BY <1>2 DEF HandsInv, Fresh, Stored, Spared
  <2>2. Target(k) \in MovieIds
    <3>1. input[k] \in Inputs
      BY <1>2, <2>1, BasisParts DEF HandlersOK
    <3> QED
      BY <1>2, <3>1, InputFacts DEF Target, MovieIds
  <2>3. Bound(k, Target(k))
    BY <1>2, <2>1 DEF Bound, Claims
  <2> QED
    BY <1>2, <2>1, <2>2, <2>3, BasisParts DEF BoundOnce, Home
<1> QED
  BY <1>1, <1>2 DEF Keys

LEMMA ServedInit == Init => ServedKept /\ ServedDropped /\ ServedUploads
<1>1. Init => \A r \in Requests : pc[r] = "idle" /\ input[r].op = "none"
  BY NoInputFacts DEF Init
<1>2. Init => \A r \in Requests : HandRow(r) /\ HandKept(r) /\ HandFile(r)
  BY <1>1 DEF HandRow, HandKept, HandFile, Edits
<1>3. Init => \A m \in MovieIds : Rest(m)
  BY FilesInit DEF Init, KeptInv, Undisturbed, Failed
<1>4. Init => \A k \in Keys : Stored(k) => Held(k)
  BY FilesInit, <1>1 DEF Init, DroppedInv, Failed, Unattached
<1> QED
  BY <1>1, <1>2, <1>3, <1>4 DEF ServedKept, ServedDropped, ServedUploads

LEMMA ServedKeptNext ==
  ASSUME AttachOnce
  PROVE  /\ ServingInv /\ RepliesOK /\ OneWaiting /\ Basis /\ HandsInv
         /\ ServedKept /\ [ServingNext]_<<vars, service>>
         => ServedKept'
<1> SUFFICES ASSUME ServingInv, RepliesOK, OneWaiting, Basis, HandsInv, ServedKept,
                    [ServingNext]_<<vars, service>>
             PROVE  ServedKept'
  OBVIOUS
<1>1. ASSUME NEW m \in MovieIds, TroubleFree(m)'
      PROVE  TroubleFree(m) /\ \A r \in Requests : Edited(r, m) => ~Failed(r)'
  BY <1>1, TroubleStays
<1>2. CASE UNCHANGED vars
  <2>1. \A m \in MovieIds : Rest(m) => Rest(m)'
    BY <1>2 DEF vars, storage, Rest, Edited, Live, Stored
  <2>2. ASSUME NEW r \in Requests, TroubleFree(input[r].id)' PROVE HandRow(r)' /\ HandKept(r)'
    <3>1. CASE input[r].op \in Edits
      <4>1. input[r].id \in MovieIds /\ input'[r] = input[r]
        BY <1>2, <3>1, NoInputFacts, InputFacts, BasisParts DEF HandlersOK, Edits, vars
      <4>2. HandRow(r) /\ HandKept(r)
        BY <1>1, <2>2, <4>1 DEF ServedKept, TroubleFree
      <4> QED
        BY <1>2, <4>2
        DEF vars, storage, HandRow, HandKept, Live, Stored, NewTitle, NewPosterOf,
            ReplacesPoster, ChangedColumns
    <3>2. CASE input[r].op \notin Edits
      BY <1>2, <3>2 DEF vars, HandRow, HandKept
    <3> QED
      BY <3>1, <3>2
  <2> QED
    BY <1>1, <2>1, <2>2 DEF ServedKept
<1>3. ASSUME NEW r \in Requests, Step(r), Start(r) => Guarded(r)
      PROVE  ServedKept'
  <2>1. ASSUME NEW m \in MovieIds, TroubleFree(m)'
        PROVE  Rest(m)'
    <3>1. TroubleFree(m) /\ (Edited(r, m) => ~Failed(r)')
      BY <1>1, <2>1
    <3>2. Edited(r, m) => HandRow(r) /\ HandKept(r)
      BY <3>1 DEF Edited, ServedKept
    <3> QED
      BY <1>3, <3>1, <3>2, StayAtRest DEF HandsInv, ServedKept
  <2>2. ASSUME NEW q \in Requests, TroubleFree(input[q].id)'
        PROVE  HandRow(q)' /\ HandKept(q)'
    <3>1. CASE input'[q].op \notin Edits
      BY <3>1 DEF HandRow, HandKept
    <3>2. CASE q = r /\ Start(r) /\ input'[q].op \in Edits
      <4> DEFINE m == input'[r].id
      <4>1. m \in MovieIds
        BY <1>3, <3>2, StartSteps, InputFacts, BasisParts DEF Edits
      <4>2. \A n \in MovieIds : TroubleFree(n)' => TroubleFree(n)
        BY <1>1
      <4>3. TroubleFree(m)
        BY <2>2, <3>2, <4>1, <4>2 DEF TroubleFree
      <4>4. Rest(m)
        BY <4>1, <4>3 DEF ServedKept
      <4>5. \A n \in MovieIds : TroubleFree(n) => \A p \in Requests : ~Edited(p, n)
        BY <1>3, <3>2, StartsWithNobody
      <4>6. \A p \in Requests : ~Edited(p, m)
        BY <4>1, <4>3, <4>5
      <4>7. HandKept(r)'
        BY <1>3, <3>2, <4>3, <4>4, <4>6, NoTroubleNoFailure, StartKept DEF HandsInv
      <4>8. input[r].op = "none"
        BY <3>2, NoInputFacts, BasisParts DEF Start, HandlersOK
      <4>9. HandRow(r)'
        BY <1>3, <4>8, OwnRow, BasisParts DEF HandRow, Edits
      <4> QED
        BY <3>2, <4>7, <4>9
    <3>3. CASE (q # r \/ ~Start(r)) /\ input'[q].op \in Edits
      <4>1. input'[q] = input[q]
        BY <1>3, <3>3, InputsStay, BasisParts
      <4>2. input[q].id \in MovieIds
        BY <3>3, <4>1, NoInputFacts, InputFacts, BasisParts DEF HandlersOK, Edits
      <4>3. \A n \in MovieIds : TroubleFree(n)' => TroubleFree(n)
        BY <1>1
      <4>4. TroubleFree(input[q].id)
        BY <2>2, <4>1, <4>2, <4>3 DEF TroubleFree
      <4>5. HandRow(q) /\ HandKept(q)
        BY <4>4 DEF ServedKept
      <4>6. CASE q # r
        <5>1. pc[q] \in Steps => ~Edited(r, input[q].id)
          BY <3>3, <4>1, <4>2, <4>4, <4>6, AloneWithMovie DEF Edited
        <5> QED
          BY <1>3, <4>5, <4>6, <5>1, OthersHand DEF HandsInv
      <4>7. CASE q = r /\ ~Start(r)
        BY <1>3, <4>5, <4>7, OwnKept, OwnRow, BasisParts
      <4> QED
        BY <3>3, <4>6, <4>7
    <3> QED
      BY <3>1, <3>2, <3>3
  <2> QED
    BY <2>1, <2>2 DEF ServedKept
<1> QED
  BY <1>2, <1>3, ServedSteps

LEMMA FailedInTrouble ==
  ASSUME ServingInv, RepliesOK, [ServingNext]_<<vars, service>>, NEW r \in Requests,
         Failed(r)'
  PROVE  Trouble(r)'
<1>1. RepliesOK' /\ ServingInv'
  BY RepliesNext, ServingInvNext
<1>2. HandlersOK'
  BY <1>1, TypeParts DEF ServingInv, TypeOK, HandlersOK, Entities
<1> QED
  BY <1>1, <1>2 DEF Failed, Trouble, RepliesOK, ReplyOK, HandlersOK

LEMMA ServedDroppedNext ==
  ASSUME AttachOnce, "s3" \notin Faults
  PROVE  /\ ServingInv /\ RepliesOK /\ OneWaiting /\ Basis /\ HandsInv /\ SeedsOwn
         /\ ServedKept /\ ServedDropped /\ [ServingNext]_<<vars, service>>
         => ServedDropped'
<1> SUFFICES ASSUME ServingInv, RepliesOK, OneWaiting, Basis, HandsInv, SeedsOwn,
                    ServedKept, ServedDropped, [ServingNext]_<<vars, service>>
             PROVE  ServedDropped'
  OBVIOUS
<1>1. \A m \in MovieIds : TroubleFree(m)' => TroubleFree(m)
  BY TroubleStays
<1>2. \A r \in Requests : Trouble(r) => Trouble(r)'
  BY ServedSteps DEF Trouble
<1>3. ASSUME NEW k \in Keys, Stored(k), bucket'[k] = "stored", TroubleFree(Home(k))',
             ~Spared(k)'
      PROVE  ~Spared(k) /\ TroubleFree(Home(k))
  <2>1. \A q \in Requests : pc[q] # "idle" => input'[q] = input[q]
    BY HandlerSteps, ServedSteps, BasisParts DEF vars
  <2>2. k \in Requests /\ input[k].op = "uploadPoster" => pc[k] # "idle"
    BY NoInputFacts, BasisParts DEF HandlersOK
  <2>3. ~Spared(k)
    BY <1>2, <1>3, <2>1, <2>2 DEF Spared
  <2>4. Home(k) \in MovieIds /\ (k \in Requests => pc[k] # "idle")
    BY <1>3, <2>3, StoredAtHome
  <2>5. Home(k)' = Home(k)
    BY <2>1, <2>4 DEF Home, Target
  <2>6. TroubleFree(Home(k))
    BY <1>1, <1>3, <2>4, <2>5 DEF TroubleFree
  <2> QED
    BY <2>3, <2>6
<1>4. CASE UNCHANGED vars
  <2>1. ASSUME NEW r \in Requests, TroubleFree(input[r].id)' PROVE HandFile(r)'
    <3>1. CASE input[r].op \in Edits
      <4>1. input[r].id \in MovieIds /\ input'[r] = input[r]
        BY <1>4, <3>1, NoInputFacts, InputFacts, BasisParts DEF HandlersOK, Edits, vars
      <4>2. HandFile(r)
        BY <1>1, <2>1, <4>1 DEF ServedDropped, TroubleFree
      <4> QED
        BY <1>4, <4>2 DEF vars, storage, HandFile, Stored
    <3>2. CASE input[r].op \notin Edits
      BY <1>4, <3>2 DEF vars, HandFile
    <3> QED
      BY <3>1, <3>2
  <2>2. ASSUME NEW k \in Keys, Stored(k)', TroubleFree(Home(k))', ~Spared(k)'
        PROVE  Held(k)'
    <3>1. Stored(k) /\ bucket'[k] = "stored"
      BY <1>4, <2>2 DEF Stored, vars, storage
    <3>2. Held(k)
      BY <1>3, <2>2, <3>1 DEF ServedDropped
    <3> QED
      BY <1>4, <3>2 DEF Held, Live, vars, storage
  <2> QED
    BY <2>1, <2>2 DEF ServedDropped
<1>5. ASSUME NEW r \in Requests, Step(r)
      PROVE  ServedDropped'
  <2>1. ASSUME NEW q \in Requests, TroubleFree(input[q].id)'
        PROVE  HandFile(q)'
    <3>1. CASE input'[q].op \notin Edits
      BY <3>1 DEF HandFile
    <3>2. CASE q = r /\ Start(r)
      <4>1. input[r].op = "none"
        BY <3>2, NoInputFacts, BasisParts DEF Start, HandlersOK
      <4>2. HandRow(r) /\ HandFile(r)
        BY <4>1 DEF HandRow, HandFile, Edits
      <4> QED
        BY <1>5, <3>2, <4>2, OwnFile DEF HandsInv
    <3>3. CASE (q # r \/ ~Start(r)) /\ input'[q].op \in Edits
      <4>1. input'[q] = input[q]
        BY <1>5, <3>3, InputsStay, BasisParts
      <4>2. input[q].id \in MovieIds
        BY <3>3, <4>1, NoInputFacts, InputFacts, BasisParts DEF HandlersOK, Edits
      <4>3. TroubleFree(input[q].id)
        BY <1>1, <2>1, <4>1, <4>2 DEF TroubleFree
      <4>4. HandRow(q) /\ HandFile(q)
        BY <4>3 DEF ServedKept, ServedDropped
      <4>5. CASE q # r
        <5>1. pc[q] \in Steps => ~Edited(r, input[q].id)
          BY <3>3, <4>1, <4>2, <4>3, <4>5, AloneWithMovie DEF Edited
        <5> QED
          BY <1>5, <4>4, <4>5, <5>1, OthersHand DEF HandsInv
      <4>6. CASE q = r
        BY <1>5, <4>4, <4>6, OwnFile DEF HandsInv
      <4> QED
        BY <4>5, <4>6
    <3> QED
      BY <3>1, <3>2, <3>3
  <2>2. ASSUME NEW k \in Keys, bucket'[k] = "stored", TroubleFree(Home(k))', ~Spared(k)'
        PROVE  Held(k)'
    <3>1. Failed(r)' => k # r
      BY <2>2, FailedInTrouble DEF Spared
    <3>2. CASE ~Stored(k)
      BY <1>5, <2>2, <3>1, <3>2, NewlyStored DEF Spared
    <3>3. CASE Stored(k)
      <4>1. ~Spared(k) /\ TroubleFree(Home(k))
        BY <1>3, <2>2, <3>3
      <4>2. Held(k)
        BY <3>3, <4>1 DEF ServedDropped
      <4>3. ASSUME NEW m \in MovieIds, Edited(r, m), Bound(k, m)
            PROVE  HandRow(r) /\ HandFile(r)
        <5>1. m = Home(k)
          BY <3>3, <4>1, <4>3, StoredAtHome
        <5> QED
          BY <4>1, <4>3, <5>1 DEF Edited, ServedKept, ServedDropped
      <4> QED
        BY <1>5, <3>1, <3>3, <4>2, <4>3, StayHeld
    <3> QED
      BY <3>2, <3>3
  <2> QED
    BY <2>1, <2>2 DEF ServedDropped, Stored
<1> QED
  BY <1>4, <1>5, ServedSteps

-----------------------------------------------------------------------------
(* The files of upload-poster.                                             *)

\* The request that names a key is a create or a PATCH, and is about a movie.
LEMMA NamerFacts ==
  ASSUME TypeOK, NEW q \in Requests, NEW k \in Keys, Names(q, k)
  PROVE  /\ pc[q] # "idle" /\ input[q].op \in {"create", "update"}
         /\ MovieOf(q) \in MovieIds /\ Target(q) = MovieOf(q)
         /\ input[q].op = "update" => MovieOf(q) = input[q].id
<1>1. HandlersOK
  BY TypeParts
<1>2. input[q] \in Inputs /\ pc[q] # "idle"
  BY <1>1, NoInputFacts DEF HandlersOK, Names
<1>3. input[q].op \in {"create", "update"}
  BY <1>2, UrlFacts DEF Names
<1>4. input[q].op = "update" => input[q].id \in MovieIds
  BY <1>2, InputFacts
<1> QED
  BY <1>2, <1>3, <1>4 DEF MovieOf, Target, Creates, MovieIds

\* A request that is about a movie by its path.
LEMMA PathFacts ==
  ASSUME TypeOK, NEW r \in Requests, input[r].id \in MovieIds
  PROVE  pc[r] # "idle" /\ MovieOf(r) = input[r].id
<1>1. HandlersOK
  BY TypeParts
<1>2. input[r] \in Inputs /\ pc[r] # "idle"
  BY <1>1, SeedFacts DEF HandlersOK, NoInput
<1>3. input[r].op \notin Creates
  BY <1>2, SeedFacts, InputsAssumption DEF InputRecords, Creates
<1> QED
  BY <1>2, <1>3 DEF MovieOf

\* What is said of a request in trouble, and of one that names a file, stays so.
LEMMA BlamedStays ==
  ASSUME ServingInv, RepliesOK, Basis, [ServingNext]_<<vars, service>>,
         NEW k \in Keys, Blamed(k)
  PROVE  Blamed(k)'
<1>1. PICK r, q \in Requests : Blames(r, q, k)
  BY DEF Blamed
<1>2. pc[q] # "idle" /\ MovieOf(q) \in MovieIds
  BY <1>1, NamerFacts, BasisParts DEF Blames
<1>3. pc[r] # "idle"
  <2>1. input[r] = NoInput => MovieOf(r) = "none"
    BY DEF MovieOf, NoInput, Creates
  <2> QED
    BY <1>1, <1>2, <2>1, SeedFacts, BasisParts DEF Blames, HandlersOK
<1>4. \A x \in Requests : pc[x] # "idle" => input'[x] = input[x]
  BY HandlerSteps, ServedSteps, BasisParts DEF vars
<1>5. \A x \in Requests : Trouble(x) => Trouble(x)'
  BY ServedSteps DEF Trouble
<1>6. Settled(q) => Settled(q)'
  <2>1. CASE UNCHANGED vars
    BY <2>1 DEF vars, storage, Settled, NoEffect
  <2> QED
    BY <2>1, SettledStays, ServedSteps, BasisParts
<1>7. MovieOf(r)' = MovieOf(r) /\ MovieOf(q)' = MovieOf(q) /\ Names(q, k)'
  BY <1>1, <1>2, <1>3, <1>4 DEF MovieOf, Names, Blames
<1>8. Blames(r, q, k)'
  BY <1>1, <1>5, <1>6, <1>7 DEF Blames
<1> QED
  BY <1>8 DEF Blamed

\* Where a row has the file, and a step of a request about the row takes it away,
\* a request about the row was in trouble.
LEMMA HeldOrBlamed ==
  ASSUME ServingInv, RepliesOK, Basis, ServedKept, ServedDropped,
         NEW r \in Requests, Step(r), [ServingNext]_<<vars, service>>,
         NEW k \in Requests, input[k].op = "uploadPoster", Stored(k), Held(k)
  PROVE  Held(k)' \/ Trouble(k)' \/ Blamed(k)
<1> SUFFICES ASSUME ~Held(k)', ~Trouble(k)' PROVE Blamed(k)
  OBVIOUS
<1>1. k \in Keys /\ HandlersOK
  BY BasisParts DEF Keys
<1>2. PICK n \in MovieIds : Edited(r, n) /\ Bound(k, n) /\ ~(HandRow(r) /\ HandFile(r))
  <2>1. k = r => ~Failed(r)'
    BY FailedInTrouble
  <2> QED
    BY <1>1, <2>1, StayHeld
<1>3. PICK m \in MovieIds : movies[m].poster = k
  <2>1. pc[k] \notin {"load", "write", "insert"}
    BY <1>1, AtStep, StepsFacts, BasisParts DEF StepsOf, Steps, DbSteps
  <2> QED
    BY <2>1 DEF Held
<1>4. PICK q \in Requests : Names(q, k) /\ Settled(q)
  BY <1>3, BasisParts DEF UploadsAreNamed, Attached
<1>5. MovieOf(q) = n
  <2>1. Target(q) = MovieOf(q) /\ MovieOf(q) \in MovieIds
    BY <1>1, <1>4, NamerFacts, BasisParts
  <2>2. ~NoEffect(q)
    BY <1>1, <1>4 DEF Settled, NoEffect, HandlersOK
  <2>3. Bound(k, MovieOf(q))
    BY <1>4, <2>1, <2>2 DEF Bound, Claims, Names
  <2> QED
    BY <1>1, <1>2, <2>1, <2>3, BasisParts DEF BoundOnce
<1>6. PICK x \in Requests : input[x].id = n /\ Trouble(x)
  BY <1>2 DEF Edited, ServedKept, ServedDropped, TroubleFree
<1>7. MovieOf(x) = n
  BY <1>6, PathFacts, BasisParts
<1> QED
  BY <1>4, <1>5, <1>6, <1>7 DEF Blamed, Blames

\* A request that names a file of nobody is refused, attaches it, or is in trouble
\* or beside one that is.
LEMMA UnservedOr ==
  ASSUME ServingInv, RepliesOK, Basis, HandsInv, ServedKept,
         [ServingNext]_<<vars, service>>, NEW r \in Requests, Step(r),
         NEW k \in Keys, Unserved(k)
  PROVE  Held(k)' \/ Unserved(k)' \/ Blamed(k)'
<1> SUFFICES ASSUME ~Blamed(k)', ~Held(k)',
                    NEW q \in Requests, Names(q, k)'
             PROVE  reply'[q] \in {"400", "404", "409"} \/ pc'[q] \in Steps
  BY DEF Unserved
<1>1. RepliesOK' /\ ServingInv'
  BY RepliesNext, ServingInvNext
<1>2. TypeOK' /\ HandlersOK'
  BY <1>1, TypeParts DEF ServingInv, TypeOK, HandlersOK, Entities
<1>3. \A x \in Requests : reply[x] # "none" => reply'[x] = reply[x]
  BY ServedSteps
<1>4. CASE q # r
  BY <1>3, <1>4, HandlerSteps, BasisParts DEF Names, Unserved
<1>5. CASE q = r
  <2>1. ~Trouble(r)'
    BY <1>5 DEF Blamed, Blames
  <2>2. pc'[r] # "idle"
    <3>1. input'[r].url \in Keys
      BY <1>5 DEF Names
    <3> QED
      BY <1>2, <3>1, NoInputFacts DEF HandlersOK
  <2> SUFFICES ASSUME pc'[r] = "done" PROVE reply'[r] \in {"400", "404", "409"}
    BY <1>2, <1>5, <2>2 DEF HandlersOK
  <2>3. reply'[r] = status'[r] /\ status'[r] \in Codes
    BY <1>1, <1>2, <2>1 DEF RepliesOK, ReplyOK, Trouble, HandlersOK
  <2>4. status'[r] \notin {"200", "201"}
    <3> SUFFICES ASSUME status'[r] \in {"200", "201"} PROVE FALSE
      OBVIOUS
    <3>1. ~Start(r)
      BY StartSteps, BasisParts
    <3>2. Names(r, k) /\ input'[r] = input[r]
      BY <1>5, <3>1, InputsStay, BasisParts DEF Names
    <3>3. ~HandRow(r)
      BY <3>1, <3>2, AttachedIsHeld DEF HandsInv
    <3>4. PICK x \in Requests : input[x].id = input[r].id /\ Trouble(x)
      BY <3>3 DEF ServedKept, TroubleFree
    <3>5. input[r].op = "update" /\ input[r].id \in MovieIds /\ MovieOf(r) = input[r].id
      BY <3>2, <3>3, NamerFacts, BasisParts DEF HandRow, Edits
    <3>6. pc[x] # "idle" /\ MovieOf(x) = MovieOf(r)
      BY <3>4, <3>5, PathFacts, BasisParts
    <3>7. input'[x] = input[x] /\ Trouble(x)'
      BY <1>3, <3>4, <3>6, HandlerSteps, BasisParts DEF Trouble
    <3>8. MovieOf(x)' = MovieOf(r)'
      BY <3>2, <3>6, <3>7 DEF MovieOf
    <3>9. Settled(r)'
      BY <3>2, <3>5 DEF Settled, NoEffect
    <3> QED
      BY <1>5, <3>7, <3>8, <3>9 DEF Blamed, Blames
  <2> QED
    BY <2>1, <2>3, <2>4 DEF Codes, Trouble
<1> QED
  BY <1>4, <1>5

LEMMA ServedUploadsNext ==
  /\ ServingInv /\ RepliesOK /\ Basis /\ HandsInv /\ ServedKept /\ ServedDropped
  /\ ServedUploads /\ [ServingNext]_<<vars, service>>
  => ServedUploads'
<1> SUFFICES ASSUME ServingInv, RepliesOK, Basis, HandsInv, ServedKept, ServedDropped,
                    ServedUploads, [ServingNext]_<<vars, service>>,
                    NEW k \in Requests, input'[k].op = "uploadPoster",
                    bucket'[k] = "stored"
             PROVE  Held(k)' \/ Trouble(k)' \/ Unserved(k)' \/ Blamed(k)'
  BY DEF ServedUploads, Stored
<1>1. k \in Keys
  BY DEF Keys
<1>2. Blamed(k) => Blamed(k)'
  BY <1>1, BlamedStays
<1>3. Trouble(k) => Trouble(k)'
  BY ServedSteps DEF Trouble
<1>4. CASE UNCHANGED vars
  <2>1. Held(k) => Held(k)'
    BY <1>4 DEF Held, Live, vars, storage
  <2>2. Unserved(k) => Unserved(k)'
    BY <1>4, ServedSteps DEF Unserved, Names, vars
  <2> QED
    BY <1>2, <1>3, <1>4, <2>1, <2>2 DEF ServedUploads, Stored, vars, storage
<1>5. ASSUME NEW r \in Requests, Step(r)
      PROVE  Held(k)' \/ Trouble(k)' \/ Unserved(k)' \/ Blamed(k)'
  <2>1. CASE ~Stored(k)
    <3>1. k = r /\ pc[r] = "put"
      BY <1>1, <1>5, <2>1, NewlyStored
    <3> QED
      BY <1>5, <3>1, UploadUnnamed DEF HandsInv, Unserved, Names
  <2>2. CASE Stored(k)
    <3>1. input[k].op = "uploadPoster"
      <4>1. pc[k] # "idle"
        BY <2>2 DEF HandsInv, Fresh, Stored
      <4> QED
        BY <1>5, <4>1, HandlerSteps, BasisParts
    <3>2. CASE Held(k)
      BY <1>2, <1>5, <2>2, <3>1, <3>2, HeldOrBlamed
    <3>3. CASE Unserved(k)
      BY <1>1, <1>5, <3>3, UnservedOr
    <3> QED
      BY <1>2, <1>3, <2>2, <3>1, <3>2, <3>3 DEF ServedUploads
  <2> QED
    BY <2>1, <2>2
<1> QED
  BY <1>4, <1>5, ServedSteps

\* For a client that sends one request at a time, the live movie whose file is gone
\* is one with a request that was answered 408 or 500, or not at all: whatever
\* fails, and however the handlers of answered requests go on.
THEOREM FilesAreLostByTrouble ==
  ASSUME Patient, AttachOnce
  PROVE  ServingSpec => []DanglingOnlyAfterTrouble
<1>1. /\ ServingInv /\ RepliesOK /\ OneWaiting /\ Basis /\ HandsInv
      /\ ServedKept /\ [ServingNext]_<<vars, service>>
      => ServedKept'
  BY ServedKeptNext
<1>2. ServedKept => DanglingOnlyAfterTrouble
  BY DEF ServedKept, DanglingOnlyAfterTrouble, TroubleFree, Rest, Edited, InFlight, Stored
<1>3. ServingInit => ServedKept
  BY ServedInit DEF ServingInit
<1>4. Spec => [](Basis /\ HandsInv)
  BY FilesWaitForTheirMovie
<1>5. ServingSpec => [](ServingInv /\ RepliesOK /\ OneWaiting)
  BY OneRequestIsWaitedFor
<1> QED
  BY <1>1, <1>2, <1>3, <1>4, <1>5, ServiceRunsTheHandlers, PTL
  DEF ServingSpec, RunsTheHandlers

\* Where the requests have ended, a stored file that no row refers to is blamed on
\* the request in trouble that the property names.
LEMMA LeftByTrouble ==
  ASSUME ServingInv, RepliesOK, Basis, HandsInv, SeedsOwn, ServedDropped, ServedUploads,
         InFlight = {}
  PROVE  OrphanOnlyAfterTrouble
<1> SUFFICES ASSUME NEW k \in Keys, bucket[k] = "stored",
                    ~\E m \in MovieIds : Live(m) /\ movies[m].poster = k,
                    ~(k \in Requests /\ Trouble(k)),
                    ~(/\ k \in Requests /\ input[k].op = "uploadPoster"
                      /\ \A r \in Requests : ~Attaches(r, k))
             PROVE  \E r \in Requests : Trouble(r) /\ MovieOf(r) \in MoviesWith(k)
  BY DEF OrphanOnlyAfterTrouble
<1>1. HandlersOK /\ \A r \in Requests : pc[r] \notin Steps
  BY BasisParts DEF InFlight
<1>2. Stored(k) /\ ~Held(k)
  BY <1>1 DEF Stored, Held, Steps, DbSteps
<1>3. CASE k \in Requests /\ input[k].op = "uploadPoster"
  <2>1. PICK r, q \in Requests : Blames(r, q, k)
    <3>1. Unserved(k) => \A x \in Requests : ~Attaches(x, k)
      BY <1>1 DEF Unserved, Attaches, Names
    <3> QED
      BY <1>2, <1>3, <3>1 DEF ServedUploads, Blamed
  <2>2. reply[q] \notin {"400", "404", "409"}
    <3>1. CASE Trouble(q)
      BY <3>1 DEF Trouble
    <3>2. CASE Settled(q)
      <4>1. pc[q] = "done" /\ status[q] \notin {"400", "404", "409"}
        BY <1>1, <3>2 DEF Settled, NoEffect, HandlersOK, Steps, DbSteps
      <4> QED
        BY <4>1 DEF RepliesOK, ReplyOK
    <3> QED
      BY <2>1, <3>1, <3>2 DEF Blames
  <2>3. MovieOf(q) \in MovieIds /\ Attaches(q, k)
    BY <2>1, <2>2, NamerFacts, BasisParts DEF Blames, Attaches, Names
  <2> QED
    BY <2>1, <2>3 DEF Blames, MoviesWith
<1>4. CASE ~(k \in Requests /\ input[k].op = "uploadPoster")
  <2>1. ~Spared(k)
    BY <1>4 DEF Spared
  <2>2. Home(k) \in MovieIds
    BY <1>2, <2>1, StoredAtHome
  <2>3. PICK r \in Requests : input[r].id = Home(k) /\ Trouble(r)
    BY <1>2, <2>1 DEF ServedDropped, TroubleFree
  <2>4. MovieOf(r) = Home(k)
    BY <2>2, <2>3, PathFacts, BasisParts
  <2>5. Home(k) \in MoviesWith(k)
    <3>1. CASE k \notin Requests
      BY <2>2, <3>1 DEF Home, MoviesWith
    <3>2. CASE k \in Requests
      <4>1. input[k].op \in Uploads
        BY <1>2, <1>4, <3>2 DEF HandsInv, Fresh, Stored
      <4>2. Home(k) = MovieOf(k)
        BY <3>2, <4>1 DEF Home, Target, MovieOf, Uploads, Creates
      <4> QED
        BY <2>2, <3>2, <4>2 DEF MoviesWith
    <3> QED
      BY <3>1, <3>2
  <2> QED
    BY <2>3, <2>4, <2>5
<1> QED
  BY <1>3, <1>4

\* For the same client, where S3 does what it is asked, a stored file that no live
\* movie refers to was uploaded and never attached; or the request that uploaded it
\* was in trouble, or a request about a movie that it was uploaded for or that a
\* request attached it to.
THEOREM FilesAreLeftByTrouble ==
  ASSUME Patient, AttachOnce, "s3" \notin Faults
  PROVE  ServingSpec => []OrphanOnlyAfterTrouble
<1>1. /\ ServingInv /\ RepliesOK /\ OneWaiting /\ Basis /\ HandsInv
      /\ ServedKept /\ [ServingNext]_<<vars, service>>
      => ServedKept'
  BY ServedKeptNext
<1>2. /\ ServingInv /\ RepliesOK /\ OneWaiting /\ Basis /\ HandsInv /\ SeedsOwn
      /\ ServedKept /\ ServedDropped /\ [ServingNext]_<<vars, service>>
      => ServedDropped'
  BY ServedDroppedNext
<1>3. Basis /\ SeedsOwn /\ [Next]_vars => SeedsOwn'
  BY SeedsNext
<1>4. /\ ServingInv /\ RepliesOK /\ Basis /\ HandsInv /\ SeedsOwn
      /\ ServedDropped /\ ServedUploads
      => OrphanOnlyAfterTrouble
  BY LeftByTrouble DEF OrphanOnlyAfterTrouble
<1>5. ServingInit => Init /\ ServedKept /\ ServedDropped /\ ServedUploads /\ SeedsOwn
  BY ServedInit, SeedsInit DEF ServingInit
<1>6. Spec => [](Basis /\ HandsInv)
  BY FilesWaitForTheirMovie
<1>7. Spec => []SeedsOwn
  BY <1>3, <1>6, SeedsInit, PTL DEF Spec
<1>8. /\ ServingInv /\ RepliesOK /\ Basis /\ HandsInv /\ ServedKept /\ ServedDropped
      /\ ServedUploads /\ [ServingNext]_<<vars, service>>
      => ServedUploads'
  BY ServedUploadsNext
<1>9. ServingSpec => [](ServingInv /\ RepliesOK /\ OneWaiting)
  BY OneRequestIsWaitedFor
<1> QED
  BY <1>1, <1>2, <1>4, <1>5, <1>6, <1>7, <1>8, <1>9, ServiceRunsTheHandlers, PTL
  DEF ServingSpec, RunsTheHandlers
=============================================================================
