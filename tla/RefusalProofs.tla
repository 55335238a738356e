---------------------------- MODULE RefusalProofs ----------------------------
(***************************************************************************)
(* Proofs about Sessions: what is refused, what is let through, and for    *)
(* how long. A refusal is only true of the present if the reason for it    *)
(* cannot go away: tokens stay revoked, dates pass, nobody comes back.     *)
(***************************************************************************)
EXTENDS SessionsProofs

\* The reason of a refusal outlives every step: time goes forward, and a stored
\* token, its owner and its access token stay as they are but for "revoked"
Lasting ==
  /\ now' >= now
  /\ deployment' = deployment
  /\ \A k \in Users : Stored(k) =>
       /\ tokens'[k].owner = tokens[k].owner
       /\ tokens'[k].expires = tokens[k].expires
       /\ access'[k] = access[k]
       /\ tokens[k].state = "revoked" => tokens'[k].state = "revoked"
  /\ \A u \in Users : Registered(u) => Registered(u)' /\ (~Live(u) => ~Live(u)')

\* A refresh token is stored for a user who is in the table, removed or not
OwnersOK == \A k \in Users : Stored(k) => Registered(tokens[k].owner)

\* What a query compares with is a time that has come
ReadOK == \A r \in Requests : read[r] <= now

\* A request past Revoke has revoked the token it redeemed
RevokedOK ==
  \A r \in Requests :
    input[r].op = "refresh" /\ (pc[r] \in {"sign", "issue"} \/ status[r] = "200") =>
      tokens[input[r].token].state = "revoked"

RefusalInv ==
  /\ SessionsInv
  /\ OwnersOK
  /\ ReadOK
  /\ RevokedOK
  /\ RefreshRefusalsAreTrue
  /\ DefaultAccessLastsAsTold

\* A request has stored nothing before its last call is over.
LEMMA RunningStoresNothing ==
  ASSUME SessionsInv, NEW r \in Requests, pc[r] \in Steps \union {"idle"}
  PROVE  ~Stored(r)
BY DEF SessionsInv, RequestOK

LEMMA StepIsOfRunning ==
  ASSUME NEW r \in Requests, Step(r)
  PROVE  pc[r] \in Steps \union {"idle"}
BY DEF Step, Start, Handle, FindEmail, InsertUser, FindToken, FindUser, Revoke, Sign,
       Issue, DbError, Crash, Steps

\* The token that a refresh names, in every state after its start.
LEMMA NamedToken ==
  ASSUME SessionsInv, NEW r \in Requests, input[r].op \in {"refresh", "call"}
  PROVE  input[r].token \in Users /\ Stored(input[r].token)
BY DEF SessionsInv, RequestOK

LEMMA StepLasts ==
  ASSUME SessionsInv, NEW r \in Requests, Step(r)
  PROVE  Lasting
<1>1. HandlersOK /\ TablesOK /\ RequestOK(r) /\ TablesKept(r) /\ r \in Users
  BY TypeParts, StepKeepsTables, RequestsAreUsers DEF SessionsInv
<1>2. ~Stored(r)
  BY StepIsOfRunning, RunningStoresNothing
<1>3. now' = now /\ deployment' = deployment /\ now \in Nat
  BY <1>1, SettingsAssumption
  DEF HandlersOK, Step, Start, Handle, FindEmail, InsertUser, FindToken, FindUser, Revoke,
      Sign, Issue, DbError, Crash, Continue, Finish, Unacknowledged
<1>4. ASSUME NEW k \in Users, Stored(k)
      PROVE  /\ tokens'[k].owner = tokens[k].owner
             /\ tokens'[k].expires = tokens[k].expires
             /\ access'[k] = access[k]
             /\ tokens[k].state = "revoked" => tokens'[k].state = "revoked"
  <2>1. k # r /\ tokens'[k].owner = tokens[k].owner /\ access'[k] = access[k]
    BY <1>1, <1>2, <1>4 DEF TablesKept
  <2>2. CASE Revoke(r)
    BY <1>1, <2>1, <2>2 DEF Revoke, TablesOK, TokenRows
  <2>3. CASE Issue(r)
    BY <1>1, <2>1, <2>3 DEF Issue, TablesOK
  <2>4. CASE UNCHANGED tokens
    BY <2>1, <2>4
  <2> QED
    BY <2>2, <2>3, <2>4
    DEF Step, Start, Handle, FindEmail, InsertUser, FindToken, FindUser, Sign, DbError,
        Crash, tables
<1>5. ASSUME NEW u \in Users, Registered(u)
      PROVE  Registered(u)' /\ (~Live(u) => ~Live(u)')
  <2>1. CASE InsertUser(r)
    <3>1. u # r
      BY <1>1, <1>5, <2>1 DEF InsertUser, RequestOK
    <3> QED
      BY <1>1, <1>5, <2>1, <3>1 DEF InsertUser, TablesOK, Registered, Live
  <2>2. CASE UNCHANGED users
    BY <1>5, <2>2 DEF Registered, Live
  <2> QED
    BY <2>1, <2>2
    DEF Step, Start, Handle, FindEmail, FindToken, FindUser, Revoke, Sign, Issue, DbError,
        Crash, tables
<1> QED
  BY <1>3, <1>4, <1>5 DEF Lasting

LEMMA NextLasts ==
  ASSUME SessionsInv, [Next]_vars
  PROVE  Lasting
<1>1. HandlersOK /\ TablesOK /\ now \in Nat /\ Instants \subseteq Nat
  BY TypeParts, SettingsAssumption DEF SessionsInv, HandlersOK
<1>2. CASE Tick
  BY <1>1, <1>2 DEF Tick, tables, Lasting, Stored, Registered, Live
<1>3. CASE Operate
  <2>1. UNCHANGED <<tokens, access, now, deployment>>
    BY <1>3 DEF Operate
  <2>2. \A u \in Users : Registered(u) => Registered(u)' /\ (~Live(u) => ~Live(u)')
    BY <1>1, <1>3, SettingsAssumption DEF Operate, TablesOK, UserRows, Registered, Live
  <2> QED
    BY <1>1, <2>1, <2>2 DEF Lasting
<1>4. CASE UNCHANGED vars
  BY <1>1, <1>4 DEF vars, tables, Lasting, Stored, Registered, Live
<1> QED
  BY <1>2, <1>3, <1>4, StepLasts DEF Next, Step, AllDone

-----------------------------------------------------------------------------
(* Each part of the invariant, over one step.                              *)

\* How a stored token came about: it was there, or this step issues it.
LEMMA StoredBy ==
  ASSUME SessionsInv, [Next]_vars, NEW k \in Users, Stored(k)'
  PROVE  \/ Stored(k)
         \/ k \in Requests /\ Issue(k) /\ tokens'[k].owner = user[k].id
<1>1. HandlersOK /\ TablesOK
  BY TypeParts DEF SessionsInv
<1>2. ASSUME NEW r \in Requests, Revoke(r)
      PROVE  Stored(k)
  <2>1. pc[r] \in Steps /\ pc[r] = "revoke"
    BY <1>2 DEF Revoke, Steps
  <2>2. input[r].op = "refresh"
    BY <1>1, <2>1, AtStep, InputFacts, StepsFacts, TypeParts
  <2>3. input[r].token \in Users /\ Stored(input[r].token)
    BY <2>2, NamedToken
  <2> QED
    BY <1>1, <1>2, <2>3 DEF Revoke, TablesOK, Stored
<1>3. ASSUME NEW r \in Requests, Issue(r)
      PROVE  Stored(k) \/ (k = r /\ tokens'[k].owner = user[k].id)
  BY <1>1, <1>3 DEF Issue, TablesOK, Stored
<1>4. CASE UNCHANGED tokens
  BY <1>4 DEF Stored
<1> QED
  BY <1>2, <1>3, <1>4
  DEF Next, Start, Handle, FindEmail, InsertUser, FindToken, FindUser, Sign, DbError, Crash,
      Tick, Operate, AllDone, vars, tables

LEMMA OwnersNext ==
  ASSUME SessionsInv, OwnersOK, [Next]_vars
  PROVE  OwnersOK'
<1> SUFFICES ASSUME NEW k \in Users, Stored(k)'
             PROVE  Registered(tokens[k].owner)'
  BY DEF OwnersOK
<1>1. Lasting
  BY NextLasts
<1>2. CASE Stored(k)
  <2>1. tokens[k].owner \in Users /\ Registered(tokens[k].owner)
    BY <1>2 DEF SessionsInv, TokenOK, OwnersOK
  <2> QED
    BY <1>1, <1>2, <2>1 DEF Lasting, Registered
<1>3. CASE k \in Requests /\ Issue(k) /\ tokens'[k].owner = user[k].id
  <2>1. pc[k] = "issue" /\ pc[k] \in Steps /\ UNCHANGED users
    BY <1>3 DEF Issue, Steps
  <2>2. input[k].op \in {"register", "login", "refresh"} /\ user[k].id \in Users /\ RequestOK(k)
    <3>1. input[k] \in Inputs /\ "issue" \in StepsOf(input[k].op) /\ RequestOK(k)
      BY <1>3, <2>1, AtStep DEF SessionsInv
    <3> QED
      BY <1>3, <2>1, <3>1, InputFacts, StepsFacts DEF RequestOK
  <2>3. CASE input[k].op \in {"register", "login"}
    BY <1>3, <2>1, <2>2, <2>3 DEF RequestOK, Registered
  <2>4. CASE input[k].op = "refresh"
    <3>1. user[k].id = tokens[input[k].token].owner /\ Stored(input[k].token)
          /\ input[k].token \in Users
      BY <1>3, <2>1, <2>2, <2>4 DEF RequestOK
    <3> QED
      BY <1>3, <2>1, <3>1 DEF OwnersOK, Registered
  <2> QED
    BY <2>2, <2>3, <2>4
<1> QED
  BY <1>2, <1>3, StoredBy

LEMMA ReadNext ==
  ASSUME SessionsInv, ReadOK, [Next]_vars
  PROVE  ReadOK'
<1> SUFFICES ASSUME NEW q \in Requests PROVE read'[q] <= now'
  BY DEF ReadOK
<1>1. /\ read \in [Requests -> Instants] /\ now \in Nat /\ Instants \subseteq Nat
      /\ read[q] <= now /\ read[q] \in Nat
  BY TypeParts, SettingsAssumption DEF SessionsInv, HandlersOK, ReadOK
<1>2. ASSUME NEW r \in Requests, NEW step, NEW u, Continue(r, step, u)
      PROVE  read'[q] <= now'
  BY <1>1, <1>2 DEF Continue
<1>3. ASSUME NEW r \in Requests, NEW code, Finish(r, code)
      PROVE  read'[q] <= now'
  BY <1>1, <1>3 DEF Finish
<1>4. ASSUME NEW r \in Requests, Start(r)
      PROVE  read'[q] <= now'
  BY <1>1, <1>4 DEF Start
<1>5. ASSUME NEW r \in Requests, Handle(r) \/ DbError(r) \/ Crash(r)
      PROVE  read'[q] <= now'
  <2>1. Unacknowledged(r) => read'[q] <= now'
    BY <1>3, <1>5 DEF Unacknowledged
  <2>2. CASE FindEmail(r) \/ FindToken(r) \/ FindUser(r) \/ DbError(r) \/ Crash(r)
    BY <1>2, <1>3, <2>2 DEF FindEmail, FindToken, FindUser, DbError, Crash
  <2>3. CASE InsertUser(r) \/ Revoke(r) \/ Sign(r) \/ Issue(r)
    BY <1>2, <1>3, <2>1, <2>3 DEF InsertUser, Revoke, Sign, Issue
  <2> QED
    BY <1>5, <2>2, <2>3 DEF Handle
<1>6. CASE Tick \/ Operate \/ UNCHANGED vars
  BY <1>1, <1>6 DEF Tick, Operate, vars
<1> QED
  BY <1>4, <1>5, <1>6 DEF Next, AllDone

\* Every step is one request's, which has not been answered, or nobody's.
LEMMA WhoseStep ==
  ASSUME SessionsInv, [Next]_vars
  PROVE  \/ \E r \in Requests : Step(r) /\ MemoryKept(r)
         \/ UNCHANGED <<pc, input, user, status>>
<1>1. HandlersOK
  BY TypeParts DEF SessionsInv
<1> QED
  BY <1>1, StepKeepsMemory DEF Next, Step, Tick, Operate, AllDone, vars

LEMMA RevokedOKNext ==
  ASSUME SessionsInv, RevokedOK, [Next]_vars
  PROVE  RevokedOK'
<1> SUFFICES ASSUME NEW q \in Requests, input'[q].op = "refresh",
                    pc'[q] \in {"sign", "issue"} \/ status'[q] = "200"
             PROVE  tokens'[input'[q].token].state = "revoked"
  BY DEF RevokedOK
<1>1. HandlersOK /\ TablesOK /\ Lasting
  BY TypeParts, NextLasts DEF SessionsInv
<1>2. ASSUME input'[q] = input[q], pc[q] \in {"sign", "issue"} \/ status[q] = "200"
      PROVE  tokens'[input'[q].token].state = "revoked"
  <2>1. input[q].token \in Users /\ Stored(input[q].token)
    BY <1>2, NamedToken
  <2> QED
    BY <1>1, <1>2, <2>1 DEF Lasting, RevokedOK
<1>3. CASE pc'[q] = pc[q] /\ input'[q] = input[q] /\ status'[q] = status[q]
  BY <1>2, <1>3
<1>4. CASE Step(q)
  <2>1. status[q] # "200"
    BY <1>1, <1>4, StepIsOfRunning DEF HandlersOK, Steps
  <2>2. CASE Revoke(q)
    <3>1. pc[q] \in Steps /\ pc[q] = "revoke" /\ input'[q] = input[q]
      BY <2>2 DEF Revoke, Steps, Continue, Finish, Unacknowledged
    <3>2. input[q].token \in Users
      BY <3>1, NamedToken
    <3> QED
      BY <1>1, <2>2, <3>1, <3>2 DEF Revoke, TablesOK, TokenRows
  <2>3. CASE Sign(q) \/ Issue(q)
    BY <1>2, <2>3 DEF Sign, Issue, Continue, Finish, Unacknowledged
  <2>4. CASE Start(q)
    <3>1. input'[q].op # "call" => pc'[q] = FirstStep(input'[q]) /\ status'[q] = status[q]
      BY <1>1, <2>4 DEF Start, HandlersOK
    <3> QED
      BY <2>1, <3>1 DEF FirstStep
  <2>5. CASE FindEmail(q)
    <3>1. pc[q] \in Steps /\ pc[q] = "findEmail" /\ input'[q] = input[q]
      BY <2>5 DEF FindEmail, Steps, Continue, Finish
    <3> QED
      BY <1>1, <3>1, AtStep, InputFacts, StepsFacts, TypeParts
  <2>6. CASE InsertUser(q)
    <3>1. pc[q] \in Steps /\ pc[q] = "insertUser" /\ input'[q] = input[q]
      BY <2>6 DEF InsertUser, Steps, Continue, Finish, Unacknowledged
    <3> QED
      BY <1>1, <3>1, AtStep, InputFacts, StepsFacts, TypeParts
  <2>7. CASE FindToken(q)
    <3>1. pc'[q] \in {"findUser", "done"} /\ (pc'[q] = "done" => status'[q] = "401")
      BY <1>1, <2>7 DEF FindToken, Continue, Finish, HandlersOK
    <3>2. pc'[q] = "findUser" => status'[q] = status[q]
      BY <1>1, <2>7 DEF FindToken, Continue, Finish, HandlersOK
    <3> QED
      BY <2>1, <3>1, <3>2
  <2>8. CASE FindUser(q)
    <3>1. input'[q] = input[q]
      BY <2>8 DEF FindUser, Continue, Finish
    <3>2. \/ pc'[q] = "revoke" /\ status'[q] = status[q]
          \/ pc'[q] = "done" /\ status'[q] = "401"
      BY <1>1, <2>8, <3>1 DEF FindUser, Continue, Finish, HandlersOK
    <3> QED
      BY <2>1, <3>2
  <2>9. CASE DbError(q) \/ Crash(q)
    BY <1>1, <2>9 DEF DbError, Crash, Finish, HandlersOK
  <2> QED
    BY <1>4, <2>2, <2>3, <2>4, <2>5, <2>6, <2>7, <2>8, <2>9 DEF Step, Handle
<1> QED
  BY <1>3, <1>4, WhoseStep DEF MemoryKept

\* What a step answers with 401: a token that is revoked or whose date has
\* passed, or a user who is not there.
LEMMA RefusedNow ==
  ASSUME SessionsInv, ReadOK, NEW q \in Requests, Step(q),
         status'[q] = "401"
  PROVE  /\ input[q].op = "refresh" =>
              LET k == input[q].token IN
              \/ tokens[k].state = "revoked"
              \/ now >= tokens[k].expires
              \/ ~Live(tokens[k].owner)
         /\ input'[q].op = "call" =>
              LET k == input'[q].token IN
              now >= access[k].iat + SignedFor \/ ~Live(access[k].sub)
<1> DEFINE k == input[q].token
<1>1. HandlersOK /\ TablesOK /\ RequestOK(q) /\ now \in Nat /\ Instants \subseteq Nat
  BY TypeParts, SettingsAssumption DEF SessionsInv, HandlersOK
<1>2. status[q] = "none"
  BY <1>1, StepIsOfRunning DEF HandlersOK, Steps
<1>3. CASE Start(q)
  <2>1. input[q].op = "none" /\ input'[q].op = "call" /\ Expired(input'[q].token)
    BY <1>1, <1>2, <1>3 DEF Start, HandlersOK, NoInput
  <2> QED
    BY <2>1 DEF Expired
<1>4. CASE FindEmail(q)
  <2>1. pc[q] \in Steps /\ pc[q] = "findEmail" /\ input'[q] = input[q]
    BY <1>4 DEF FindEmail, Steps, Continue, Finish
  <2> QED
    BY <1>1, <2>1, AtStep, InputFacts, StepsFacts, TypeParts
<1>5. CASE FindToken(q)
  <2>1. pc[q] \in Steps /\ pc[q] = "findToken" /\ input'[q] = input[q]
    BY <1>5 DEF FindToken, Steps, Continue, Finish
  <2>2. input[q].op = "refresh"
    BY <1>1, <2>1, AtStep, InputFacts, StepsFacts, TypeParts
  <2>3. k \in Users /\ Stored(k)
    BY <2>2, NamedToken
  <2>4. ~(tokens[k].state = "valid" /\ tokens[k].expires > read[q])
    BY <1>1, <1>2, <1>5 DEF FindToken, Continue, HandlersOK
  <2>5. tokens[k].expires \in Nat /\ tokens[k].state \in {"valid", "revoked"}
        /\ read[q] \in Nat /\ read[q] <= now
    BY <1>1, <2>3 DEF TablesOK, TokenRows, Stored, HandlersOK, ReadOK
  <2> QED
    BY <1>1, <2>1, <2>2, <2>4, <2>5
<1>6. CASE FindUser(q)
  <2>1. pc[q] = "findUser" /\ input'[q] = input[q]
    BY <1>6 DEF FindUser, Continue, Finish
  <2>2. ~Live(IF input[q].op = "call" THEN access[k].sub ELSE user[q].id)
    BY <1>1, <1>2, <1>6 DEF FindUser, Continue, Finish, HandlersOK
  <2> QED
    BY <1>1, <2>1, <2>2 DEF RequestOK
<1>7. CASE InsertUser(q) \/ Revoke(q) \/ Sign(q) \/ Issue(q) \/ DbError(q) \/ Crash(q)
  BY <1>1, <1>2, <1>7
  DEF InsertUser, Revoke, Sign, Issue, DbError, Crash, Unacknowledged, Continue, Finish, HandlersOK
<1> QED
  BY <1>3, <1>4, <1>5, <1>6, <1>7 DEF Step, Handle

\* Reasons for a 401: for a refresh with the token k, and for a call with it
Refusable(k) ==
  \/ tokens[k].state = "revoked"
  \/ now >= tokens[k].expires
  \/ ~Live(tokens[k].owner)

OutOfTime(k) == now >= access[k].iat + SignedFor \/ ~Live(access[k].sub)

\* Both last, whoever takes the next step.
LEMMA ReasonsLast ==
  ASSUME SessionsInv, OwnersOK, [Next]_vars, NEW k \in Users, Stored(k)
  PROVE  /\ Refusable(k) => Refusable(k)'
         /\ OutOfTime(k) => OutOfTime(k)'
<1>1. /\ Lasting /\ SessionsInv' /\ HandlersOK /\ HandlersOK' /\ TablesOK
      /\ Instants \subseteq Nat /\ Lifetime \in Nat
  <2>1. Lasting /\ SessionsInv'
    BY NextLasts, NextInv
  <2>2. TypeOK /\ TypeOK'
    BY <2>1 DEF SessionsInv
  <2> QED
    BY <2>1, <2>2, SettingsAssumption
    DEF TypeOK, HandlersOK, TablesOK, UserRows, TokenRows, Accesses
<1>2. now \in Nat /\ now' \in Nat /\ now' >= now
  BY <1>1 DEF HandlersOK, Lasting
<1>3. /\ tokens[k].owner \in Users /\ Registered(tokens[k].owner)
      /\ access[k].sub = tokens[k].owner
      /\ tokens[k].expires \in Nat /\ access[k].iat \in Nat
  BY <1>1 DEF SessionsInv, TokenOK, OwnersOK, TablesOK, TokenRows, Accesses
<1>4. /\ tokens'[k].owner = tokens[k].owner /\ tokens'[k].expires = tokens[k].expires
      /\ access'[k] = access[k]
      /\ tokens[k].state = "revoked" => tokens'[k].state = "revoked"
      /\ ~Live(tokens[k].owner) => ~Live(tokens[k].owner)'
  BY <1>1, <1>3 DEF Lasting, Live
<1>5. SignedFor' = SignedFor /\ SignedFor \in Int
  BY <1>1 DEF Lasting, SignedFor
<1>6. Refusable(k) => Refusable(k)'
  BY <1>2, <1>3, <1>4 DEF Refusable
<1>7. OutOfTime(k) => OutOfTime(k)'
  <2>1. ~Live(access[k].sub) => ~Live(access[k].sub)'
    BY <1>3, <1>4 DEF Live
  <2>2. now >= access[k].iat + SignedFor => (now >= access[k].iat + SignedFor)'
    BY <1>2, <1>3, <1>4, <1>5
  <2> QED
    BY <2>1, <2>2 DEF OutOfTime
<1> QED
  BY <1>6, <1>7

\* A request that has been answered, or is about to be, by somebody's step.
LEMMA AnsweredBy ==
  ASSUME SessionsInv, [Next]_vars, NEW q \in Requests
  PROVE  \/ Step(q)
         \/ input'[q] = input[q] /\ status'[q] = status[q]
BY WhoseStep DEF MemoryKept

LEMMA RefreshRefusalsNext ==
  ASSUME RefusalInv, [Next]_vars
  PROVE  RefreshRefusalsAreTrue'
<1>1. SessionsInv /\ OwnersOK /\ ReadOK /\ RefreshRefusalsAreTrue /\ HandlersOK
  BY TypeParts DEF RefusalInv, SessionsInv
<1>2. ASSUME NEW q \in Requests, input'[q].op = "refresh", status'[q] = "401",
             NEW k, input'[q].token = k
      PROVE  Refusable(k)'
  <2>1. CASE input'[q] = input[q] /\ status'[q] = status[q]
    <3>1. k \in Users /\ Stored(k)
      BY <1>1, <1>2, <2>1, NamedToken
    <3>2. Refusable(k)
      BY <1>1, <1>2, <2>1 DEF RefreshRefusalsAreTrue, Refusable
    <3> QED
      BY <1>1, <3>1, <3>2, ReasonsLast
  <2>2. CASE Step(q)
    <3>1. CASE Start(q)
      BY <1>1, <1>2, <3>1 DEF Start, HandlersOK
    <3>2. CASE ~Start(q)
      <4>1. input'[q] = input[q]
        BY <2>2, <3>2
        DEF Step, Handle, FindEmail, InsertUser, FindToken, FindUser, Revoke, Sign, Issue,
            DbError, Crash, Continue, Finish, Unacknowledged
      <4>2. Refusable(k)
        BY <1>1, <1>2, <2>2, <4>1, RefusedNow DEF Refusable
      <4>3. k \in Users /\ Stored(k)
        BY <1>1, <1>2, <4>1, NamedToken
      <4> QED
        BY <1>1, <4>2, <4>3, ReasonsLast
    <3> QED
      BY <3>1, <3>2
  <2> QED
    BY <1>1, <2>1, <2>2, AnsweredBy
<1>3. ASSUME NEW q \in Requests, input'[q].op = "refresh", status'[q] = "401"
      PROVE  \/ tokens'[input'[q].token].state = "revoked"
             \/ now' >= tokens'[input'[q].token].expires
             \/ users'[tokens'[input'[q].token].owner].state # "live"
  BY <1>2, <1>3 DEF Refusable, Live
<1> QED
  BY <1>3 DEF RefreshRefusalsAreTrue, Live

LEMMA DefaultAccessNext ==
  ASSUME RefusalInv, [Next]_vars
  PROVE  DefaultAccessLastsAsTold'
<1>1. SessionsInv /\ OwnersOK /\ ReadOK /\ DefaultAccessLastsAsTold /\ HandlersOK /\ Lasting
  BY TypeParts, NextLasts DEF RefusalInv, SessionsInv
<1>2. ASSUME deployment'.expiresIn = "default",
             NEW q \in Requests, input'[q].op = "call", status'[q] = "401",
             NEW k, input'[q].token = k
      PROVE  OutOfTime(k)'
  <2>1. SignedFor = ToldFor /\ deployment.expiresIn = "default"
    BY <1>1, <1>2 DEF Lasting, SignedFor, ToldFor
  <2>2. CASE input'[q] = input[q] /\ status'[q] = status[q]
    <3>1. k \in Users /\ Stored(k)
      BY <1>1, <1>2, <2>2, NamedToken
    <3>2. OutOfTime(k)
      BY <1>1, <1>2, <2>1, <2>2 DEF DefaultAccessLastsAsTold, AccessLastsAsTold, OutOfTime
    <3> QED
      BY <1>1, <3>1, <3>2, ReasonsLast
  <2>3. CASE Step(q)
    <3>1. RequestOK(q)'
      BY <1>1, <2>3, StepOK
    <3>2. k \in Users /\ Stored(k)'
      BY <1>2, <3>1 DEF RequestOK, Stored
    <3>3. ~Issue(q)
      BY <1>1, <1>2, <2>3, StepIsOfRunning
      DEF Issue, Finish, Unacknowledged, HandlersOK
    <3>4. ASSUME k \in Requests, Issue(k)
          PROVE  FALSE
      <4>1. MemoryKept(k) /\ k # q
        BY <1>1, <3>3, <3>4, StepKeepsMemory DEF Step, Handle
      <4>2. status[q] = "none"
        BY <1>1, <2>3, StepIsOfRunning DEF HandlersOK, Steps
      <4> QED
        BY <1>2, <4>1, <4>2 DEF MemoryKept
    <3>5. Stored(k)
      BY <1>1, <3>2, <3>4, StoredBy
    <3>6. OutOfTime(k)
      BY <1>1, <1>2, <2>3, RefusedNow DEF OutOfTime
    <3> QED
      BY <1>1, <3>2, <3>5, <3>6, ReasonsLast
  <2> QED
    BY <1>1, <2>2, <2>3, AnsweredBy
<1>3. ASSUME deployment'.expiresIn = "default",
             NEW q \in Requests, input'[q].op = "call", status'[q] = "401"
      PROVE  \/ now' >= access'[input'[q].token].iat + ToldFor
             \/ users'[access'[input'[q].token].sub].state # "live"
  <2>1. SignedFor' = ToldFor
    BY <1>3 DEF SignedFor, ToldFor
  <2> QED
    BY <1>2, <1>3, <2>1 DEF OutOfTime, Live
<1> QED
  BY <1>3 DEF DefaultAccessLastsAsTold, AccessLastsAsTold, Live

LEMMA RefusalInit == Init => RefusalInv
<1> SUFFICES ASSUME Init PROVE RefusalInv
  OBVIOUS
<1>1. SessionsInv
  BY InitInv
<1>2. OwnersOK
  BY DEF Init, OwnersOK, Stored, Registered, NoToken, NoUser, Users
<1>3. ReadOK /\ RevokedOK /\ RefreshRefusalsAreTrue /\ DefaultAccessLastsAsTold
  BY DEF Init, ReadOK, RevokedOK, RefreshRefusalsAreTrue, DefaultAccessLastsAsTold,
         AccessLastsAsTold, NoInput
<1> QED
  BY <1>1, <1>2, <1>3 DEF RefusalInv

LEMMA RefusalNext == RefusalInv /\ [Next]_vars => RefusalInv'
BY NextInv, OwnersNext, ReadNext, RevokedOKNext, RefreshRefusalsNext, DefaultAccessNext
DEF RefusalInv

THEOREM RefusalInvariant == Spec => []RefusalInv
BY RefusalInit, RefusalNext, PTL DEF Spec

-----------------------------------------------------------------------------
(* Theorems.                                                               *)

\* refreshToken() turns away no token that is valid: whoever was answered 401 has
\* a token that is revoked or expired, or is a user no more, and always will.
THEOREM RefusalsOfRefreshAreTrue == Spec => []RefreshRefusalsAreTrue
<1>1. RefusalInv => RefreshRefusalsAreTrue
  BY DEF RefusalInv
<1> QED
  BY <1>1, RefusalInvariant, PTL

\* Where JWT_EXPIRES_IN_SECONDS is left to its default, no access token is refused
\* before the time its holder was told, as long as the user is there.
THEOREM AccessLastsByDefault == Spec => []DefaultAccessLastsAsTold
<1>1. RefusalInv => DefaultAccessLastsAsTold
  BY DEF RefusalInv
<1> QED
  BY <1>1, RefusalInvariant, PTL

\* Nobody redeems a refresh token after another refresh with it was answered 200.
THEOREM TokensAreRedeemedInOverlap == Spec => RedeemedOnlyInOverlap
<1> DEFINE A == \A r, q \in Requests :
                  /\ pc[r] = "findToken" /\ pc'[r] = "findUser"
                  /\ input[q].op = "refresh" /\ input[q].token = input[r].token
                  => status[q] # "200"
<1>1. RefusalInv /\ [Next]_vars => A
  <2> SUFFICES ASSUME RefusalInv, [Next]_vars,
                      NEW r \in Requests, NEW q \in Requests,
                      pc[r] = "findToken", pc'[r] = "findUser",
                      input[q].op = "refresh", input[q].token = input[r].token,
                      status[q] = "200"
               PROVE  FALSE
    OBVIOUS
  <2>1. SessionsInv /\ tokens[input[r].token].state = "revoked"
    BY DEF RefusalInv, RevokedOK
  <2>2. HandlersOK /\ Step(r)
    BY <2>1, WhoseStep, TypeParts DEF MemoryKept, SessionsInv
  <2>3. FindToken(r)
    BY <2>2 DEF Step, Start, Handle, FindEmail, InsertUser, FindUser, Revoke, Sign, Issue,
                DbError, Crash, Finish, HandlersOK
  <2>4. pc'[r] = "done"
    BY <2>1, <2>3, TypeParts DEF FindToken, Finish, SessionsInv, HandlersOK
  <2> QED
    BY <2>4
<1> QED
  BY <1>1, RefusalInvariant, PTL DEF Spec, RedeemedOnlyInOverlap

\* A call that is let through is of a user who is in the table with the role the
\* endpoint needs at that very moment.
THEOREM RightsEndAtOnce == Spec => RightsAreCurrent
<1> DEFINE A == \A r \in Requests :
                  /\ input[r].op = "call"
                  /\ status[r] = "none" /\ status'[r] = "200"
                  => LET u == access[input[r].token].sub IN
                     Live(u) /\ (input[r].needs = "admin" => users[u].role = "admin")
<1>1. SessionsInv /\ [Next]_vars => A
  <2> SUFFICES ASSUME SessionsInv, [Next]_vars, NEW r \in Requests,
                      input[r].op = "call", status[r] = "none", status'[r] = "200"
               PROVE  LET u == access[input[r].token].sub IN
                      Live(u) /\ (input[r].needs = "admin" => users[u].role = "admin")
    OBVIOUS
  <2>1. HandlersOK
    BY TypeParts DEF SessionsInv
  <2>2. Step(r)
    BY <2>1, WhoseStep DEF MemoryKept
  <2>3. ~Start(r)
    BY <2>1 DEF Start, HandlersOK, NoInput
  <2>4. ~Issue(r)
    <3>1. pc[r] = "issue" => pc[r] \in Steps
      BY DEF Steps
    <3> QED
      BY <2>1, <3>1, AtStep, InputFacts, StepsFacts, TypeParts DEF Issue, SessionsInv
  <2>5. FindUser(r)
    BY <2>1, <2>2, <2>3, <2>4
    DEF Step, Handle, FindEmail, InsertUser, FindToken, Revoke, Sign, DbError, Crash,
        Continue, Finish, Unacknowledged, HandlersOK
  <2>6. /\ Live(access[input[r].token].sub)
        /\ input[r].needs \in {"any", users[access[input[r].token].sub].role}
    BY <2>1, <2>5 DEF FindUser, Finish, HandlersOK
  <2> QED
    BY <2>6
<1> QED
  BY <1>1, SessionsInvariant, PTL DEF Spec, RightsAreCurrent
=============================================================================
