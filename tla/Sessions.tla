------------------------------ MODULE Sessions ------------------------------
(***************************************************************************)
(* Users and sessions: AuthService, UsersService, RefreshTokenRepository,  *)
(* JwtStrategy and the two guards.                                         *)
(*                                                                         *)
(* As in Movies, an action is one awaited call of a handler with the code  *)
(* up to the next await, and pc says which call is next:                   *)
(*                                                                         *)
(*   register   findEmail -> insertUser -> sign -> issue                   *)
(*   login      findEmail -> sign -> issue                                 *)
(*   refresh    findToken -> findUser -> revoke -> sign -> issue           *)
(*   call       findUser                                                   *)
(*                                                                         *)
(* refresh is AuthService.refreshToken, which no controller calls yet: its *)
(* callers are assumed to run it like any other handler. call is any other *)
(* request with an access token, up to the end of the guards.              *)
(***************************************************************************)
EXTENDS Integers

CONSTANTS
  Requests,     \* HTTP requests. A request names the user row (uuid), the
                \* refresh token (randomUUID) and the access token it makes
  Seeds,        \* users of before, each logged in once at instant 0
  SeedUsers,    \* [Seeds -> email and role]
  RawEmails,    \* emails a client can send
  Lower,        \* trim and toLowerCase on RawEmails
  Inputs,       \* the inputs the clients may send
  Deployments,  \* how the service may be deployed, see below
  Lifetime,     \* the value of JWT_EXPIRES_IN_SECONDS, and the default
  RefreshTtl,   \* REFRESH_TOKEN_TTL_SECONDS
  Instants,     \* bound: the instants, in seconds, at which anything happens
  Managed,      \* bound: the users an operator may remove or give another role
  Faults        \* what may go wrong: a subset of {"db", "crash"}

Users   == Requests \union Seeds
Roles   == {"admin", "customer"}
Emails  == RawEmails \union {"none"}

\* roles: the type of users.roles. "text" is what the entity declares, and what
\* DB_SYNCHRONIZE creates; "text[]" is what the migration creates.
\* expiresIn: JWT_EXPIRES_IN_SECONDS is set in the environment, or not
DeploymentRecords == [roles : {"text", "text[]"}, expiresIn : {"env", "default"}]

InputRecords ==
  [op : {"register"}, email : RawEmails]
  \union
  [op : {"login"}, email : RawEmails, password : {"right", "wrong"}]
  \union
  [op : {"refresh"}, token : Users]
  \union
  [op : {"call"}, token : Users, needs : {"admin", "any"}]

ASSUME UsersAssumption ==
  /\ Requests \intersect Seeds = {}
  /\ "none" \notin Users \union RawEmails

ASSUME EmailsAssumption ==
  /\ Lower \in [RawEmails -> RawEmails]
  /\ SeedUsers \in [Seeds -> [email : RawEmails, role : Roles]]
  /\ \A u, v \in Seeds : SeedUsers[u].email = SeedUsers[v].email => u = v
  /\ \A u \in Seeds : Lower[SeedUsers[u].email] = SeedUsers[u].email

ASSUME SettingsAssumption ==
  /\ Inputs \subseteq InputRecords
  /\ Deployments \subseteq DeploymentRecords
  /\ Lifetime \in Nat /\ RefreshTtl \in Nat
  /\ Instants \subseteq Nat /\ 0 \in Instants
  /\ Managed \subseteq Users
  /\ Faults \subseteq {"db", "crash"}

VARIABLES
  users,       \* the table "users"
  tokens,      \* the table "refresh_tokens"
  access,      \* the access tokens that were signed; the service keeps none
  now,         \* the time
  deployment,  \* fixed from the start
  pc,          \* the call each handler makes next
  input,       \* what each request asks for
  user,        \* the user in the handler's memory: id and role as read
  read,        \* the time findValid compares with or createAndSave counts from
  status       \* the HTTP status a handler ends with; "lost" when it dies

tables == <<users, tokens, access>>
vars   == <<tables, now, deployment, pc, input, user, read, status>>

Steps == {"findEmail", "insertUser", "findToken", "findUser", "revoke", "sign", "issue"}
Codes == {"200", "201", "401", "403", "409", "500", "lost"}

NoInput  == [op |-> "none"]
Nobody   == [id |-> "none", role |-> "customer"]
NoUser   == [state |-> "absent", email |-> "none", role |-> "customer"]
NoToken  == [state |-> "absent", owner |-> "none", expires |-> 0]
NoAccess == [sub |-> "none", role |-> "customer", iat |-> 0]

\* Mutant: the setting is always handed over as a string
SignedForMillis == Lifetime \div 1000

\* The seconds after which an access token expires. jsonwebtoken takes a number
\* as seconds and a string without a unit as milliseconds, and what
\* ConfigService finds in the environment is a string
SignedFor == IF deployment.expiresIn = "env" THEN Lifetime \div 1000 ELSE Lifetime

\* ... and those the client is told: expiresIn of the response
ToldFor == Lifetime

Init ==
  /\ deployment \in Deployments
  /\ users = [u \in Users |->
       IF u \in Seeds /\ deployment.roles = "text"
       THEN [state |-> "live", email |-> SeedUsers[u].email, role |-> SeedUsers[u].role]
       ELSE NoUser]
  /\ tokens = [u \in Users |->
       IF u \in Seeds /\ deployment.roles = "text"
       THEN [state |-> "valid", owner |-> u, expires |-> RefreshTtl] ELSE NoToken]
  /\ access = [u \in Users |->
       IF u \in Seeds /\ deployment.roles = "text"
       THEN [sub |-> u, role |-> SeedUsers[u].role, iat |-> 0] ELSE NoAccess]
  /\ now = 0
  /\ pc     = [r \in Requests |-> "idle"]
  /\ input  = [r \in Requests |-> NoInput]
  /\ user   = [r \in Requests |-> Nobody]
  /\ read   = [r \in Requests |-> 0]
  /\ status = [r \in Requests |-> "none"]

-----------------------------------------------------------------------------
(* How a step ends.                                                        *)

\* The calls whose parameters hold the time at which they are made
Timed == {"findToken", "issue"}

Continue(r, step, u) ==
  /\ pc' = [pc EXCEPT ![r] = step]
  /\ user' = [user EXCEPT ![r] = u]
  /\ read' = [read EXCEPT ![r] = IF step \in Timed THEN now ELSE 0]
  /\ UNCHANGED <<now, deployment, input, status>>

Finish(r, code) ==
  /\ pc' = [pc EXCEPT ![r] = "done"]
  /\ user' = [user EXCEPT ![r] = Nobody]
  /\ read' = [read EXCEPT ![r] = 0]
  /\ status' = [status EXCEPT ![r] = code]
  /\ UNCHANGED <<now, deployment, input>>

\* The database did the write and its answer is lost, or the process dies
Unacknowledged(r) ==
  \/ "db" \in Faults /\ Finish(r, "500")
  \/ "crash" \in Faults /\ Finish(r, "lost")

-----------------------------------------------------------------------------
(* A request arrives.                                                      *)

\* The session a client was given: by the answer to a request, or before
Received(k) ==
  \/ k \in Seeds /\ tokens[k].state # "absent"
  \/ k \in Requests /\ status[k] \in {"200", "201"} /\ input[k].op # "call"

Sendable(in) == in.op \in {"refresh", "call"} => Received(in.token)

\* Mutant: a call is checked like a refresh
FirstStepOfToken(in) ==
  IF in.op \in {"register", "login"} THEN "findEmail" ELSE "findToken"

FirstStep(in) ==
  CASE in.op \in {"register", "login"} -> "findEmail"
    [] in.op = "refresh"               -> "findToken"
    [] in.op = "call"                  -> "findUser"

\* passport-jwt refuses an expired access token before anything is read
Expired(k) == now >= access[k].iat + SignedFor

Start(r) ==
  /\ pc[r] = "idle"
  /\ \E in \in {i \in Inputs : Sendable(i)} :
       /\ input' = [input EXCEPT ![r] = in]
       /\ IF in.op = "call" /\ Expired(in.token)
          THEN /\ pc' = [pc EXCEPT ![r] = "done"]
               /\ status' = [status EXCEPT ![r] = "401"]
               /\ UNCHANGED read
          ELSE /\ pc' = [pc EXCEPT ![r] = FirstStep(in)]
               /\ read' = [read EXCEPT ![r] = IF FirstStep(in) \in Timed THEN now ELSE 0]
               /\ UNCHANGED status
  /\ UNCHANGED <<tables, now, deployment, user>>

-----------------------------------------------------------------------------
(* Handlers.                                                               *)

Live(u) == users[u].state = "live"

\* The row of u as a handler keeps it
Row(u) == [id |-> u, role |-> users[u].role]

\* userRepository.findByEmail, which leaves soft-deleted rows out: create() of
\* UsersService wants no row, login() wants one whose password compares
FindEmail(r) ==
  LET email == Lower[input[r].email]
      found == {u \in Users : Live(u) /\ users[u].email = email}
  IN
  /\ pc[r] = "findEmail"
  /\ \/ /\ input[r].op = "register"
        /\ IF found = {} THEN Continue(r, "insertUser", Nobody) ELSE Finish(r, "409")
     \/ /\ input[r].op = "login"
        /\ found = {} \/ input[r].password = "wrong"
        /\ Finish(r, "401")
     \/ /\ input[r].op = "login"
        /\ input[r].password = "right"
        /\ \E u \in found : Continue(r, "sign", Row(u))
  /\ UNCHANGED tables

\* The unique index on email covers the soft-deleted rows too
EmailTaken(email) == \E u \in Users : users[u].state # "absent" /\ users[u].email = email

\* Mutant: nothing but findByEmail keeps the emails apart
InsertUserUnchecked(r) ==
  /\ pc[r] = "insertUser"
  /\ users' = [users EXCEPT ![r] =
       [state |-> "live", email |-> Lower[input[r].email], role |-> "customer"]]
  /\ Continue(r, "sign", [id |-> r, role |-> "customer"]) \/ Unacknowledged(r)
  /\ UNCHANGED <<tokens, access>>

\* userRepository.save. A duplicate email is a QueryFailedError, answered 500;
\* so is 'customer', the simple-array of one role, where roles is an array column
InsertUser(r) ==
  LET email == Lower[input[r].email] IN
  /\ pc[r] = "insertUser"
  /\ IF deployment.roles = "text" /\ ~EmailTaken(email)
     THEN /\ users' = [users EXCEPT ![r] =
               [state |-> "live", email |-> email, role |-> "customer"]]
          /\ Continue(r, "sign", [id |-> r, role |-> "customer"]) \/ Unacknowledged(r)
     ELSE Finish(r, "500") /\ UNCHANGED users
  /\ UNCHANGED <<tokens, access>>

\* Mutant: the expiry date is compared the wrong way round
FindTokenExpired(r) ==
  LET k == input[r].token IN
  /\ pc[r] = "findToken"
  /\ IF tokens[k].state = "valid" /\ tokens[k].expires <= read[r]
     THEN Continue(r, "findUser", [Nobody EXCEPT !.id = tokens[k].owner])
     ELSE Finish(r, "401")
  /\ UNCHANGED tables

\* refreshTokenRepository.findValid: the time it compares with is that of the call
FindToken(r) ==
  LET k == input[r].token IN
  /\ pc[r] = "findToken"
  /\ IF tokens[k].state = "valid" /\ tokens[k].expires > read[r]
     THEN Continue(r, "findUser", [Nobody EXCEPT !.id = tokens[k].owner])
     ELSE Finish(r, "401")
  /\ UNCHANGED tables

\* Mutants: the guards trust the roles of the access token; refreshToken()
\* revokes before it has looked the user up
FindUserInToken(r) ==
  /\ pc[r] = "findUser"
  /\ IF input[r].op = "refresh" THEN Continue(r, "revoke", user[r])
     ELSE IF input[r].needs \in {"any", access[input[r].token].role}
          THEN Finish(r, "200") ELSE Finish(r, "403")
  /\ UNCHANGED tables

RevokeThenFindUser(r) ==
  /\ pc[r] = "findUser"
  /\ IF input[r].op = "refresh"
     THEN /\ tokens' = [tokens EXCEPT ![input[r].token].state = "revoked"]
          /\ IF Live(user[r].id) THEN Continue(r, "sign", user[r]) ELSE Finish(r, "401")
     ELSE Finish(r, "200") /\ UNCHANGED tokens
  /\ UNCHANGED <<users, access>>

\* usersService.findById, of refreshToken() and of JwtStrategy.validate. For a
\* call, RolesGuard then looks at the roles of the row that was read
FindUser(r) ==
  LET in == input[r]
      u  == IF in.op = "call" THEN access[in.token].sub ELSE user[r].id
  IN
  /\ pc[r] = "findUser"
  /\ \/ /\ ~Live(u)
        /\ Finish(r, "401")
     \/ /\ Live(u)
        /\ in.op = "refresh"
        /\ Continue(r, "revoke", Row(u))
     \/ /\ Live(u)
        /\ in.op = "call"
        /\ Finish(r, IF in.needs \in {"any", users[u].role} THEN "200" ELSE "403")
  /\ UNCHANGED tables

\* Mutant: refreshToken() leaves the old token valid
RevokeNothing(r) ==
  /\ pc[r] = "revoke"
  /\ Continue(r, "sign", user[r])
  /\ UNCHANGED tables

\* refreshTokenRepository.invalidate: an UPDATE by id, whatever the row holds
Revoke(r) ==
  /\ pc[r] = "revoke"
  /\ tokens' = [tokens EXCEPT ![input[r].token].state = "revoked"]
  /\ Continue(r, "sign", user[r]) \/ Unacknowledged(r)
  /\ UNCHANGED <<users, access>>

\* jwtService.signAsync, and createAndSave up to the query
Sign(r) ==
  /\ pc[r] = "sign"
  /\ access' = [access EXCEPT ![r] =
       [sub |-> user[r].id, role |-> user[r].role, iat |-> now]]
  /\ Continue(r, "issue", user[r])
  /\ UNCHANGED <<users, tokens>>

\* Mutant: the answer does not wait for the token to be stored
IssueUnawaited(r) ==
  /\ pc[r] = "issue"
  /\ UNCHANGED tokens \/ tokens' = [tokens EXCEPT ![r] =
       [state |-> "valid", owner |-> user[r].id, expires |-> read[r] + RefreshTtl]]
  /\ Finish(r, IF input[r].op = "register" THEN "201" ELSE "200")
  /\ UNCHANGED <<users, access>>

\* refreshTokenRepository.createAndSave: the last call of every new session
Issue(r) ==
  /\ pc[r] = "issue"
  /\ tokens' = [tokens EXCEPT ![r] =
       [state |-> "valid", owner |-> user[r].id, expires |-> read[r] + RefreshTtl]]
  /\ \/ Finish(r, IF input[r].op = "register" THEN "201" ELSE "200")
     \/ Unacknowledged(r)
  /\ UNCHANGED <<users, access>>

-----------------------------------------------------------------------------
(* What else happens.                                                      *)

\* A query fails with no effect
DbError(r) ==
  /\ "db" \in Faults
  /\ pc[r] \in Steps \ {"sign"}
  /\ Finish(r, "500")
  /\ UNCHANGED tables

\* The process dies between two calls
Crash(r) ==
  /\ "crash" \in Faults
  /\ pc[r] \in Steps
  /\ Finish(r, "lost")
  /\ UNCHANGED tables

Tick ==
  /\ \E t \in Instants : t > now /\ now' = t
  /\ UNCHANGED <<tables, deployment, pc, input, user, read, status>>

\* No endpoint removes a user or changes a role, but the columns deleted_at and
\* roles are there for an operator to write
Operate ==
  /\ \E u \in Managed :
       /\ Live(u)
       /\ \/ users' = [users EXCEPT ![u].state = "deleted"]
          \/ \E role \in Roles \ {users[u].role} :
               users' = [users EXCEPT ![u].role = role]
  /\ UNCHANGED <<tokens, access, now, deployment, pc, input, user, read, status>>

-----------------------------------------------------------------------------

Handle(r) ==
  \/ FindEmail(r)
  \/ InsertUser(r)
  \/ FindToken(r)
  \/ FindUser(r)
  \/ Revoke(r)
  \/ Sign(r)
  \/ Issue(r)

\* Every request has been answered: the run ends here
AllDone ==
  /\ \A r \in Requests : pc[r] = "done"
  /\ UNCHANGED vars

Next ==
  \/ \E r \in Requests : Start(r) \/ Handle(r) \/ DbError(r) \/ Crash(r)
  \/ Tick
  \/ Operate
  \/ AllDone

Spec == Init /\ [][Next]_vars

-----------------------------------------------------------------------------
(* Properties.                                                             *)

StepsOf(op) ==
  CASE op = "register" -> {"findEmail", "insertUser", "sign", "issue"}
    [] op = "login"    -> {"findEmail", "sign", "issue"}
    [] op = "refresh"  -> {"findToken", "findUser", "revoke", "sign", "issue"}
    [] op = "call"     -> {"findUser"}
    [] OTHER           -> {}

\* The variables have their types, and a handler is at a step of its endpoint.
TypeOK ==
  /\ users \in [Users -> [state : {"absent", "live", "deleted"}, email : Emails,
                          role : Roles]]
  /\ tokens \in [Users -> [state : {"absent", "valid", "revoked"},
                           owner : Users \union {"none"}, expires : Nat]]
  /\ access \in [Users -> [sub : Users \union {"none"}, role : Roles, iat : Nat]]
  /\ now \in Instants
  /\ deployment \in Deployments
  /\ pc \in [Requests -> Steps \union {"idle", "done"}]
  /\ input \in [Requests -> Inputs \union {NoInput}]
  /\ user \in [Requests -> [id : Users \union {"none"}, role : Roles]]
  /\ read \in [Requests -> Instants]
  /\ status \in [Requests -> Codes \union {"none"}]
  /\ \A r \in Requests :
       /\ pc[r] \in Steps => pc[r] \in StepsOf(input[r].op)
       /\ pc[r] = "idle" <=> input[r] = NoInput
       /\ pc[r] = "done" <=> status[r] # "none"

\* No two users, removed ones included, ever have the same email, however the
\* check-then-insert windows of registrations overlap.
UniqueEmails ==
  \A u, v \in Users :
    /\ u # v
    /\ users[u].state # "absent"
    /\ users[v].state # "absent"
    => users[u].email # users[v].email

Failed(r) == status[r] \in {"500", "lost"}

\* A client that is answered 200 or 201 has a refresh token that is stored, for
\* the user it proved to be; any other answer but a failure left no user and no
\* token behind.
AnswersMatchTables ==
  \A r \in Requests :
    LET in    == input[r]
        owner == tokens[r].owner
    IN
    /\ in.op \in {"register", "login", "refresh"} /\ status[r] \in {"200", "201"} =>
         /\ tokens[r].state # "absent"
         /\ access[r].sub = owner
         /\ in.op = "register" => owner = r
         /\ in.op = "login"    => users[owner].email = Lower[in.email]
         /\ in.op = "refresh"  => owner = tokens[in.token].owner
    /\ users[r].state # "absent" \/ tokens[r].state # "absent" =>
         pc[r] \in Steps \/ Failed(r) \/ status[r] \in {"200", "201"}

\* A refresh token is only ever given up for a new one: a revoked token was
\* redeemed by a request that is still running, failed, or got a token for the
\* same user. A failure between the two calls is what may end a session.
RevokedForANewOne ==
  \A k \in Users :
    tokens[k].state = "revoked" =>
      \E r \in Requests :
        /\ input[r].op = "refresh" /\ input[r].token = k
        /\ \/ pc[r] \in {"sign", "issue"}
           \/ Failed(r)
           \/ tokens[r].state # "absent" /\ tokens[r].owner = tokens[k].owner

\* Two refreshes may both redeem a token, but only while they overlap: once one
\* of them is answered, the token is accepted no more.
RedeemedOnlyInOverlap ==
  [][\A r, q \in Requests :
       /\ pc[r] = "findToken" /\ pc'[r] = "findUser"
       /\ input[q].op = "refresh" /\ input[q].token = input[r].token
       => status[q] # "200"]_vars

\* A 401 is true of the present: the refresh token is revoked or expired, or its
\* user was removed.
RefreshRefusalsAreTrue ==
  \A r \in Requests :
    input[r].op = "refresh" /\ status[r] = "401" =>
      LET k == input[r].token IN
      \/ tokens[k].state = "revoked"
      \/ now >= tokens[k].expires
      \/ ~Live(tokens[k].owner)

\* Rights end at once: a call that is let through belongs to a user who is there,
\* with the role it needs, at the moment the guards decide. The roles in the
\* access token may be old and are never trusted.
RightsAreCurrent ==
  [][\A r \in Requests :
       /\ input[r].op = "call"
       /\ status[r] = "none" /\ status'[r] = "200"
       => LET u == access[input[r].token].sub IN
          Live(u) /\ (input[r].needs = "admin" => users[u].role = "admin")]_vars

\* An access token works as long as the client was told: a call is only refused
\* with 401 when expiresIn has passed or the user was removed.
AccessLastsAsTold ==
  \A r \in Requests :
    input[r].op = "call" /\ status[r] = "401" =>
      LET token == access[input[r].token] IN
      now >= token.iat + ToldFor \/ ~Live(token.sub)

\* ... which holds where JWT_EXPIRES_IN_SECONDS is left to its default.
DefaultAccessLastsAsTold == deployment.expiresIn = "default" => AccessLastsAsTold
=============================================================================
