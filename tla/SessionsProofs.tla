--------------------------- MODULE SessionsProofs ---------------------------
(***************************************************************************)
(* Proofs about Sessions, for every set of users, inputs, instants and     *)
(* faults, and for every deployment.                                       *)
(***************************************************************************)
EXTENDS Sessions, TLAPS

Step(r) == Start(r) \/ Handle(r) \/ DbError(r) \/ Crash(r)

Stored(k)     == tokens[k].state # "absent"
Registered(u) == users[u].state # "absent"

\* A stored refresh token and the access token made with it are of one user
TokenOK(k) ==
  Stored(k) => tokens[k].owner \in Users /\ access[k].sub = tokens[k].owner

\* What a handler has in its memory, and what it has stored so far
RequestOK(r) ==
  LET in == input[r] IN
  /\ pc[r] \in Steps \union {"idle"} => ~Stored(r)
  /\ pc[r] \in {"idle", "findEmail", "insertUser"} => ~Registered(r)
  /\ in.op \in {"login", "refresh", "call"} => ~Registered(r)
  /\ in.op \in {"refresh", "call"} => in.token \in Users /\ Stored(in.token)
  /\ pc[r] \in {"sign", "issue"} => user[r].id \in Users
  /\ pc[r] = "issue" => access[r].sub = user[r].id
  /\ in.op = "register" /\ pc[r] \in {"sign", "issue"} =>
       /\ user[r].id = r
       /\ Registered(r) /\ users[r].email = Lower[in.email]
  /\ in.op = "login" /\ pc[r] \in {"sign", "issue"} =>
       /\ Registered(user[r].id)
       /\ users[user[r].id].email = Lower[in.email]
  /\ in.op = "refresh" /\ pc[r] \in {"findUser", "revoke", "sign", "issue"} =>
       user[r].id = tokens[in.token].owner
  /\ in.op # "call" /\ status[r] \in {"200", "201"} =>
       /\ Stored(r)
       /\ in.op = "register" => tokens[r].owner = r
       /\ in.op = "login" =>
            /\ Registered(tokens[r].owner)
            /\ users[tokens[r].owner].email = Lower[in.email]
       /\ in.op = "refresh" => tokens[r].owner = tokens[in.token].owner
  /\ status[r] \in {"401", "403", "409"} => ~Stored(r) /\ ~Registered(r)

SessionsInv ==
  /\ TypeOK
  /\ \A k \in Users : TokenOK(k)
  /\ \A r \in Requests : RequestOK(r)

LEMMA InputFacts ==
  ASSUME NEW in \in Inputs
  PROVE  /\ in.op \in {"register", "login", "refresh", "call"}
         /\ in.op \in {"register", "login"} => in.email \in RawEmails
         /\ in.op \in {"refresh", "call"} => in.token \in Users
BY SettingsAssumption DEF InputRecords

LEMMA AtStep ==
  ASSUME TypeOK, NEW r \in Requests, pc[r] \in Steps
  PROVE  input[r] \in Inputs /\ pc[r] \in StepsOf(input[r].op) /\ status[r] = "none"
<1>1. pc[r] # "idle" /\ pc[r] # "done"
  BY DEF Steps
<1> QED
  BY <1>1 DEF TypeOK

\* Which endpoints have a step, read from the step.
LEMMA StepsFacts ==
  ASSUME NEW op \in {"register", "login", "refresh", "call"}
  PROVE  /\ "findEmail" \in StepsOf(op) <=> op \in {"register", "login"}
         /\ "insertUser" \in StepsOf(op) <=> op = "register"
         /\ "findToken" \in StepsOf(op) <=> op = "refresh"
         /\ "findUser" \in StepsOf(op) <=> op \in {"refresh", "call"}
         /\ "revoke" \in StepsOf(op) <=> op = "refresh"
         /\ "sign" \in StepsOf(op) <=> op # "call"
         /\ "issue" \in StepsOf(op) <=> op # "call"
BY DEF StepsOf

LEMMA NobodyFacts == Nobody.id = "none" /\ Nobody.role \in Roles
BY DEF Nobody, Roles

-----------------------------------------------------------------------------
(* Types.                                                                  *)

\* The part of TypeOK about the handlers, and the part about the tables
HandlersOK ==
  /\ now \in Instants
  /\ deployment \in Deployments
  /\ pc \in [Requests -> Steps \union {"idle", "done"}]
  /\ input \in [Requests -> Inputs \union {NoInput}]
  /\ user \in [Requests -> [id : Users \union {"none"}, role : Roles]]
  /\ read \in [Requests -> Instants]
  /\ status \in [Requests -> Codes \union {"none"}]
  /\ \A r \in Requests :
       /\ pc[r] \in Steps => pc[r] \in StepsOf(input[r].op)
       /\ pc[r] = "idle" <=> input[r] = NoInput
       /\ pc[r] = "done" <=> status[r] # "none"

UserRows  == [state : {"absent", "live", "deleted"}, email : Emails, role : Roles]
TokenRows == [state : {"absent", "valid", "revoked"},
              owner : Users \union {"none"}, expires : Nat]
Accesses  == [sub : Users \union {"none"}, role : Roles, iat : Nat]

TablesOK ==
  /\ users \in [Users -> UserRows]
  /\ tokens \in [Users -> TokenRows]
  /\ access \in [Users -> Accesses]

LEMMA TypeParts == TypeOK <=> HandlersOK /\ TablesOK
BY DEF TypeOK, HandlersOK, TablesOK, UserRows, TokenRows, Accesses

LEMMA ContinueOK ==
  ASSUME HandlersOK, NEW r \in Requests, pc[r] \in Steps,
         NEW step \in Steps, step \in StepsOf(input[r].op),
         NEW u \in [id : Users \union {"none"}, role : Roles],
         Continue(r, step, u)
  PROVE  HandlersOK'
<1>1. step # "done" /\ step # "idle" /\ pc[r] # "done" /\ pc[r] # "idle"
  BY DEF Steps
<1> QED
  BY <1>1, SettingsAssumption DEF HandlersOK, Continue

LEMMA FinishOK ==
  ASSUME HandlersOK, NEW r \in Requests, pc[r] \in Steps,
         NEW code \in Codes, Finish(r, code)
  PROVE  HandlersOK'
<1>1. "done" \notin Steps /\ "idle" \notin Steps /\ "none" \notin Codes
  BY DEF Steps, Codes
<1>2. Nobody \in [id : Users \union {"none"}, role : Roles]
  BY DEF Nobody, Roles
<1> QED
  BY <1>1, <1>2, SettingsAssumption DEF HandlersOK, Finish

LEMMA UnacknowledgedOK ==
  ASSUME HandlersOK, NEW r \in Requests, pc[r] \in Steps, Unacknowledged(r)
  PROVE  HandlersOK' /\ (Finish(r, "500") \/ Finish(r, "lost"))
BY FinishOK DEF Unacknowledged, Codes

LEMMA RequestsAreUsers ==
  ASSUME NEW r \in Requests
  PROVE  r \in Users /\ r # "none"
BY UsersAssumption DEF Users

LEMMA StartOK ==
  ASSUME SessionsInv, NEW r \in Requests, Start(r)
  PROVE  HandlersOK' /\ TablesOK' /\ RequestOK(r)'
<1>1. HandlersOK /\ TablesOK /\ RequestOK(r) /\ pc[r] = "idle"
  BY TypeParts DEF SessionsInv, Start
<1>2. PICK in \in Inputs :
        /\ Sendable(in)
        /\ input' = [input EXCEPT ![r] = in]
        /\ \/ /\ pc' = [pc EXCEPT ![r] = "done"]
              /\ status' = [status EXCEPT ![r] = "401"]
              /\ in.op = "call"
              /\ UNCHANGED read
           \/ /\ pc' = [pc EXCEPT ![r] = FirstStep(in)]
              /\ read' = [read EXCEPT ![r] = IF FirstStep(in) \in Timed THEN now ELSE 0]
              /\ UNCHANGED status
  BY DEF Start
<1>3. UNCHANGED <<users, tokens, access, now, deployment, user>>
  BY DEF Start, tables
<1>4. in.op \in {"register", "login", "refresh", "call"} /\ in # NoInput
  BY InputFacts DEF NoInput
<1>5. /\ FirstStep(in) \in {"findEmail", "findToken", "findUser"}
      /\ FirstStep(in) \in Steps /\ FirstStep(in) \in StepsOf(in.op)
      /\ FirstStep(in) = "findUser" <=> in.op = "call"
  BY <1>4 DEF FirstStep, StepsOf, Steps
<1>6. status[r] = "none" /\ "idle" \notin Steps /\ "done" \notin Steps
  BY <1>1 DEF HandlersOK, Steps
<1>7. HandlersOK'
  <2>1. read' \in [Requests -> Instants]
    BY <1>1, <1>2, SettingsAssumption DEF HandlersOK
  <2>2. CASE pc' = [pc EXCEPT ![r] = "done"] /\ status' = [status EXCEPT ![r] = "401"]
    BY <1>1, <1>2, <1>3, <1>4, <1>6, <2>1, <2>2 DEF HandlersOK, Codes
  <2>3. CASE pc' = [pc EXCEPT ![r] = FirstStep(in)] /\ UNCHANGED status
    BY <1>1, <1>2, <1>3, <1>4, <1>5, <1>6, <2>1, <2>3 DEF HandlersOK
  <2> QED
    BY <1>2, <2>2, <2>3
<1>8. TablesOK'
  BY <1>1, <1>3 DEF TablesOK
<1>9. RequestOK(r)'
  <2>1. input'[r] = in /\ pc'[r] \in {"done", "findEmail", "findToken", "findUser"}
    BY <1>1, <1>2, <1>5 DEF HandlersOK
  <2>2. in.op \in {"refresh", "call"} => in.token \in Users /\ Stored(in.token)
    <3>1. SUFFICES ASSUME in.op \in {"refresh", "call"}
                   PROVE  in.token \in Users /\ Stored(in.token)
      OBVIOUS
    <3>2. in.token \in Users /\ Received(in.token)
      BY <1>2, <3>1, InputFacts DEF Sendable
    <3> QED
      BY <3>2 DEF Received, Stored, SessionsInv, RequestOK
  <2>3. status'[r] = "none" \/ in.op = "call"
    BY <1>1, <1>2, <1>6 DEF HandlersOK
  <2>4. ~Stored(r) /\ ~Registered(r)
    BY <1>1 DEF RequestOK
  <2>5. pc'[r] = "findUser" => in.op = "call"
    BY <1>1, <1>2, <1>5 DEF HandlersOK
  <2> QED
    BY <1>3, <2>1, <2>2, <2>3, <2>4, <2>5 DEF RequestOK, Stored, Registered
<1> QED
  BY <1>7, <1>8, <1>9

\* The end of a handler that has changed no table.
LEMMA QuietFinishOK ==
  ASSUME SessionsInv, NEW r \in Requests, pc[r] \in Steps,
         NEW code \in Codes \ {"200", "201"}, Finish(r, code), UNCHANGED tables,
         code \in {"500", "lost"} \/ ~Registered(r)
  PROVE  HandlersOK' /\ TablesOK' /\ RequestOK(r)'
<1>1. HandlersOK /\ TablesOK /\ RequestOK(r)
  BY TypeParts DEF SessionsInv
<1>2. HandlersOK' /\ TablesOK'
  BY <1>1, FinishOK DEF TablesOK, tables
<1>3. pc'[r] = "done" /\ input' = input /\ status'[r] = code
  BY <1>1 DEF Finish, HandlersOK
<1>4. ~Stored(r)' /\ (Registered(r) <=> Registered(r)')
  BY <1>1 DEF RequestOK, Stored, Registered, tables
<1> QED
  BY <1>1, <1>2, <1>3, <1>4 DEF RequestOK, Stored, Registered, tables

LEMMA FindEmailOK ==
  ASSUME SessionsInv, NEW r \in Requests, FindEmail(r)
  PROVE  HandlersOK' /\ TablesOK' /\ RequestOK(r)'
<1> DEFINE email == Lower[input[r].email]
<1>1. HandlersOK /\ TablesOK /\ RequestOK(r)
  BY TypeParts DEF SessionsInv
<1>2. pc[r] = "findEmail" /\ pc[r] \in Steps /\ UNCHANGED tables
  BY DEF FindEmail, Steps
<1>3. input[r] \in Inputs /\ input[r].op \in {"register", "login"} /\ status[r] = "none"
  BY <1>1, <1>2, AtStep, InputFacts, StepsFacts, TypeParts
<1>4. CASE Finish(r, "409") \/ Finish(r, "401")
  BY <1>1, <1>2, <1>4, QuietFinishOK DEF Codes, RequestOK
<1>5. CASE input[r].op = "register" /\ Continue(r, "insertUser", Nobody)
  <2>1. "insertUser" \in Steps /\ "insertUser" \in StepsOf(input[r].op)
    BY <1>5 DEF Steps, StepsOf
  <2>2. Nobody \in [id : Users \union {"none"}, role : Roles]
    BY DEF Nobody, Roles
  <2>3. HandlersOK' /\ TablesOK'
    BY <1>1, <1>2, <1>5, <2>1, <2>2, ContinueOK DEF TablesOK, tables
  <2>4. pc'[r] = "insertUser" /\ UNCHANGED <<input, status>>
    BY <1>1, <1>5 DEF Continue, HandlersOK
  <2> QED
    BY <1>1, <1>2, <1>3, <1>5, <2>3, <2>4
    DEF RequestOK, Stored, Registered, tables, Steps
<1>6. CASE input[r].op = "login"
           /\ \E u \in Users : Live(u) /\ users[u].email = email /\ Continue(r, "sign", Row(u))
  <2>1. PICK u \in Users : Live(u) /\ users[u].email = email /\ Continue(r, "sign", Row(u))
    BY <1>6
  <2>2. "sign" \in Steps /\ "sign" \in StepsOf(input[r].op)
    BY <1>6 DEF Steps, StepsOf
  <2>3. Row(u) \in [id : Users \union {"none"}, role : Roles] /\ Row(u).id = u
    BY <1>1 DEF Row, TablesOK, UserRows
  <2>4. HandlersOK' /\ TablesOK'
    BY <1>1, <1>2, <2>1, <2>2, <2>3, ContinueOK DEF TablesOK, tables
  <2>5. pc'[r] = "sign" /\ user'[r].id = u /\ UNCHANGED <<input, status>>
    BY <1>1, <2>1, <2>3 DEF Continue, HandlersOK
  <2>6. Registered(u)
    BY <2>1 DEF Live, Registered
  <2> QED
    BY <1>1, <1>2, <1>3, <1>6, <2>1, <2>4, <2>5, <2>6
    DEF RequestOK, Stored, Registered, tables, Steps
<1> QED
  BY <1>3, <1>4, <1>5, <1>6 DEF FindEmail

LEMMA InsertUserOK ==
  ASSUME SessionsInv, NEW r \in Requests, InsertUser(r)
  PROVE  HandlersOK' /\ TablesOK' /\ RequestOK(r)'
<1> DEFINE row == [state |-> "live", email |-> Lower[input[r].email], role |-> "customer"]
           me  == [id |-> r, role |-> "customer"]
<1>1. HandlersOK /\ TablesOK /\ RequestOK(r)
  BY TypeParts DEF SessionsInv
<1>2. pc[r] = "insertUser" /\ pc[r] \in Steps /\ UNCHANGED <<tokens, access>>
  BY DEF InsertUser, Steps
<1>3. input[r] \in Inputs /\ input[r].op = "register" /\ status[r] = "none"
  BY <1>1, <1>2, AtStep, InputFacts, StepsFacts, TypeParts
<1>4. CASE Finish(r, "500") /\ UNCHANGED users
  BY <1>2, <1>4, QuietFinishOK DEF Codes, tables
<1>5. CASE /\ users' = [users EXCEPT ![r] = row]
           /\ Continue(r, "sign", me) \/ Unacknowledged(r)
  <2>1. row \in UserRows /\ row.state = "live" /\ row.email = Lower[input[r].email]
    BY <1>3, InputFacts, EmailsAssumption DEF UserRows, Emails, Roles
  <2>2. users' \in [Users -> UserRows] /\ users'[r] = row
    BY <1>1, <1>5, <2>1, RequestsAreUsers DEF TablesOK
  <2>3. TablesOK'
    BY <1>1, <1>2, <2>2 DEF TablesOK
  <2>4. me \in [id : Users \union {"none"}, role : Roles] /\ me.id = r
    BY RequestsAreUsers DEF Roles
  <2>5. "sign" \in Steps /\ "sign" \in StepsOf(input[r].op)
    BY <1>3 DEF Steps, StepsOf
  <2>6. CASE Continue(r, "sign", me)
    <3>1. HandlersOK'
      BY <1>1, <1>2, <2>4, <2>5, <2>6, ContinueOK
    <3>2. pc'[r] = "sign" /\ user'[r].id = r /\ UNCHANGED <<input, status>>
      BY <1>1, <2>4, <2>6 DEF Continue, HandlersOK
    <3> HIDE DEF row, me
    <3> QED
      BY <1>1, <1>2, <1>3, <2>1, <2>2, <2>3, <3>1, <3>2, RequestsAreUsers
      DEF RequestOK, Stored, Registered
  <2>7. CASE Unacknowledged(r)
    <3>1. HandlersOK'
      BY <1>1, <1>2, <2>7, UnacknowledgedOK
    <3>2. pc'[r] = "done" /\ UNCHANGED input /\ status'[r] \in {"500", "lost"}
      BY <1>1, <1>2, <2>7, UnacknowledgedOK DEF Finish, HandlersOK
    <3> QED
      BY <1>1, <1>2, <1>3, <2>3, <3>1, <3>2 DEF RequestOK, Stored, Registered
  <2> QED
    BY <1>5, <2>6, <2>7
<1> QED
  BY <1>4, <1>5 DEF InsertUser

LEMMA FindTokenOK ==
  ASSUME SessionsInv, NEW r \in Requests, FindToken(r)
  PROVE  HandlersOK' /\ TablesOK' /\ RequestOK(r)'
<1> DEFINE k == input[r].token
           u == [Nobody EXCEPT !.id = tokens[k].owner]
<1>1. HandlersOK /\ TablesOK /\ RequestOK(r)
  BY TypeParts DEF SessionsInv
<1>2. pc[r] = "findToken" /\ pc[r] \in Steps /\ UNCHANGED tables
  BY DEF FindToken, Steps
<1>3. input[r] \in Inputs /\ input[r].op = "refresh" /\ status[r] = "none"
  BY <1>1, <1>2, AtStep, InputFacts, StepsFacts, TypeParts
<1>4. CASE Finish(r, "401")
  BY <1>1, <1>2, <1>3, <1>4, QuietFinishOK DEF Codes, RequestOK
<1>5. CASE Continue(r, "findUser", u)
  <2>1. "findUser" \in Steps /\ "findUser" \in StepsOf(input[r].op)
    BY <1>3 DEF Steps, StepsOf
  <2>2. u \in [id : Users \union {"none"}, role : Roles] /\ u.id = tokens[k].owner
    BY <1>1, <1>3, InputFacts DEF TablesOK, TokenRows, Nobody, Roles
  <2>3. HandlersOK' /\ TablesOK'
    BY <1>1, <1>2, <1>5, <2>1, <2>2, ContinueOK DEF TablesOK, tables
  <2>4. pc'[r] = "findUser" /\ user'[r].id = tokens[k].owner /\ UNCHANGED <<input, status>>
    BY <1>1, <1>5, <2>2 DEF Continue, HandlersOK
  <2> QED
    BY <1>1, <1>2, <1>3, <2>3, <2>4 DEF RequestOK, Stored, Registered, tables
<1> QED
  BY <1>4, <1>5 DEF FindToken

LEMMA FindUserOK ==
  ASSUME SessionsInv, NEW r \in Requests, FindUser(r)
  PROVE  HandlersOK' /\ TablesOK' /\ RequestOK(r)'
<1> DEFINE in == input[r]
<1>1. HandlersOK /\ TablesOK /\ RequestOK(r)
  BY TypeParts DEF SessionsInv
<1>2. pc[r] = "findUser" /\ pc[r] \in Steps /\ UNCHANGED tables
  BY DEF FindUser, Steps
<1>3. in \in Inputs /\ in.op \in {"refresh", "call"} /\ status[r] = "none"
  BY <1>1, <1>2, AtStep, InputFacts, StepsFacts, TypeParts
<1>4. CASE Finish(r, "401") \/ Finish(r, "403")
  BY <1>1, <1>2, <1>3, <1>4, QuietFinishOK DEF Codes, RequestOK
<1>5. CASE in.op = "call" /\ Finish(r, "200")
  <2>1. HandlersOK' /\ TablesOK'
    BY <1>1, <1>2, <1>5, FinishOK DEF TablesOK, tables, Codes
  <2>2. pc'[r] = "done" /\ UNCHANGED input
    BY <1>1, <1>5 DEF Finish, HandlersOK
  <2> QED
    BY <1>1, <1>2, <1>5, <2>1, <2>2 DEF RequestOK, Stored, Registered, tables
<1>6. CASE in.op = "refresh" /\ Continue(r, "revoke", Row(user[r].id))
  <2>1. "revoke" \in Steps /\ "revoke" \in StepsOf(in.op)
    BY <1>6 DEF Steps, StepsOf
  <2>2. user[r].id \in Users
    BY <1>1, <1>2, <1>3, <1>6, InputFacts DEF RequestOK, SessionsInv, TokenOK
  <2>3. /\ Row(user[r].id) \in [id : Users \union {"none"}, role : Roles]
        /\ Row(user[r].id).id = user[r].id
    BY <1>1, <2>2 DEF Row, TablesOK, UserRows
  <2>4. HandlersOK' /\ TablesOK'
    BY <1>1, <1>2, <1>6, <2>1, <2>3, ContinueOK DEF TablesOK, tables
  <2>5. pc'[r] = "revoke" /\ user'[r].id = user[r].id /\ UNCHANGED <<input, status>>
    BY <1>1, <1>6, <2>3 DEF Continue, HandlersOK
  <2> QED
    BY <1>1, <1>2, <1>3, <1>6, <2>4, <2>5 DEF RequestOK, Stored, Registered, tables
<1> QED
  BY <1>3, <1>4, <1>5, <1>6 DEF FindUser

LEMMA RevokeOK ==
  ASSUME SessionsInv, NEW r \in Requests, Revoke(r)
  PROVE  HandlersOK' /\ TablesOK' /\ RequestOK(r)'
<1> DEFINE k == input[r].token
<1>1. HandlersOK /\ TablesOK /\ RequestOK(r)
  BY TypeParts DEF SessionsInv
<1>2. pc[r] = "revoke" /\ pc[r] \in Steps /\ UNCHANGED <<users, access>>
  BY DEF Revoke, Steps
<1>3. input[r] \in Inputs /\ input[r].op = "refresh" /\ status[r] = "none" /\ k \in Users
  BY <1>1, <1>2, AtStep, InputFacts, StepsFacts, TypeParts
<1>4. /\ Stored(k) /\ k # r /\ ~Stored(r)
      /\ user[r].id = tokens[k].owner /\ tokens[k].owner \in Users
  BY <1>1, <1>2, <1>3 DEF RequestOK, SessionsInv, TokenOK
<1>5. /\ TablesOK'
      /\ tokens'[r] = tokens[r]
      /\ tokens'[k].state = "revoked" /\ tokens'[k].owner = tokens[k].owner
  BY <1>1, <1>2, <1>3, <1>4, RequestsAreUsers DEF Revoke, TablesOK, TokenRows
<1>6. CASE Continue(r, "sign", user[r])
  <2>1. "sign" \in Steps /\ "sign" \in StepsOf(input[r].op)
    BY <1>3 DEF Steps, StepsOf
  <2>2. HandlersOK'
    BY <1>1, <1>2, <1>6, <2>1, ContinueOK DEF HandlersOK
  <2>3. pc'[r] = "sign" /\ user'[r] = user[r] /\ UNCHANGED <<input, status>>
    BY <1>1, <1>6 DEF Continue, HandlersOK
  <2> QED
    BY <1>1, <1>2, <1>3, <1>4, <1>5, <2>2, <2>3 DEF RequestOK, Stored, Registered
<1>7. CASE Unacknowledged(r)
  <2>1. HandlersOK'
    BY <1>1, <1>2, <1>7, UnacknowledgedOK
  <2>2. pc'[r] = "done" /\ UNCHANGED input /\ status'[r] \in {"500", "lost"}
    BY <1>1, <1>2, <1>7, UnacknowledgedOK DEF Finish, HandlersOK
  <2> QED
    BY <1>1, <1>2, <1>3, <1>4, <1>5, <2>1, <2>2 DEF RequestOK, Stored, Registered
<1> QED
  BY <1>6, <1>7 DEF Revoke

LEMMA SignOK ==
  ASSUME SessionsInv, NEW r \in Requests, Sign(r)
  PROVE  HandlersOK' /\ TablesOK' /\ RequestOK(r)'
<1> DEFINE signed == [sub |-> user[r].id, role |-> user[r].role, iat |-> now]
<1>1. HandlersOK /\ TablesOK /\ RequestOK(r)
  BY TypeParts DEF SessionsInv
<1>2. pc[r] = "sign" /\ pc[r] \in Steps /\ UNCHANGED <<users, tokens>>
  BY DEF Sign, Steps
<1>3. input[r] \in Inputs /\ input[r].op # "call" /\ status[r] = "none"
  BY <1>1, <1>2, AtStep, InputFacts, StepsFacts, TypeParts
<1>4. input[r].op \in {"register", "login", "refresh"}
  BY <1>3, InputFacts
<1>5. signed \in Accesses /\ signed.sub = user[r].id
  BY <1>1, SettingsAssumption DEF HandlersOK, Accesses
<1>6. TablesOK' /\ access'[r].sub = user[r].id
  BY <1>1, <1>2, <1>5, RequestsAreUsers DEF Sign, TablesOK
<1>7. "issue" \in Steps /\ "issue" \in StepsOf(input[r].op)
  BY <1>4 DEF Steps, StepsOf
<1>8. HandlersOK'
  BY <1>1, <1>2, <1>7, ContinueOK DEF Sign, HandlersOK
<1>9. pc'[r] = "issue" /\ user'[r] = user[r] /\ UNCHANGED <<input, status>>
  BY <1>1 DEF Sign, Continue, HandlersOK
<1> QED
  BY <1>1, <1>2, <1>4, <1>6, <1>8, <1>9 DEF RequestOK, Stored, Registered

LEMMA IssueOK ==
  ASSUME SessionsInv, NEW r \in Requests, Issue(r)
  PROVE  HandlersOK' /\ TablesOK' /\ RequestOK(r)'
<1> DEFINE row == [state |-> "valid", owner |-> user[r].id,
                   expires |-> read[r] + RefreshTtl]
<1>1. HandlersOK /\ TablesOK /\ RequestOK(r)
  BY TypeParts DEF SessionsInv
<1>2. pc[r] = "issue" /\ pc[r] \in Steps /\ UNCHANGED <<users, access>>
  BY DEF Issue, Steps
<1>3. input[r] \in Inputs /\ input[r].op # "call" /\ status[r] = "none"
  BY <1>1, <1>2, AtStep, InputFacts, StepsFacts, TypeParts
<1>4. read[r] + RefreshTtl \in Nat /\ user[r].id \in Users
  <2>1. read[r] \in Nat
    BY <1>1, SettingsAssumption DEF HandlersOK
  <2>2. user[r].id \in Users
    BY <1>1, <1>2 DEF RequestOK
  <2> QED
    BY <2>1, <2>2, SettingsAssumption
<1>5. row \in TokenRows /\ row.state = "valid" /\ row.owner = user[r].id
  BY <1>4 DEF TokenRows
<1>6. tokens' = [tokens EXCEPT ![r] = row]
  BY DEF Issue
<1>7. TablesOK' /\ tokens'[r] = row
  BY <1>1, <1>2, <1>5, <1>6, RequestsAreUsers DEF TablesOK
<1>8. PICK code \in {"200", "201", "500", "lost"} : Finish(r, code)
  BY DEF Issue, Unacknowledged
<1>9. HandlersOK' /\ pc'[r] = "done" /\ UNCHANGED input
  <2>1. HandlersOK'
    BY <1>1, <1>2, <1>8, FinishOK DEF Codes
  <2> QED
    BY <1>1, <1>8, <2>1 DEF Finish, HandlersOK
<1>10. \A k \in Users \ {r} : tokens'[k] = tokens[k]
  BY <1>1, <1>6 DEF TablesOK
<1>11. Stored(r)' /\ ~Stored(r)
  BY <1>1, <1>2, <1>5, <1>7 DEF Stored, RequestOK
<1>12. status'[r] \in {"200", "201", "500", "lost"}
  BY <1>1, <1>8 DEF Finish, HandlersOK
<1>13. input[r].op \in {"register", "login", "refresh"}
  BY <1>3, InputFacts
<1>14. tokens'[r].owner = user[r].id
  BY <1>5, <1>7
<1> HIDE DEF row
<1>15. RequestOK(r)'
  <2>1. input[r].op = "refresh" =>
          /\ input[r].token \in Users \ {r} /\ Stored(input[r].token)
          /\ user[r].id = tokens[input[r].token].owner
    BY <1>1, <1>2, <1>11 DEF RequestOK
  <2> QED
    BY <1>1, <1>2, <1>9, <1>10, <1>11, <1>12, <1>13, <1>14, <2>1
    DEF RequestOK, Stored, Registered, Steps
<1> QED
  BY <1>7, <1>9, <1>15

-----------------------------------------------------------------------------
(* A step of one request, seen from the others.                            *)

\* What a step of r leaves alone: the memory of the other requests ...
MemoryKept(r) ==
  \A q \in Requests \ {r} :
    /\ pc'[q] = pc[q] /\ input'[q] = input[q]
    /\ user'[q] = user[q] /\ status'[q] = status[q]

\* ... their rows and access tokens, and what a stored row says of its user or
\* owner.
TablesKept(r) ==
  /\ \A u \in Users \ {r} :
       /\ access'[u] = access[u]
       /\ Registered(u)' <=> Registered(u)
       /\ Stored(u)' <=> Stored(u)
  /\ \A u \in Users : Registered(u) => Registered(u)' /\ users'[u].email = users[u].email
  /\ \A k \in Users : Stored(k) => Stored(k)' /\ tokens'[k].owner = tokens[k].owner

LEMMA OthersKeep ==
  ASSUME SessionsInv, NEW r \in Requests, MemoryKept(r), TablesKept(r),
         NEW q \in Requests \ {r}
  PROVE  RequestOK(q)'
<1>1. RequestOK(q)
  BY DEF SessionsInv
<1>2. q \in Users /\ (Stored(q) => tokens[q].owner \in Users)
  BY RequestsAreUsers DEF SessionsInv, TokenOK
<1> QED
  BY <1>1, <1>2 DEF RequestOK, MemoryKept, TablesKept

LEMMA StepKeepsMemory ==
  ASSUME HandlersOK, NEW r \in Requests, Step(r)
  PROVE  MemoryKept(r)
<1>1. CASE Start(r)
  BY <1>1 DEF Start, HandlersOK, MemoryKept
<1>2. ASSUME NEW step, NEW u, Continue(r, step, u)
      PROVE  MemoryKept(r)
  BY <1>2 DEF Continue, HandlersOK, MemoryKept
<1>3. ASSUME NEW code, Finish(r, code)
      PROVE  MemoryKept(r)
  BY <1>3 DEF Finish, HandlersOK, MemoryKept
<1>4. CASE DbError(r) \/ Crash(r)
  BY <1>3, <1>4 DEF DbError, Crash
<1>5. Unacknowledged(r) => MemoryKept(r)
  BY <1>3 DEF Unacknowledged
<1>6. CASE FindEmail(r) \/ FindToken(r) \/ FindUser(r)
  BY <1>2, <1>3, <1>6 DEF FindEmail, FindToken, FindUser
<1>7. CASE InsertUser(r) \/ Revoke(r) \/ Sign(r) \/ Issue(r)
  BY <1>2, <1>3, <1>5, <1>7 DEF InsertUser, Revoke, Sign, Issue
<1> QED
  BY <1>1, <1>4, <1>6, <1>7 DEF Step, Handle

LEMMA StepKeepsTables ==
  ASSUME SessionsInv, NEW r \in Requests, Step(r)
  PROVE  TablesKept(r)
<1>1. HandlersOK /\ TablesOK /\ RequestOK(r) /\ r \in Users
  BY TypeParts, RequestsAreUsers DEF SessionsInv
<1>2. CASE UNCHANGED tables
  BY <1>2 DEF tables, TablesKept, Stored, Registered
<1>3. CASE InsertUser(r)
  <2>1. UNCHANGED <<tokens, access>> /\ ~Registered(r)
    BY <1>1, <1>3 DEF InsertUser, RequestOK
  <2>2. \A u \in Users \ {r} : users'[u] = users[u]
    BY <1>1, <1>3 DEF InsertUser, TablesOK
  <2> QED
    BY <2>1, <2>2 DEF TablesKept, Stored, Registered
<1>4. CASE Revoke(r)
  <2>1. UNCHANGED <<users, access>>
    BY <1>4 DEF Revoke
  <2>2. pc[r] \in Steps /\ pc[r] = "revoke"
    BY <1>4 DEF Revoke, Steps
  <2>3. input[r].op = "refresh" /\ input[r].token \in Users
    BY <1>1, <2>2, AtStep, InputFacts, StepsFacts, TypeParts
  <2>4. Stored(input[r].token)
    BY <1>1, <2>3 DEF RequestOK
  <2>5. \A k \in Users :
          /\ tokens'[k].owner = tokens[k].owner
          /\ tokens'[k].state = IF k = input[r].token THEN "revoked" ELSE tokens[k].state
    BY <1>1, <1>4 DEF Revoke, TablesOK, TokenRows
  <2> QED
    BY <2>1, <2>4, <2>5 DEF TablesKept, Stored, Registered
<1>5. CASE Sign(r)
  BY <1>1, <1>5 DEF Sign, TablesOK, TablesKept, Stored, Registered
<1>6. CASE Issue(r)
  <2>1. UNCHANGED <<users, access>> /\ ~Stored(r)
    BY <1>1, <1>6 DEF Issue, RequestOK, Steps
  <2>2. \A k \in Users \ {r} : tokens'[k] = tokens[k]
    BY <1>1, <1>6 DEF Issue, TablesOK
  <2> QED
    BY <2>1, <2>2 DEF TablesKept, Stored, Registered
<1>7. CASE Start(r) \/ FindEmail(r) \/ FindToken(r) \/ FindUser(r) \/ DbError(r) \/ Crash(r)
  BY <1>2, <1>7 DEF Start, FindEmail, FindToken, FindUser, DbError, Crash
<1> QED
  BY <1>3, <1>4, <1>5, <1>6, <1>7 DEF Step, Handle

\* A stored token keeps its owner and its access token keeps its subject; the
\* one that r stores is for the user it signed the access token for.
LEMMA StepKeepsTokens ==
  ASSUME SessionsInv, NEW r \in Requests, Step(r), NEW k \in Users
  PROVE  TokenOK(k)'
<1>1. HandlersOK /\ TablesOK /\ RequestOK(r) /\ TokenOK(k) /\ TablesKept(r)
  BY TypeParts, StepKeepsTables DEF SessionsInv
<1>2. CASE k # r
  BY <1>1, <1>2 DEF TablesKept, TokenOK, Stored
<1>3. CASE k = r /\ Issue(r)
  <2>1. tokens'[r].owner = user[r].id
    BY <1>1, <1>3, RequestsAreUsers DEF Issue, TablesOK
  <2>2. user[r].id \in Users /\ access'[r].sub = user[r].id
    BY <1>1, <1>3 DEF Issue, RequestOK
  <2> QED
    BY <1>3, <2>1, <2>2 DEF TokenOK
<1>4. CASE k = r /\ ~Issue(r)
  <2>1. pc[r] \in Steps \union {"idle"}
    BY DEF Step, Start, Handle, FindEmail, InsertUser, FindToken, FindUser, Revoke, Sign,
           Issue, DbError, Crash, Steps
  <2>2. ~Stored(r) /\ r \in Users
    BY <1>1, <2>1, RequestsAreUsers DEF RequestOK
  <2>3. CASE Revoke(r)
    <3>1. pc[r] \in Steps /\ pc[r] = "revoke"
      BY <2>3 DEF Revoke, Steps
    <3>2. input[r].op = "refresh" /\ input[r].token \in Users
      BY <1>1, <3>1, AtStep, InputFacts, StepsFacts, TypeParts
    <3>3. input[r].token # r
      BY <1>1, <2>2, <3>2 DEF RequestOK
    <3> QED
      BY <1>1, <1>4, <2>2, <2>3, <3>3 DEF Revoke, TablesOK, TokenOK, Stored
  <2>4. CASE ~Revoke(r)
    <3>1. UNCHANGED tokens
      BY <1>4, <2>4 DEF Step, Start, Handle, FindEmail, InsertUser, FindToken, FindUser, Sign,
                        DbError, Crash, tables
    <3> QED
      BY <1>4, <2>2, <3>1 DEF TokenOK, Stored
  <2> QED
    BY <2>3, <2>4
<1> QED
  BY <1>2, <1>3, <1>4

-----------------------------------------------------------------------------
(* The invariant.                                                          *)

LEMMA InitInv == Init => SessionsInv
<1> SUFFICES ASSUME Init PROVE SessionsInv
  OBVIOUS
<1>1. HandlersOK
  BY SettingsAssumption DEF Init, HandlersOK, Nobody, Roles, Steps, Codes
<1>2. SeedUsers \in [Seeds -> [email : RawEmails, role : Roles]] /\ RefreshTtl \in Nat
  BY EmailsAssumption, SettingsAssumption
<1>3. TablesOK
  <2>1. NoUser \in UserRows /\ NoToken \in TokenRows /\ NoAccess \in Accesses
    BY DEF NoUser, NoToken, NoAccess, UserRows, TokenRows, Accesses, Emails, Roles
  <2>2. \A u \in Seeds :
          [state |-> "live", email |-> SeedUsers[u].email, role |-> SeedUsers[u].role]
            \in UserRows
    BY <1>2 DEF UserRows, Emails
  <2>3. \A u \in Seeds : [state |-> "valid", owner |-> u, expires |-> RefreshTtl] \in TokenRows
    BY <1>2 DEF TokenRows, Users
  <2>4. \A u \in Seeds : [sub |-> u, role |-> SeedUsers[u].role, iat |-> 0] \in Accesses
    BY <1>2 DEF Accesses, Users
  <2> QED
    BY <2>1, <2>2, <2>3, <2>4 DEF Init, TablesOK
<1>4. \A k \in Users : TokenOK(k)
  BY DEF Init, TokenOK, Stored, NoToken, Users
<1>5. \A r \in Requests : RequestOK(r)
  <2> TAKE r \in Requests
  <2>1. r \in Users \ Seeds
    BY UsersAssumption DEF Users
  <2>2. pc[r] = "idle" /\ input[r] = NoInput /\ status[r] = "none"
    BY DEF Init
  <2>3. ~Stored(r) /\ ~Registered(r)
    BY <2>1 DEF Init, Stored, Registered, NoToken, NoUser
  <2> QED
    BY <2>2, <2>3 DEF RequestOK, NoInput
<1> QED
  BY <1>1, <1>3, <1>4, <1>5, TypeParts DEF SessionsInv

\* A request's own step.
LEMMA StepOK ==
  ASSUME SessionsInv, NEW r \in Requests, Step(r)
  PROVE  HandlersOK' /\ TablesOK' /\ RequestOK(r)'
<1>1. CASE DbError(r) \/ Crash(r)
  <2>1. pc[r] \in Steps /\ UNCHANGED tables
    BY <1>1 DEF DbError, Crash
  <2>2. PICK code \in {"500", "lost"} : Finish(r, code)
    BY <1>1 DEF DbError, Crash
  <2> QED
    BY <2>1, <2>2, QuietFinishOK DEF Codes
<1> QED
  BY <1>1, StartOK, FindEmailOK, InsertUserOK, FindTokenOK, FindUserOK, RevokeOK, SignOK,
     IssueOK DEF Step, Handle

LEMMA NextInv == SessionsInv /\ [Next]_vars => SessionsInv'
<1> SUFFICES ASSUME SessionsInv, [Next]_vars
             PROVE  HandlersOK' /\ TablesOK' /\ (\A k \in Users : TokenOK(k)')
                    /\ (\A r \in Requests : RequestOK(r)')
  BY DEF SessionsInv, TypeOK, HandlersOK, TablesOK, UserRows, TokenRows, Accesses
<1>1. HandlersOK /\ TablesOK
  BY TypeParts DEF SessionsInv
<1>2. ASSUME NEW r \in Requests, Step(r)
      PROVE  HandlersOK' /\ TablesOK' /\ (\A k \in Users : TokenOK(k)')
             /\ (\A q \in Requests : RequestOK(q)')
  <2>1. HandlersOK' /\ TablesOK' /\ RequestOK(r)'
    BY <1>2, StepOK
  <2>2. \A k \in Users : TokenOK(k)'
    BY <1>2, StepKeepsTokens
  <2>3. \A q \in Requests \ {r} : RequestOK(q)'
    BY <1>1, <1>2, StepKeepsMemory, StepKeepsTables, OthersKeep
  <2> QED
    BY <2>1, <2>2, <2>3
<1>3. CASE Tick
  BY <1>1, <1>3 DEF Tick, tables, SessionsInv, HandlersOK, TablesOK, TokenOK, RequestOK,
                    Stored, Registered
<1>4. CASE Operate
  <2>1. UNCHANGED <<tokens, access, now, deployment, pc, input, user, read, status>>
    BY <1>4 DEF Operate
  <2>2. /\ users' \in [Users -> UserRows]
        /\ \A u \in Users : (Registered(u) <=> Registered(u)') /\ users'[u].email = users[u].email
    BY <1>1, <1>4, SettingsAssumption
    DEF Operate, TablesOK, UserRows, Registered, Live
  <2>3. HandlersOK' /\ TablesOK' /\ \A k \in Users : TokenOK(k)'
    BY <1>1, <2>1, <2>2 DEF SessionsInv, HandlersOK, TablesOK, TokenOK, Stored
  <2>4. ASSUME NEW r \in Requests
        PROVE  RequestOK(r)'
    <3>1. RequestOK(r) /\ r \in Users /\ (Stored(r) => tokens[r].owner \in Users)
      BY RequestsAreUsers DEF SessionsInv, TokenOK
    <3> QED
      BY <2>1, <2>2, <3>1 DEF RequestOK, Stored
  <2> QED
    BY <2>3, <2>4
<1>5. CASE UNCHANGED vars
  BY <1>1, <1>5 DEF vars, tables, SessionsInv, HandlersOK, TablesOK, TokenOK, RequestOK,
                    Stored, Registered
<1> QED
  BY <1>2, <1>3, <1>4, <1>5 DEF Next, Step, AllDone

\* What the handlers have in memory agrees with what the tables hold, in every
\* state that can be reached.
THEOREM SessionsInvariant == Spec => []SessionsInv
BY InitInv, NextInv, PTL DEF Spec

\* The handlers of AuthService and of the guards stay at steps of their endpoint,
\* and every row keeps its shape.
THEOREM SessionsTypeCorrect == Spec => []TypeOK
<1>1. SessionsInv => TypeOK
  BY DEF SessionsInv
<1> QED
  BY <1>1, SessionsInvariant, PTL

\* A 200 or a 201 comes with a refresh token that is stored, for the user the
\* client proved to be; a refusal has left no user and no token behind.
THEOREM AnswersAreTrue == Spec => []AnswersMatchTables
<1>1. SessionsInv => AnswersMatchTables
  <2> SUFFICES ASSUME SessionsInv, NEW r \in Requests
               PROVE  AnswersMatchTables!(r)
    BY DEF AnswersMatchTables
  <2>1. HandlersOK /\ RequestOK(r) /\ TokenOK(r)
    BY TypeParts, RequestsAreUsers DEF SessionsInv
  <2>2. pc[r] = "done" => status[r] \in Codes
    BY <2>1 DEF HandlersOK
  <2> QED
    BY <2>1, <2>2 DEF RequestOK, TokenOK, HandlersOK, Stored, Registered, Failed, Codes
<1> QED
  BY <1>1, SessionsInvariant, PTL

-----------------------------------------------------------------------------
(* Emails.                                                                 *)

LEMMA UniqueEmailsInit == Init => UniqueEmails
<1> SUFFICES ASSUME Init, NEW u \in Users, NEW v \in Users, u # v,
                    users[u].state # "absent", users[v].state # "absent"
             PROVE  users[u].email # users[v].email
  BY DEF UniqueEmails
<1>1. u \in Seeds /\ v \in Seeds
  BY DEF Init, NoUser
<1>2. users[u].email = SeedUsers[u].email /\ users[v].email = SeedUsers[v].email
  BY <1>1 DEF Init, NoUser
<1> QED
  BY <1>1, <1>2, EmailsAssumption

\* findByEmail may have been overtaken when a user is inserted: it is the unique
\* index that refuses the second row.
LEMMA UniqueEmailsNext == SessionsInv /\ UniqueEmails /\ [Next]_vars => UniqueEmails'
<1> SUFFICES ASSUME SessionsInv, UniqueEmails, [Next]_vars
             PROVE  UniqueEmails'
  OBVIOUS
<1>1. TablesOK
  BY TypeParts DEF SessionsInv
<1>2. ASSUME NEW r \in Requests, InsertUser(r)
      PROVE  UniqueEmails'
  <2> DEFINE email == Lower[input[r].email]
             row   == [state |-> "live", email |-> email, role |-> "customer"]
  <2>1. CASE UNCHANGED users
    BY <2>1 DEF UniqueEmails
  <2>2. CASE ~EmailTaken(email) /\ users' = [users EXCEPT ![r] = row]
    <3>1. \A u \in Users : users'[u] = IF u = r THEN row ELSE users[u]
      BY <1>1, <2>2 DEF TablesOK
    <3>2. row.email = email
      OBVIOUS
    <3> HIDE DEF row, email
    <3> QED
      BY <2>2, <3>1, <3>2 DEF UniqueEmails, EmailTaken
  <2> QED
    BY <1>2, <2>1, <2>2 DEF InsertUser
<1>3. CASE Operate
  <2>1. \A u \in Users :
          /\ users'[u].email = users[u].email
          /\ users'[u].state # "absent" => users[u].state # "absent"
    BY <1>1, <1>3, SettingsAssumption DEF Operate, TablesOK, UserRows, Live
  <2>2. ASSUME NEW u \in Users, NEW v \in Users, u # v,
               users'[u].state # "absent", users'[v].state # "absent"
        PROVE  users'[u].email # users'[v].email
    <3>1. users[u].email # users[v].email
      BY <2>1, <2>2 DEF UniqueEmails
    <3> QED
      BY <2>1, <3>1
  <2> QED
    BY <2>2 DEF UniqueEmails
<1>4. CASE UNCHANGED users
  BY <1>4 DEF UniqueEmails
<1> QED
  BY <1>2, <1>3, <1>4
  DEF Next, Start, Handle, FindEmail, FindToken, FindUser, Revoke, Sign, Issue, DbError, Crash,
      Tick, AllDone, vars, tables

\* Two users never have the same email, however registrations overlap.
THEOREM EmailsStayUnique == Spec => []UniqueEmails
BY UniqueEmailsInit, UniqueEmailsNext, SessionsInvariant, PTL DEF Spec

-----------------------------------------------------------------------------
(* Revoked tokens.                                                         *)

\* r has redeemed the refresh token k
Redeemed(k, r) ==
  /\ input[r].op = "refresh" /\ input[r].token = k
  /\ \/ pc[r] \in {"sign", "issue"}
     \/ Failed(r)
     \/ tokens[r].state # "absent" /\ tokens[r].owner = tokens[k].owner

LEMMA RedeemedStays ==
  ASSUME SessionsInv, NEW r \in Requests, Step(r), NEW k \in Users, Stored(k),
         NEW q \in Requests, Redeemed(k, q)
  PROVE  Redeemed(k, q)'
<1>1. HandlersOK /\ TablesOK /\ RequestOK(r) /\ RequestOK(q) /\ r \in Users /\ q \in Users
  BY TypeParts, RequestsAreUsers DEF SessionsInv
<1>2. MemoryKept(r) /\ TablesKept(r)
  BY <1>1, StepKeepsMemory, StepKeepsTables
<1>3. CASE q # r
  BY <1>1, <1>2, <1>3 DEF MemoryKept, TablesKept, Redeemed, Failed, Stored
<1>4. CASE q = r
  <2>1. pc[r] \in Steps \union {"idle"}
    BY DEF Step, Start, Handle, FindEmail, InsertUser, FindToken, FindUser, Revoke, Sign,
           Issue, DbError, Crash, Steps
  <2>2. pc[r] \in {"sign", "issue"}
    BY <1>1, <1>4, <2>1 DEF Redeemed, Failed, RequestOK, HandlersOK, Stored, Steps
  <2>3. CASE Sign(r)
    BY <1>1, <1>4, <2>3 DEF Sign, Continue, HandlersOK, Redeemed
  <2>4. CASE \E code \in {"500", "lost"} : Finish(r, code)
    BY <1>1, <1>4, <2>4 DEF Finish, HandlersOK, Redeemed, Failed
  <2>5. CASE Issue(r) /\ Finish(r, "200")
    <3>1. user[r].id = tokens[k].owner /\ ~Stored(r)
      BY <1>1, <1>4, <2>2 DEF Redeemed, RequestOK, Steps
    <3>2. tokens'[r].state = "valid" /\ tokens'[r].owner = user[r].id
      BY <1>1, <2>5 DEF Issue, TablesOK
    <3>3. tokens'[k].owner = tokens[k].owner /\ UNCHANGED input
      BY <1>2, <2>5 DEF TablesKept, Finish
    <3> QED
      BY <1>4, <3>1, <3>2, <3>3 DEF Redeemed
  <2> QED
    BY <1>4, <2>2, <2>3, <2>4, <2>5
    DEF Step, Start, Handle, FindEmail, InsertUser, FindToken, FindUser, Revoke,
        Issue, DbError, Crash, Unacknowledged, Redeemed
<1> QED
  BY <1>3, <1>4

LEMMA RevokedInit == Init => RevokedForANewOne
BY DEF Init, RevokedForANewOne, NoToken

LEMMA RevokedNext == SessionsInv /\ RevokedForANewOne /\ [Next]_vars => RevokedForANewOne'
<1> SUFFICES ASSUME SessionsInv, RevokedForANewOne, [Next]_vars,
                    NEW k \in Users, tokens'[k].state = "revoked"
             PROVE  \E r \in Requests : Redeemed(k, r)'
  BY DEF RevokedForANewOne, Redeemed, Failed
<1>1. HandlersOK /\ TablesOK
  BY TypeParts DEF SessionsInv
<1>2. tokens[k].state = "revoked" => \E r \in Requests : Redeemed(k, r)
  BY DEF RevokedForANewOne, Redeemed
<1>3. ASSUME NEW r \in Requests, Step(r), tokens[k].state = "revoked"
      PROVE  \E q \in Requests : Redeemed(k, q)'
  <2>1. PICK q \in Requests : Redeemed(k, q)
    BY <1>2, <1>3
  <2>2. Stored(k)
    BY <1>3 DEF Stored
  <2> QED
    BY <1>3, <2>1, <2>2, RedeemedStays
<1>4. ASSUME NEW r \in Requests, Step(r), tokens[k].state # "revoked"
      PROVE  \E q \in Requests : Redeemed(k, q)'
  <2>1. tokens'[k] # tokens[k]
    BY <1>4
  <2>2. ~Issue(r)
    BY <1>1, <2>1 DEF Issue, TablesOK
  <2>3. Revoke(r)
    BY <1>4, <2>1, <2>2
    DEF Step, Start, Handle, FindEmail, InsertUser, FindToken, FindUser, Sign, DbError, Crash,
        tables
  <2>4. k = input[r].token
    BY <1>1, <2>1, <2>3 DEF Revoke, TablesOK
  <2>5. pc[r] \in Steps /\ pc[r] = "revoke"
    BY <2>3 DEF Revoke, Steps
  <2>6. input[r].op = "refresh"
    BY <1>1, <2>5, AtStep, InputFacts, StepsFacts, TypeParts
  <2>7. CASE Continue(r, "sign", user[r])
    BY <1>1, <2>4, <2>6, <2>7 DEF Continue, HandlersOK, Redeemed
  <2>8. CASE \E code \in {"500", "lost"} : Finish(r, code)
    BY <1>1, <2>4, <2>6, <2>8 DEF Finish, HandlersOK, Redeemed, Failed
  <2> QED
    BY <2>3, <2>7, <2>8 DEF Revoke, Unacknowledged
<1>5. CASE UNCHANGED <<tokens, pc, input, status>>
  BY <1>2, <1>5 DEF Redeemed, Failed
<1> QED
  BY <1>3, <1>4, <1>5 DEF Next, Step, Tick, Operate, AllDone, vars, tables

\* A refresh token is never given up but for a new one of the same user, or by a
\* request that is still running or failed.
THEOREM TokensAreGivenUpForNewOnes == Spec => []RevokedForANewOne
BY RevokedInit, RevokedNext, SessionsInvariant, PTL DEF Spec
=============================================================================
