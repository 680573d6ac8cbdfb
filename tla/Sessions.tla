------------------------------ MODULE Sessions ------------------------------
(* Logins, tokens, the guards that read them and the requests they let in.    *)
(*                                                                            *)
(* A token is its signed payload.  Every step of a request between two awaits *)
(* is one action.  AsyncStorage is one object for the whole process: what a   *)
(* request writes there, the next one overwrites.                             *)
(*                                                                            *)
(* The users routes are modelled by their effect on the table, one statement  *)
(* each; module Resources has their steps.  A password is right or wrong as   *)
(* the caller chooses, for whatever user: nothing below relies on a secret.   *)
EXTENDS Routes, SoftDelete

CONSTANTS
    Req,            \* the requests, each served once
    Emails,
    InitUsers,      \* the users table at the start
    LoggedIn,       \* the users who hold tokens at the start
    Asked,          \* what clients ask: a call, with an id and an email
    MaxUsers        \* bound: rows of the users table

NoId == 0           \* undefined, where an id is expected
NoOne == "nobody"   \* undefined, where a correlation id is expected
NoToken == [userId |-> NoId, role |-> "User", type |-> "none", owner |-> NoId, from |-> "User"]

\* The rows of the users table.
UserRows == [email : Emails, role : UserRoles, status : {"Active", "Inactive"},
             hasBusiness : BOOLEAN, deleted : BOOLEAN]

\* The table holds what generate-admin and createUser put there, so that only
\* generated users are Active; those who hold tokens have logged in.  A call
\* names a route.
ASSUME InputsAreTyped ==
    /\ InitUsers \in Seq(UserRows)
    /\ \A u \in DOMAIN InitUsers :
         InitUsers[u].status = "Active" => InitUsers[u].hasBusiness
    /\ LoggedIn \subseteq {u \in DOMAIN InitUsers : InitUsers[u].status = "Active"}
    /\ Asked \subseteq [call : Calls, id : Nat, email : Emails]

VARIABLES
    users,      \* the users table
    issued,     \* the tokens signed so far
    store,      \* the one object behind AsyncStorage
    req         \* the requests

vars == <<users, issued, store, req>>

\* A user with the Business that only generate-admin creates, or without it.
UserRow(email, role, status, hasBusiness) ==
    [email |-> email, role |-> role, status |-> status,
     hasBusiness |-> hasBusiness, deleted |-> FALSE]

\* The payload that createTokens signs.  owner is the user whose login a token
\* goes back to and from the role it had then; the code has neither.
Tokens(payload) ==
    {[userId |-> payload.userId, role |-> payload.role, type |-> type,
      owner |-> payload.owner, from |-> payload.from] : type \in {"access", "refresh"}}

Idle == [pc |-> "idle", call |-> Call("health", "GET", "disk"), token |-> NoToken,
         user |-> [id |-> NoId, role |-> "none"], id |-> NoId, email |-> NoOne,
         row |-> NoId, role |-> "none", status |-> 0]

Init ==
    /\ users = InitUsers
    /\ issued = UNION {Tokens([userId |-> u, role |-> users[u].role,
                               owner |-> u, from |-> users[u].role]) : u \in LoggedIn}
    /\ store = [correlationId |-> NoOne, userId |-> NoId, userRole |-> "none"]
    /\ req = [r \in Req |-> Idle]

At(r, pc) == req[r].pc = pc
Handler(r) == Dispatch(req[r].call).handler

\* Only generate-admin.ts inserts a user with a password its owner knows, a
\* status other than the default, and a Business.
GenerateAdmin ==
    /\ Len(users) < MaxUsers
    /\ \E email \in Emails :
         /\ \A id \in DOMAIN users : users[id].email # email
         /\ users' = CreateMany(users, <<UserRow(email, "Admin", "Active", TRUE)>>)
    /\ UNCHANGED <<issued, store, req>>
-----------------------------------------------------------------------------
\* The end of a request.
Reply(r, status, row) ==
    req' = [req EXCEPT ![r].pc = "replied", ![r].status = status, ![r].row = row,
                       ![r].user = Idle.user]

Goto(r, pc) == req' = [req EXCEPT ![r].pc = pc]

\* The middlewares, in one turn: a fresh correlation id goes to AsyncStorage.
\* (The header that would bring the client's own id is looked up by a name no
\* header has.  The lines of the log are left out.)  A call of a public route
\* comes without a token.
Arrive(r) ==
    /\ At(r, "idle")
    /\ store' = [store EXCEPT !.correlationId = r]
    /\ \E a \in Asked :
         \E t \in IF "Public" \in RolesOf(a.call) THEN {NoToken} ELSE issued \cup {NoToken} :
            req' = [req EXCEPT ![r] = [Idle EXCEPT !.pc = "guard", !.call = a.call,
                        !.token = t, !.id = a.id, !.email = a.email]]
    /\ UNCHANGED <<users, issued>>

\* AuthStrategy.validate and RefreshTokenStrategy.validate: what a valid token
\* leaves in request.user, or no user at all.
Validated(token) == [id |-> token.userId, role |-> token.role]
RefuseType(token) == token.type # "refresh"

\* The token is verified, and any may be found expired; then its role is
\* compared with the route's and the user stored.
CheckToken(r, roles) ==
    LET token == req[r].token
    IN \/ Reply(r, 401, NoId) /\ UNCHANGED store
       \/ token \in issued /\ token.role \notin roles /\ Reply(r, 403, NoId) /\ UNCHANGED store
       \/ /\ token \in issued /\ token.role \in roles
          /\ store' = [store EXCEPT !.userId = token.userId, !.userRole = token.role]
          /\ req' = [req EXCEPT ![r].pc = "guarded", ![r].user = Validated(token)]

IsOpen(r) == GuardsOf(req[r].call) = << >> \/ "Public" \in RolesOf(req[r].call)

\* Slip: a route open to some role is open to every valid token.
AuthGuardAnyRole(r) ==
    /\ At(r, "guard")
    /\ IF IsOpen(r) THEN Goto(r, "guarded") /\ UNCHANGED store ELSE CheckToken(r, UserRoles)
    /\ UNCHANGED <<users, issued>>

\* AuthGuard.canActivate: a public route is let in as it is.
AuthGuard(r) ==
    /\ At(r, "guard")
    /\ IF IsOpen(r) THEN Goto(r, "guarded") /\ UNCHANGED store
                    ELSE CheckToken(r, RolesOf(req[r].call))
    /\ UNCHANGED <<users, issued>>

\* RefreshTokenGuard, the second guard of refresh-token: the strategy verifies
\* the token again and refuses every type but refresh.
RefreshTokenGuard(r) ==
    /\ At(r, "guarded")
    /\ IF Len(GuardsOf(req[r].call)) < 2 THEN Goto(r, "handler")
       ELSE \/ /\ req[r].token \notin issued \/ RefuseType(req[r].token)
               /\ Reply(r, 401, NoId)
            \/ /\ req[r].token \in issued /\ ~RefuseType(req[r].token)
               /\ Goto(r, "handler")
    /\ UNCHANGED <<users, issued, store>>
-----------------------------------------------------------------------------
FindLogin(r, accepted) ==
    /\ At(r, "handler") /\ Handler(r) = "login"
    /\ LET found == {id \in Live(users) : users[id].email = req[r].email}
       IN \/ found = {} /\ Reply(r, 404, NoId)
          \/ \E id \in found : users[id].status \notin accepted /\ Reply(r, 403, NoId)
          \/ \E id \in found :
               /\ users[id].status \in accepted
               /\ req' = [req EXCEPT ![r].pc = "compare", ![r].row = id,
                                     ![r].role = users[id].role]
    /\ UNCHANGED <<users, issued, store>>

\* Slip: login asks for no status.
LoginFindAnyStatus(r) == FindLogin(r, {"Active", "Inactive"})

\* login up to its second await: the user of that email must be Active.
LoginFind(r) == FindLogin(r, {"Active"})

\* bcrypt.compare has answered; the tokens name the user as it was read.
LoginCompare(r) ==
    /\ At(r, "compare")
    /\ \/ Reply(r, 401, NoId) /\ UNCHANGED issued
       \/ /\ issued' = issued \cup
               Tokens([userId |-> req[r].row, role |-> req[r].role,
                       owner |-> req[r].row, from |-> req[r].role])
          /\ Reply(r, 200, req[r].row)
    /\ UNCHANGED <<users, store>>

\* refreshToken: request.user, an id and a role, is spread into the payload:
\* the new tokens have a role and no userId.
RefreshToken(r) ==
    /\ At(r, "handler") /\ Handler(r) = "refreshToken"
    /\ issued' = issued \cup
         Tokens([userId |-> NoId, role |-> req[r].user.role,
                 owner |-> req[r].token.owner, from |-> req[r].token.from])
    /\ Reply(r, 200, NoId)
    /\ UNCHANGED <<users, store>>
-----------------------------------------------------------------------------
\* findFirst with where: { id }: no condition at all when id is undefined.
FindById(id) == IF id = NoId THEN Live(users) ELSE Live(users) \cap {id}

DetailFor(r, me) ==
    /\ At(r, "handler") /\ Handler(r) \in {"getMyInformation", "getUserDetail"}
    /\ LET found == FindById(IF Handler(r) = "getUserDetail" THEN req[r].id ELSE me)
       IN \/ found = {} /\ Reply(r, 404, NoId)
          \/ \E id \in found : ~users[id].hasBusiness /\ Reply(r, 500, id)
          \/ \E id \in found :
               /\ users[id].hasBusiness
               /\ req' = [req EXCEPT ![r].pc = "companies", ![r].row = id]
    /\ UNCHANGED <<users, issued, store>>

\* Slip: the handler takes the user that AsyncStorage holds.
DetailFindStored(r) == DetailFor(r, store.userId)

\* getMyInformation and getUserDetail up to the second await of the service:
\* reading Business.id of a user that has no Business throws.
DetailFind(r) == DetailFor(r, req[r].user.id)

\* The companies of its Business have been read.
DetailReply(r) ==
    /\ At(r, "companies")
    /\ Reply(r, 200, req[r].row)
    /\ UNCHANGED <<users, issued, store>>

InsertUser(r, status) ==
    /\ At(r, "handler") /\ Handler(r) = "createUser"
    /\ \/ (\E id \in Live(users) : users[id].email = req[r].email)
          /\ Reply(r, 409, NoId) /\ UNCHANGED users
       \/ Reply(r, 500, NoId) /\ UNCHANGED users
       \/ /\ Len(users) < MaxUsers
          /\ \A id \in DOMAIN users : users[id].email # req[r].email
          /\ \E role \in UserRoles :
               users' = CreateMany(users, <<UserRow(req[r].email, role, status, FALSE)>>)
          /\ Reply(r, 201, Len(users'))
    /\ UNCHANGED <<issued, store>>

\* Slip: a user is created ready to log in.
CreateUserActive(r) == InsertUser(r, "Active")

\* Slip: the column has no default.
CreateUserNoStatus(r) == InsertUser(r, NoOne)

\* createUser: a row with the default status Inactive, a password nobody was
\* told and no Business.  A user who has the email is a conflict; it fails when
\* only a deleted row has it, when one was inserted since, and when the database
\* does.
CreateUser(r) == InsertUser(r, "Inactive")

\* updateUser: the body may name another role or another email, not a status.
UpdateUser(r) ==
    /\ At(r, "handler") /\ Handler(r) = "updateUser"
    /\ UNCHANGED <<issued, store>>
    /\ \/ req[r].id \notin Live(users) /\ Reply(r, 404, NoId) /\ UNCHANGED users
       \/ /\ req[r].id \in Live(users)
          /\ \E role \in UserRoles :
               users' = UpdateMany(users, {req[r].id}, "role", role)
          /\ Reply(r, 200, req[r].id)
       \/ /\ req[r].id \in Live(users)
          /\ IF \E id \in DOMAIN users \ {req[r].id} : users[id].email = req[r].email
             THEN Reply(r, 500, NoId) /\ UNCHANGED users
             ELSE /\ users' = UpdateMany(users, {req[r].id}, "email", req[r].email)
                  /\ Reply(r, 200, req[r].id)

\* deleteUser: the tokens of the user are not touched.
DeleteUser(r) ==
    /\ At(r, "handler") /\ Handler(r) = "deleteUser"
    /\ UNCHANGED <<issued, store>>
    /\ \/ req[r].id \notin Live(users) /\ Reply(r, 404, NoId) /\ UNCHANGED users
       \/ /\ req[r].id \in Live(users)
          /\ users' = DeleteMany(users, {req[r].id})
          /\ Reply(r, 204, req[r].id)

Detailed == {"login", "refreshToken", "getMyInformation", "getUserDetail",
             "createUser", "updateUser", "deleteUser"}

\* Every other handler: whatever it does, users and tokens stay as they are.
OtherHandler(r) ==
    /\ At(r, "handler") /\ Handler(r) \notin Detailed
    /\ Reply(r, 200, NoId)
    /\ UNCHANGED <<users, issued, store>>

Done == (\A r \in Req : At(r, "replied")) /\ UNCHANGED vars

Next ==
    \/ GenerateAdmin \/ Done
    \/ \E r \in Req :
         \/ Arrive(r) \/ AuthGuard(r) \/ RefreshTokenGuard(r)
         \/ LoginFind(r) \/ LoginCompare(r) \/ RefreshToken(r)
         \/ DetailFind(r) \/ DetailReply(r)
         \/ CreateUser(r) \/ UpdateUser(r) \/ DeleteUser(r) \/ OtherHandler(r)

Spec == Init /\ [][Next]_vars
-----------------------------------------------------------------------------
\* Types of the users table, the tokens and the one store.
TypeOK ==
    /\ users \in Seq(UserRows)
    /\ issued \subseteq [userId : Nat, role : UserRoles, type : {"access", "refresh"},
                         owner : Nat, from : UserRoles]
    /\ store \in [correlationId : Req \cup {NoOne}, userId : Nat,
                  userRole : UserRoles \cup {"none"}]
    /\ DOMAIN req = Req

\* Only a user made by generate-admin ever holds a token: no route sets a
\* status, so a user created through the api can never log in.
OnlyGeneratedAdminsLogIn == \A t \in issued : users[t.owner].hasBusiness

\* A request whose token names its user and that asks who it is (GET me) is
\* answered about that user, whoever else the server is talking to.  (A token
\* from refreshToken names nobody, and is answered about any user.)
MeIsTheCaller ==
    \A r \in Req :
        (/\ At(r, "replied") /\ Handler(r) = "getMyInformation"
         /\ req[r].status = 200 /\ req[r].token.userId # NoId)
            => req[r].row = req[r].token.owner

\* Whoever asks who it is, with any token it was given, is told so: every token
\* goes back to a login, whose payload has the userId.
MyInformationIsMine ==
    \A r \in Req :
        (At(r, "replied") /\ Handler(r) = "getMyInformation" /\ req[r].status = 200)
            => req[r].row = req[r].token.owner

\* A handler that is only open to Admin runs for a token that goes back,
\* through any number of refreshes, to a login as Admin.
AdminHandlersForAdmins ==
    \A r \in Req :
        (/\ At(r, "handler") \/ At(r, "companies")
         /\ RolesOf(req[r].call) = AdminOnly) => req[r].token.from = "Admin"

\* A request is answered by the route its call names: no route is hidden by a
\* route declared before it.
AnsweredByItsRoute ==
    \A r \in Req : At(r, "replied") => Dispatch(req[r].call).seg = req[r].call.seg
=============================================================================
