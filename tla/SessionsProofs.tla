--------------------------- MODULE SessionsProofs ---------------------------
(* What logins, tokens and guards keep, for any number of requests and users. *)
EXTENDS Sessions, TLAPS
-----------------------------------------------------------------------------
(* What the table of routes says of every call that names a route.            *)

\* The controllers without a guard, which are public.
Unguarded == {"app", "health"}

\* The routes a request has to be let in to, whoever made it.
Own == {"refreshToken", "getMyInformation"}

\* A route without metadata of its own.
IsPlain(route) == route.handler \notin Own /\ route.roles = {} /\ route.guards = << >>

RouteOK(p, route) ==
    /\ p \in Unguarded => IsPlain(route)
    /\ route.handler \in Own => "Public" \notin route.roles
    /\ route.guards \in {<< >>, <<"jwt-refresh">>}

\* Nothing but ":id" comes behind ":id".
IdLast(routes) ==
    \E n \in Nat : \A i \in DOMAIN routes : routes[i].seg = ":id" <=> i >= n

RoutesOK(p) ==
    LET routes == Controllers[p].routes
    IN /\ p \in Unguarded => Controllers[p].roles = Public
       /\ p \notin Unguarded => /\ Controllers[p].roles = AdminOnly
                                /\ Controllers[p].guards = <<"jwt">>
       /\ DOMAIN routes \subseteq 1..7
       /\ \A i \in DOMAIN routes : RouteOK(p, routes[i])
       /\ IdLast(routes)
-----------------------------------------------------------------------------
LEMMA PlainRoute ==
    ASSUME NEW p, NEW verb, NEW seg, NEW handler, handler \notin Own
    PROVE  RouteOK(p, Route(verb, seg, handler)) /\ Route(verb, seg, handler).seg = seg
  BY DEF Route, RouteOK, IsPlain

LEMMA UserRoutes == RoutesOK("user")
  <1> DEFINE R == UserController.routes
  <1>1. RouteOK("user", R[3]) /\ R[3].seg = "me"
    BY DEF UserController, OpenTo, Get, Route, RouteOK, Own, Unguarded,
           AllRoleExceptPublic, AccessRoles, Public
  <1>2. /\ RouteOK("user", R[1]) /\ R[1].seg = ""
        /\ RouteOK("user", R[2]) /\ R[2].seg = ""
        /\ RouteOK("user", R[4]) /\ R[4].seg = ":id"
        /\ RouteOK("user", R[5]) /\ R[5].seg = ":id"
        /\ RouteOK("user", R[6]) /\ R[6].seg = ":id"
    BY PlainRoute DEF UserController, Own, Post, Get, Put, Delete
  <1>3. DOMAIN R = 1..6
    BY DEF UserController
  <1> HIDE DEF R
  <1>4. \A i \in DOMAIN R : i \in {1, 2, 3, 4, 5, 6}
    BY <1>3
  <1>5. \A i \in DOMAIN R : RouteOK("user", R[i])
    BY <1>1, <1>2, <1>4
  <1>6. IdLast(R)
    <2>1. \A i \in DOMAIN R : (i < 4 /\ i \in {1, 2, 3}) \/ (i >= 4 /\ i \in {4, 5, 6})
      BY <1>3
    <2>2. \A i \in {1, 2, 3} : R[i].seg # ":id"
      BY <1>1, <1>2
    <2>3. \A i \in {4, 5, 6} : R[i].seg = ":id"
      BY <1>1, <1>2
    <2>4. \A i \in DOMAIN R : i < 4 <=> ~(i >= 4)
      BY <1>3
    <2>5. \A i \in DOMAIN R : R[i].seg = ":id" <=> i >= 4
      BY <2>1, <2>2, <2>3, <2>4
    <2>6. QED BY <2>5 DEF IdLast
  <1>7. DOMAIN R \subseteq 1..7
    BY <1>3
  <1>8. QED BY <1>7, <1>5, <1>6 DEF RoutesOK, Controllers, R, UserController, Unguarded

LEMMA ExecutiveCompanyRoutes == RoutesOK("company")
  <1> DEFINE R == ExecutiveCompanyController.routes
  <1>1. /\ RouteOK("company", R[1]) /\ R[1].seg = ""
        /\ RouteOK("company", R[2]) /\ R[2].seg = ""
        /\ RouteOK("company", R[3]) /\ R[3].seg = ":id"
        /\ RouteOK("company", R[4]) /\ R[4].seg = ":id"
        /\ RouteOK("company", R[5]) /\ R[5].seg = ":id"
    BY PlainRoute DEF ExecutiveCompanyController, Own, Post, Get, Put, Delete
  <1>3. DOMAIN R = 1..5
    BY DEF ExecutiveCompanyController
  <1> HIDE DEF R
  <1>4. \A i \in DOMAIN R : i \in {1, 2, 3, 4, 5}
    BY <1>3
  <1>5. \A i \in DOMAIN R : RouteOK("company", R[i])
    BY <1>1, <1>4
  <1>6. IdLast(R)
    <2>1. \A i \in DOMAIN R : (i < 3 /\ i \in {1, 2}) \/ (i >= 3 /\ i \in {3, 4, 5})
      BY <1>3
    <2>2. \A i \in {1, 2} : R[i].seg # ":id"
      BY <1>1
    <2>3. \A i \in {3, 4, 5} : R[i].seg = ":id"
      BY <1>1
    <2>4. \A i \in DOMAIN R : i < 3 <=> ~(i >= 3)
      BY <1>3
    <2>5. \A i \in DOMAIN R : R[i].seg = ":id" <=> i >= 3
      BY <2>1, <2>2, <2>3, <2>4
    <2>6. QED BY <2>5 DEF IdLast
  <1>7. DOMAIN R \subseteq 1..7
    BY <1>3
  <1>8. QED BY <1>7, <1>5, <1>6 DEF RoutesOK, Controllers, R, ExecutiveCompanyController, Unguarded

LEMMA ExecutivePersonRoutes == RoutesOK("person")
  <1> DEFINE R == ExecutivePersonController.routes
  <1>1. /\ RouteOK("person", R[1]) /\ R[1].seg = ""
        /\ RouteOK("person", R[2]) /\ R[2].seg = ""
        /\ RouteOK("person", R[3]) /\ R[3].seg = "departments"
        /\ RouteOK("person", R[4]) /\ R[4].seg = "positions"
        /\ RouteOK("person", R[5]) /\ R[5].seg = ":id"
        /\ RouteOK("person", R[6]) /\ R[6].seg = ":id"
        /\ RouteOK("person", R[7]) /\ R[7].seg = ":id"
    BY PlainRoute DEF ExecutivePersonController, Own, Post, Get, Put, Delete
  <1>3. DOMAIN R = 1..7
    BY DEF ExecutivePersonController
  <1> HIDE DEF R
  <1>4. \A i \in DOMAIN R : i \in {1, 2, 3, 4, 5, 6, 7}
    BY <1>3
  <1>5. \A i \in DOMAIN R : RouteOK("person", R[i])
    BY <1>1, <1>4
  <1>6. IdLast(R)
    <2>1. \A i \in DOMAIN R : (i < 5 /\ i \in {1, 2, 3, 4}) \/ (i >= 5 /\ i \in {5, 6, 7})
      BY <1>3
    <2>2. \A i \in {1, 2, 3, 4} : R[i].seg # ":id"
      BY <1>1
    <2>3. \A i \in {5, 6, 7} : R[i].seg = ":id"
      BY <1>1
    <2>4. \A i \in DOMAIN R : i < 5 <=> ~(i >= 5)
      BY <1>3
    <2>5. \A i \in DOMAIN R : R[i].seg = ":id" <=> i >= 5
      BY <2>1, <2>2, <2>3, <2>4
    <2>6. QED BY <2>5 DEF IdLast
  <1>7. DOMAIN R \subseteq 1..7
    BY <1>3
  <1>8. QED BY <1>7, <1>5, <1>6 DEF RoutesOK, Controllers, R, ExecutivePersonController, Unguarded

LEMMA FootprintRoutes == RoutesOK("footprint")
  <1> DEFINE R == FootprintController.routes
  <1>1. /\ RouteOK("footprint", R[1]) /\ R[1].seg = ""
        /\ RouteOK("footprint", R[2]) /\ R[2].seg = ""
        /\ RouteOK("footprint", R[3]) /\ R[3].seg = "fake"
        /\ RouteOK("footprint", R[4]) /\ R[4].seg = ":id"
        /\ RouteOK("footprint", R[5]) /\ R[5].seg = ":id"
        /\ RouteOK("footprint", R[6]) /\ R[6].seg = ":id"
    BY PlainRoute DEF FootprintController, Own, Post, Get, Put, Delete
  <1>3. DOMAIN R = 1..6
    BY DEF FootprintController
  <1> HIDE DEF R
  <1>4. \A i \in DOMAIN R : i \in {1, 2, 3, 4, 5, 6}
    BY <1>3
  <1>5. \A i \in DOMAIN R : RouteOK("footprint", R[i])
    BY <1>1, <1>4
  <1>6. IdLast(R)
    <2>1. \A i \in DOMAIN R : (i < 4 /\ i \in {1, 2, 3}) \/ (i >= 4 /\ i \in {4, 5, 6})
      BY <1>3
    <2>2. \A i \in {1, 2, 3} : R[i].seg # ":id"
      BY <1>1
    <2>3. \A i \in {4, 5, 6} : R[i].seg = ":id"
      BY <1>1
    <2>4. \A i \in DOMAIN R : i < 4 <=> ~(i >= 4)
      BY <1>3
    <2>5. \A i \in DOMAIN R : R[i].seg = ":id" <=> i >= 4
      BY <2>1, <2>2, <2>3, <2>4
    <2>6. QED BY <2>5 DEF IdLast
  <1>7. DOMAIN R \subseteq 1..7
    BY <1>3
  <1>8. QED BY <1>7, <1>5, <1>6 DEF RoutesOK, Controllers, R, FootprintController, Unguarded

LEMMA ExecutiveUploadRoutes == RoutesOK("upload")
  <1> DEFINE R == ExecutiveUploadController.routes
  <1>1. /\ RouteOK("upload", R[1]) /\ R[1].seg = ""
        /\ RouteOK("upload", R[2]) /\ R[2].seg = ""
        /\ RouteOK("upload", R[3]) /\ R[3].seg = "save"
        /\ RouteOK("upload", R[4]) /\ R[4].seg = "enrich"
        /\ RouteOK("upload", R[5]) /\ R[5].seg = ":id"
        /\ RouteOK("upload", R[6]) /\ R[6].seg = ":id"
    BY PlainRoute DEF ExecutiveUploadController, Own, Post, Get, Put, Delete
  <1>3. DOMAIN R = 1..6
    BY DEF ExecutiveUploadController
  <1> HIDE DEF R
  <1>4. \A i \in DOMAIN R : i \in {1, 2, 3, 4, 5, 6}
    BY <1>3
  <1>5. \A i \in DOMAIN R : RouteOK("upload", R[i])
    BY <1>1, <1>4
  <1>6. IdLast(R)
    <2>1. \A i \in DOMAIN R : (i < 5 /\ i \in {1, 2, 3, 4}) \/ (i >= 5 /\ i \in {5, 6})
      BY <1>3
    <2>2. \A i \in {1, 2, 3, 4} : R[i].seg # ":id"
      BY <1>1
    <2>3. \A i \in {5, 6} : R[i].seg = ":id"
      BY <1>1
    <2>4. \A i \in DOMAIN R : i < 5 <=> ~(i >= 5)
      BY <1>3
    <2>5. \A i \in DOMAIN R : R[i].seg = ":id" <=> i >= 5
      BY <2>1, <2>2, <2>3, <2>4
    <2>6. QED BY <2>5 DEF IdLast
  <1>7. DOMAIN R \subseteq 1..7
    BY <1>3
  <1>8. QED BY <1>7, <1>5, <1>6 DEF RoutesOK, Controllers, R, ExecutiveUploadController, Unguarded

LEMMA AuthRoutes == RoutesOK("auth")
  <1> DEFINE R == AuthController.routes
  <1>1. RouteOK("auth", R[1]) /\ R[1].seg = "login"
        /\ RouteOK("auth", R[2]) /\ R[2].seg = "refresh-token"
    BY DEF AuthController, OpenTo, Guarded, Post, Route, RouteOK, Own, Unguarded, Public
  <1>3. DOMAIN R = 1..2
    BY DEF AuthController
  <1> HIDE DEF R
  <1>4. \A i \in DOMAIN R : i \in {1, 2}
    BY <1>3
  <1>5. \A i \in DOMAIN R : RouteOK("auth", R[i])
    BY <1>1, <1>4
  <1>6. IdLast(R)
    <2>1. \A i \in DOMAIN R : R[i].seg # ":id"
      BY <1>1, <1>4
    <2>2. \A i \in DOMAIN R : ~(i >= 3)
      BY <1>3
    <2>3. QED BY <2>1, <2>2 DEF IdLast
  <1>7. DOMAIN R \subseteq 1..7
    BY <1>3
  <1>8. QED BY <1>7, <1>5, <1>6 DEF RoutesOK, Controllers, R, AuthController, Unguarded

LEMMA TaskManagerRoutes == RoutesOK("task")
  <1> DEFINE R == TaskManagerController.routes
  <1>1. /\ RouteOK("task", R[1]) /\ R[1].seg = "trigger/backup"
    BY PlainRoute DEF TaskManagerController, Own, Post, Get, Put, Delete
  <1>3. DOMAIN R = 1..1
    BY DEF TaskManagerController
  <1> HIDE DEF R
  <1>4. \A i \in DOMAIN R : i \in {1}
    BY <1>3
  <1>5. \A i \in DOMAIN R : RouteOK("task", R[i])
    BY <1>1, <1>4
  <1>6. IdLast(R)
    <2>1. \A i \in DOMAIN R : R[i].seg # ":id"
      BY <1>1, <1>4
    <2>2. \A i \in DOMAIN R : ~(i >= 2)
      BY <1>3
    <2>3. QED BY <2>1, <2>2 DEF IdLast
  <1>7. DOMAIN R \subseteq 1..7
    BY <1>3
  <1>8. QED BY <1>7, <1>5, <1>6 DEF RoutesOK, Controllers, R, TaskManagerController, Unguarded

LEMMA AppRoutes == RoutesOK("app")
  <1> DEFINE R == AppController.routes
  <1>1. /\ RouteOK("app", R[1]) /\ R[1].seg = "timeout"
        /\ RouteOK("app", R[2]) /\ R[2].seg = "paginationCheck"
        /\ RouteOK("app", R[3]) /\ R[3].seg = "errorCheck"
    BY PlainRoute DEF AppController, Own, Post, Get, Put, Delete
  <1>3. DOMAIN R = 1..3
    BY DEF AppController
  <1> HIDE DEF R
  <1>4. \A i \in DOMAIN R : i \in {1, 2, 3}
    BY <1>3
  <1>5. \A i \in DOMAIN R : RouteOK("app", R[i])
    BY <1>1, <1>4
  <1>6. IdLast(R)
    <2>1. \A i \in DOMAIN R : R[i].seg # ":id"
      BY <1>1, <1>4
    <2>2. \A i \in DOMAIN R : ~(i >= 4)
      BY <1>3
    <2>3. QED BY <2>1, <2>2 DEF IdLast
  <1>7. DOMAIN R \subseteq 1..7
    BY <1>3
  <1>8. QED BY <1>7, <1>5, <1>6 DEF RoutesOK, Controllers, R, AppController, Unguarded

LEMMA HealthRoutes == RoutesOK("health")
  <1> DEFINE R == HealthController.routes
  <1>1. /\ RouteOK("health", R[1]) /\ R[1].seg = "disk"
        /\ RouteOK("health", R[2]) /\ R[2].seg = "memory"
        /\ RouteOK("health", R[3]) /\ R[3].seg = "prisma"
    BY PlainRoute DEF HealthController, Own, Post, Get, Put, Delete
  <1>3. DOMAIN R = 1..3
    BY DEF HealthController
  <1> HIDE DEF R
  <1>4. \A i \in DOMAIN R : i \in {1, 2, 3}
    BY <1>3
  <1>5. \A i \in DOMAIN R : RouteOK("health", R[i])
    BY <1>1, <1>4
  <1>6. IdLast(R)
    <2>1. \A i \in DOMAIN R : R[i].seg # ":id"
      BY <1>1, <1>4
    <2>2. \A i \in DOMAIN R : ~(i >= 4)
      BY <1>3
    <2>3. QED BY <2>1, <2>2 DEF IdLast
  <1>7. DOMAIN R \subseteq 1..7
    BY <1>3
  <1>8. QED BY <1>7, <1>5, <1>6 DEF RoutesOK, Controllers, R, HealthController, Unguarded

LEMMA AllRoutes ==
    /\ DOMAIN Controllers = {"user", "company", "person", "footprint", "upload", "auth",
                             "task", "app", "health"}
    /\ \A p \in DOMAIN Controllers : RoutesOK(p)
  BY UserRoutes, ExecutiveCompanyRoutes, ExecutivePersonRoutes, FootprintRoutes,
     ExecutiveUploadRoutes, AuthRoutes, TaskManagerRoutes, AppRoutes, HealthRoutes
     DEF Controllers

\* The least of some of the numbers of routes.
LEMMA LeastRoute ==
    ASSUME NEW S \in SUBSET (1..7), S # {}
    PROVE  Min(S) \in S /\ \A i \in S : Min(S) <= i
  <1>1. \A i \in S : i \in {1, 2, 3, 4, 5, 6, 7}
    OBVIOUS
  <1>2. \E i \in S : \A j \in S : i =< j
    <2>1. CASE 1 \in S
      BY <1>1, <2>1
    <2>2. CASE 1 \notin S /\ 2 \in S
      BY <1>1, <2>2
    <2>3. CASE 1 \notin S /\ 2 \notin S /\ 3 \in S
      BY <1>1, <2>3
    <2>4. CASE 1 \notin S /\ 2 \notin S /\ 3 \notin S /\ 4 \in S
      BY <1>1, <2>4
    <2>5. CASE 1 \notin S /\ 2 \notin S /\ 3 \notin S /\ 4 \notin S /\ 5 \in S
      BY <1>1, <2>5
    <2>6. CASE \A i \in S : i \in {6, 7}
      <3>1. CASE 6 \in S
        BY <2>6, <3>1
      <3>2. CASE 6 \notin S
        <4>1. PICK i \in S : TRUE
          OBVIOUS
        <4>2. QED BY <2>6, <3>2, <4>1
      <3>3. QED BY <3>1, <3>2
    <2>7. QED BY <1>1, <2>1, <2>2, <2>3, <2>4, <2>5, <2>6
  <1>3. QED BY <1>2 DEF Min

\* A call that names a route is answered by a route of its own segment, one of
\* the controller it names.
LEMMA Answered ==
    ASSUME NEW call \in Calls
    PROVE  /\ call.path \in DOMAIN Controllers
           /\ Dispatch(call).seg = call.seg
           /\ RouteOK(call.path, Dispatch(call))
  <1>1. PICK p \in DOMAIN Controllers :
          \E i \in DOMAIN Controllers[p].routes :
             call = Call(p, Controllers[p].routes[i].verb, Controllers[p].routes[i].seg)
    BY DEF Calls
  <1> DEFINE R == Controllers[p].routes
  <1>2. PICK k \in DOMAIN R : call = Call(p, R[k].verb, R[k].seg)
    BY <1>1
  <1>3. call.path = p /\ call.verb = R[k].verb /\ call.seg = R[k].seg
    BY <1>2 DEF Call
  <1> DEFINE S == {i \in DOMAIN R : /\ R[i].verb = call.verb
                                    /\ R[i].seg = call.seg \/ (R[i].seg = ":id" /\ call.seg # "")}
             m == Min(S)
  <1>4. Dispatch(call) = R[m]
    BY <1>3 DEF Dispatch
  <1>5. RoutesOK(p)
    BY AllRoutes
  <1>6. k \in S /\ S \subseteq DOMAIN R /\ DOMAIN R \subseteq 1..7
    BY <1>3, <1>5 DEF RoutesOK
  <1>7. m \in S /\ m <= k
    BY <1>6, LeastRoute
  <1>8. m \in DOMAIN R /\ (R[m].seg = call.seg \/ R[m].seg = ":id")
    BY <1>7
  <1>9. k \in DOMAIN R
    OBVIOUS
  <1> HIDE DEF m, R, S
  <1>10. R[m].seg = call.seg
    <2>1. PICK n \in Nat : \A i \in DOMAIN R : R[i].seg = ":id" <=> i >= n
      BY <1>5 DEF RoutesOK, IdLast, R
    <2>2. m \in Nat /\ k \in Nat
      BY <1>6, <1>8, <1>9
    <2>3. R[m].seg = ":id" => R[k].seg = ":id"
      BY <1>7, <1>8, <1>9, <2>1, <2>2
    <2>4. QED BY <1>3, <1>8, <2>3
  <1>11. RouteOK(p, R[m])
    BY <1>5, <1>8 DEF RoutesOK, R
  <1>12. QED BY <1>3, <1>4, <1>10, <1>11 DEF m, R

\* A call is let in unasked only if its route is public, and never where it
\* matters who asks.
LEMMA ClosedRoutes ==
    ASSUME NEW call \in Calls, RolesOf(call) = AdminOnly \/ Dispatch(call).handler \in Own
    PROVE  "Public" \notin RolesOf(call) /\ GuardsOf(call) # << >>
  <1> DEFINE p == call.path
             route == Dispatch(call)
  <1>1. p \in DOMAIN Controllers /\ RouteOK(p, route)
    BY Answered
  <1>2. /\ p \in Unguarded => Controllers[p].roles = Public
        /\ p \notin Unguarded => Controllers[p].roles = AdminOnly
                                 /\ Controllers[p].guards = <<"jwt">>
    BY <1>1, AllRoutes DEF RoutesOK
  <1>3. RolesOf(call) = IF route.roles = {} THEN Controllers[p].roles ELSE route.roles
    BY DEF RolesOf
  <1>4. p \notin Unguarded
    BY <1>1, <1>2, <1>3 DEF RouteOK, IsPlain, AdminOnly, Public
  <1>5. "Public" \notin RolesOf(call)
    BY <1>1, <1>2, <1>3, <1>4 DEF RouteOK, AdminOnly
  <1>6. GuardsOf(call) = <<"jwt">> \o route.guards /\ route.guards \in {<< >>, <<"jwt-refresh">>}
    BY <1>1, <1>2, <1>4 DEF GuardsOf, RouteOK
  <1>7. \A g \in {<< >>, <<"jwt-refresh">>} : <<"jwt">> \o g # << >>
    OBVIOUS
  <1>8. QED BY <1>5, <1>6, <1>7
-----------------------------------------------------------------------------
(* What sessions keep.                                                        *)

TokenType == [userId : Nat, role : UserRoles, type : {"access", "refresh"},
              owner : Nat, from : UserRoles]
StoreType == [correlationId : Req \cup {NoOne}, userId : Nat,
              userRole : UserRoles \cup {"none"}]
ReqType == [pc : {"idle", "guard", "guarded", "handler", "compare", "companies", "replied"},
            call : Calls, token : TokenType \cup {NoToken},
            user : [id : Nat, role : UserRoles \cup {"none"}], id : Nat,
            email : Emails \cup {NoOne}, row : Nat, role : UserRoles \cup {"none"},
            status : Nat]

\* An Active user was generated.
UsersOK == \A u \in DOMAIN users : users[u].status = "Active" => users[u].hasBusiness

\* A token goes back to a generated user, whom it names if it names anybody,
\* with the role of that login.
TokenOK(t) ==
    /\ t.owner \in DOMAIN users /\ users[t.owner].hasBusiness
    /\ t.userId \in {NoId, t.owner} /\ t.role = t.from

\* What a request has on it once it is let in, ...
LetIn(r) ==
    req[r].pc \in {"guarded", "handler", "compare", "companies"} /\ ~IsOpen(r) =>
        /\ req[r].token \in issued /\ req[r].token.role \in RolesOf(req[r].call)
        /\ req[r].user = Validated(req[r].token)

\* ... while its password is compared, ...
Compares(r) ==
    req[r].pc = "compare" =>
        /\ Handler(r) = "login" /\ req[r].role \in UserRoles
        /\ req[r].row \in DOMAIN users /\ users[req[r].row].hasBusiness

\* ... and when companies are read for the reply, or it is sent.
AsksWhoItIs(r) == Handler(r) = "getMyInformation" /\ req[r].token.userId # NoId
TellsWhoItIs(r) == req[r].pc = "companies" \/ (req[r].pc = "replied" /\ req[r].status = 200)
IsTold(r) == AsksWhoItIs(r) /\ TellsWhoItIs(r) => req[r].row = req[r].token.owner

RequestOK(r) ==
    /\ req[r].pc # "idle" => req[r].email \in Emails
    /\ LetIn(r)
    /\ Compares(r)
    /\ IsTold(r)

IInv ==
    /\ users \in Seq(UserRows) /\ issued \subseteq TokenType /\ store \in StoreType
    /\ req \in [Req -> ReqType]
    /\ UsersOK
    /\ \A t \in issued : TokenOK(t)
    /\ \A r \in Req : RequestOK(r)
-----------------------------------------------------------------------------
LEMMA TokensSigned ==
    ASSUME NEW payload \in [userId : Nat, role : UserRoles, owner : Nat, from : UserRoles]
    PROVE  /\ Tokens(payload) \subseteq TokenType
           /\ \A t \in Tokens(payload) :
                /\ t.userId = payload.userId /\ t.role = payload.role
                /\ t.owner = payload.owner /\ t.from = payload.from
  BY DEF Tokens, TokenType

LEMMA IdleTyped == Idle \in ReqType
  <1>1. Call("health", "GET", "disk") \in Calls
    <2> DEFINE R == HealthController.routes
    <2>1. 1 \in DOMAIN R /\ R[1].verb = "GET" /\ R[1].seg = "disk"
      BY DEF HealthController, Get, Route
    <2>2. "health" \in DOMAIN Controllers /\ Controllers["health"].routes = R
      BY DEF Controllers
    <2> HIDE DEF R
    <2>3. QED BY <2>1, <2>2 DEF Calls
  <1>2. [id |-> NoId, role |-> "none"] \in [id : Nat, role : UserRoles \cup {"none"}]
    BY DEF NoId
  <1>3. QED BY <1>1, <1>2 DEF Idle, ReqType, NoId

LEMMA InitIInv == Init => IInv
  <1> SUFFICES ASSUME Init PROVE IInv
    OBVIOUS
  <1>1. users \in Seq(UserRows) /\ UsersOK
    BY InputsAreTyped DEF Init, UsersOK
  <1> DEFINE payload(u) == [userId |-> u, role |-> users[u].role,
                            owner |-> u, from |-> users[u].role]
  <1>2. ASSUME NEW t \in issued PROVE t \in TokenType /\ TokenOK(t)
    <2>1. PICK u \in LoggedIn : t \in Tokens(payload(u))
      BY DEF Init
    <2>2. u \in DOMAIN users /\ users[u].hasBusiness
      BY InputsAreTyped DEF Init
    <2>3. u \in Nat /\ users[u] \in UserRows
      BY <1>1, <2>2
    <2>4. payload(u) \in [userId : Nat, role : UserRoles, owner : Nat, from : UserRoles]
      BY <2>3 DEF UserRows
    <2>5. /\ t \in TokenType /\ t.userId = u /\ t.owner = u /\ t.role = t.from
      BY <2>1, <2>4, TokensSigned
    <2>6. QED BY <2>2, <2>5 DEF TokenOK
  <1>3. store \in StoreType
    BY DEF Init, StoreType, NoId
  <1>4. req \in [Req -> ReqType] /\ \A r \in Req : req[r] = Idle
    BY IdleTyped DEF Init
  <1>5. Idle.pc = "idle"
    BY DEF Idle
  <1>6. ASSUME NEW r \in Req PROVE RequestOK(r)
    <2>1. req[r].pc = "idle"
      BY <1>4, <1>5
    <2>2. LetIn(r) /\ Compares(r)
      BY <2>1 DEF LetIn, Compares
    <2>3. IsTold(r)
      BY <2>1 DEF TellsWhoItIs, IsTold
    <2>4. QED BY <2>1, <2>2, <2>3 DEF RequestOK
  <1>7. QED BY <1>1, <1>2, <1>3, <1>4, <1>6 DEF IInv
-----------------------------------------------------------------------------
\* Users come, and none goes: what a token or a request says of one stays true.
UsersKept ==
    /\ users' \in Seq(UserRows) /\ UsersOK'
    /\ \A u \in DOMAIN users : u \in DOMAIN users' /\ users'[u].hasBusiness = users[u].hasBusiness

LEMMA SameUsers == ASSUME IInv, UNCHANGED users PROVE UsersKept
  BY DEF IInv, UsersKept, UsersOK

\* A row is appended.
LEMMA MoreUsers ==
    ASSUME IInv, NEW row \in UserRows, users' = CreateMany(users, <<row>>),
           row.status = "Active" => row.hasBusiness
    PROVE  UsersKept
  <1>1. users \in Seq(UserRows) /\ UsersOK
    BY DEF IInv
  <1>2. users' = Append(users, row)
    BY <1>1 DEF CreateMany
  <1>3. /\ users' \in Seq(UserRows) /\ Len(users') = Len(users) + 1
        /\ \A u \in 1..Len(users) : users'[u] = users[u]
        /\ users'[Len(users) + 1] = row
    BY <1>1, <1>2
  <1>4. DOMAIN users = 1..Len(users) /\ DOMAIN users' = 1..Len(users') /\ Len(users) \in Nat
    BY <1>1, <1>3
  <1>5. UsersOK'
    BY <1>1, <1>3, <1>4 DEF UsersOK
  <1>6. QED BY <1>3, <1>4, <1>5 DEF UsersKept

\* A column other than status and hasBusiness is written.
LEMMA WrittenUsers ==
    ASSUME IInv, NEW where, NEW col \in {"role", "email", "deleted"}, NEW v,
           col = "role" => v \in UserRoles, col = "email" => v \in Emails,
           col = "deleted" => v \in BOOLEAN,
           users' = UpdateMany(users, where, col, v)
    PROVE  UsersKept
  <1>1. users \in Seq(UserRows) /\ UsersOK /\ DOMAIN users = 1..Len(users) /\ Len(users) \in Nat
    BY DEF IInv
  <1> DEFINE written(u) == [users[u] EXCEPT ![col] = v]
  <1>2. ASSUME NEW u \in DOMAIN users
        PROVE  /\ written(u) \in UserRows /\ written(u).status = users[u].status
               /\ written(u).hasBusiness = users[u].hasBusiness
    <2>1. users[u] \in UserRows
      BY <1>1
    <2>2. CASE col = "role"
      BY <2>1, <2>2 DEF UserRows
    <2>3. CASE col = "email"
      BY <2>1, <2>3 DEF UserRows
    <2>4. CASE col = "deleted"
      BY <2>1, <2>4 DEF UserRows
    <2>5. QED BY <2>2, <2>3, <2>4
  <1> HIDE DEF written
  <1>3. users' = [u \in 1..Len(users) |-> IF u \in where \cap Live(users) THEN written(u)
                                                                          ELSE users[u]]
    BY DEF UpdateMany, written
  <1>4. ASSUME NEW u \in 1..Len(users)
        PROVE  /\ users'[u] \in UserRows /\ users'[u].status = users[u].status
               /\ users'[u].hasBusiness = users[u].hasBusiness
    BY <1>1, <1>2, <1>3
  <1>5. DOMAIN users' = 1..Len(users)
    BY <1>3
  <1>6. users' \in [1..Len(users) -> UserRows]
    BY <1>3, <1>4
  <1>7. users' \in Seq(UserRows)
    BY <1>1, <1>6
  <1>8. QED BY <1>1, <1>4, <1>5, <1>7 DEF UsersKept, UsersOK

\* A request of the others keeps what it has.
LEMMA OthersKept ==
    ASSUME IInv, UsersKept, issued \subseteq issued', NEW s \in Req, req'[s] = req[s]
    PROVE  RequestOK(s)'
  <1>1. RequestOK(s)
    BY DEF IInv
  <1>2. IsOpen(s)' <=> IsOpen(s)
    BY DEF IsOpen
  <1>3. QED BY <1>1, <1>2 DEF RequestOK, LetIn, Compares, IsTold, AsksWhoItIs,
                              TellsWhoItIs, Handler, UsersKept

\* One request takes a step.
LEMMA RequestStep ==
    ASSUME IInv, UsersKept, NEW r \in Req, NEW q \in ReqType, req' = [req EXCEPT ![r] = q],
           issued \subseteq issued', issued' \subseteq TokenType, \A t \in issued' : TokenOK(t)',
           store' \in StoreType, RequestOK(r)'
    PROVE  IInv'
  <1>1. req \in [Req -> ReqType]
    BY DEF IInv
  <1>2. req' \in [Req -> ReqType] /\ \A s \in Req \ {r} : req'[s] = req[s]
    BY <1>1
  <1>3. \A s \in Req : RequestOK(s)'
    BY <1>2, OthersKept
  <1>4. QED BY <1>2, <1>3 DEF IInv, UsersKept

\* A token stays good while users are kept.
LEMMA TokensKept == ASSUME IInv, UsersKept PROVE \A t \in issued : TokenOK(t)'
  BY DEF IInv, UsersKept, TokenOK

\* One request takes a step that signs no token.
LEMMA UnsignedStep ==
    ASSUME IInv, UsersKept, NEW r \in Req, NEW q \in ReqType, req' = [req EXCEPT ![r] = q],
           UNCHANGED issued, store' \in StoreType, RequestOK(r)'
    PROVE  IInv'
  <1>1. issued' = issued /\ issued \subseteq TokenType
    BY DEF IInv
  <1>2. \A t \in issued' : TokenOK(t)'
    BY <1>1, TokensKept
  <1>3. QED BY <1>1, <1>2, RequestStep

-----------------------------------------------------------------------------
\* The ways a request moves: answered, or on to another point.
Answer(q, status, row) ==
    [q EXCEPT !.pc = "replied", !.status = status, !.row = row, !.user = Idle.user]

LEMMA AnswerTyped ==
    ASSUME IInv, NEW r \in Req, NEW status \in Nat, NEW row \in Nat, Reply(r, status, row)
    PROVE  /\ Answer(req[r], status, row) \in ReqType
           /\ req' = [req EXCEPT ![r] = Answer(req[r], status, row)]
           /\ req'[r] = Answer(req[r], status, row)
  <1>1. req \in [Req -> ReqType] /\ req[r] \in ReqType
    BY DEF IInv
  <1>2. Idle.user \in [id : Nat, role : UserRoles \cup {"none"}]
    BY DEF Idle, NoId
  <1>3. Answer(req[r], status, row) \in ReqType
    BY <1>1, <1>2 DEF Answer, ReqType
  <1>4. req' = [req EXCEPT ![r] = Answer(req[r], status, row)]
    BY <1>1 DEF Reply, Answer
  <1>5. QED BY <1>1, <1>3, <1>4

\* A request is answered, and no token signed.  Where it asks who it is and is
\* told, it is told of the owner of its token.
LEMMA ReplyStep ==
    ASSUME IInv, UsersKept, NEW r \in Req, req[r].pc # "idle", NEW status \in Nat, NEW row \in Nat,
           Reply(r, status, row), UNCHANGED <<issued, store>>,
           status = 200 /\ AsksWhoItIs(r) => row = req[r].token.owner
    PROVE  IInv'
  <1> DEFINE q == Answer(req[r], status, row)
  <1>1. q \in ReqType /\ req' = [req EXCEPT ![r] = q] /\ req'[r] = q
    BY AnswerTyped
  <1>2. req[r] \in ReqType /\ store' \in StoreType /\ req[r].email \in Emails
    BY DEF IInv, RequestOK
  <1>3. /\ q.pc = "replied" /\ q.status = status /\ q.row = row
        /\ q.call = req[r].call /\ q.token = req[r].token /\ q.email = req[r].email
    BY <1>2 DEF Answer, ReqType
  <1> HIDE DEF q
  <1>4. RequestOK(r)'
    <2>1. LetIn(r)' /\ Compares(r)'
      BY <1>1, <1>3 DEF LetIn, Compares
    <2>2. IsTold(r)'
      BY <1>1, <1>3 DEF IsTold, AsksWhoItIs, TellsWhoItIs, Handler
    <2>3. QED BY <1>1, <1>2, <1>3, <2>1, <2>2 DEF RequestOK
  <1>5. QED BY <1>1, <1>2, <1>4, UnsignedStep

LEMMA ArriveStep == ASSUME IInv, NEW r \in Req, Arrive(r) PROVE IInv'
  <1>1. PICK a \in Asked, t \in issued \cup {NoToken} :
          req' = [req EXCEPT ![r] = [Idle EXCEPT !.pc = "guard", !.call = a.call,
                                          !.token = t, !.id = a.id, !.email = a.email]]
    BY DEF Arrive
  <1> DEFINE q == [Idle EXCEPT !.pc = "guard", !.call = a.call, !.token = t,
                               !.id = a.id, !.email = a.email]
  <1>2. a \in [call : Calls, id : Nat, email : Emails] /\ t \in TokenType \cup {NoToken}
    BY InputsAreTyped DEF IInv
  <1>3. q \in ReqType /\ q.pc = "guard" /\ q.email \in Emails
    <2>1. Idle \in ReqType
      BY IdleTyped
    <2> HIDE DEF q
    <2>2. QED BY <1>2, <2>1 DEF ReqType, q
  <1>4. req' = [req EXCEPT ![r] = q] /\ req'[r] = q
    BY <1>1 DEF IInv
  <1> HIDE DEF q
  <1>5. RequestOK(r)'
    <2>1. LetIn(r)' /\ Compares(r)'
      BY <1>3, <1>4 DEF LetIn, Compares
    <2>2. IsTold(r)'
      BY <1>3, <1>4 DEF IsTold, TellsWhoItIs
    <2>3. QED BY <1>3, <1>4, <2>1, <2>2 DEF RequestOK
  <1>6. store' \in StoreType /\ UNCHANGED <<users, issued>>
    BY DEF Arrive, IInv, StoreType
  <1>7. QED BY <1>3, <1>4, <1>5, <1>6, SameUsers, UnsignedStep

\* Past a guard the request is what it was, with the user the guard read.
LEMMA LetInStep ==
    ASSUME IInv, NEW r \in Req, NEW pc \in {"guarded", "handler"}, req[r].pc # "idle",
           NEW user \in [id : Nat, role : UserRoles \cup {"none"}],
           req' = [req EXCEPT ![r].pc = pc, ![r].user = user],
           UNCHANGED <<users, issued>>, store' \in StoreType,
           IsOpen(r) \/ /\ req[r].token \in issued
                        /\ req[r].token.role \in RolesOf(req[r].call)
                        /\ user = Validated(req[r].token)
    PROVE  IInv'
  <1> DEFINE q == [req[r] EXCEPT !.pc = pc, !.user = user]
  <1>1. req \in [Req -> ReqType] /\ req[r] \in ReqType /\ req[r].email \in Emails
    BY DEF IInv, RequestOK
  <1>2. q \in ReqType /\ req' = [req EXCEPT ![r] = q]
    BY <1>1 DEF ReqType
  <1>3. /\ q.pc = pc /\ q.user = user /\ q.call = req[r].call /\ q.token = req[r].token
        /\ q.email = req[r].email /\ req'[r] = q
    BY <1>1, <1>2 DEF ReqType
  <1> HIDE DEF q
  <1>4. IsOpen(r)' <=> IsOpen(r)
    BY <1>3 DEF IsOpen
  <1>5. RequestOK(r)'
    <2>1. LetIn(r)' /\ Compares(r)'
      BY <1>3, <1>4 DEF LetIn, Compares
    <2>2. IsTold(r)'
      BY <1>3 DEF IsTold, TellsWhoItIs
    <2>3. QED BY <1>1, <1>3, <2>1, <2>2 DEF RequestOK
  <1>6. QED BY <1>2, <1>5, SameUsers, UnsignedStep

\* Without a user of its own, it keeps the one it has.
LEMMA GoneOn ==
    ASSUME IInv, NEW r \in Req, NEW pc \in {"guarded", "handler"}, Goto(r, pc)
    PROVE  /\ req' = [req EXCEPT ![r].pc = pc, ![r].user = req[r].user]
           /\ req[r].user \in [id : Nat, role : UserRoles \cup {"none"}]
  <1>1. req \in [Req -> ReqType] /\ req[r] \in ReqType
    BY DEF IInv
  <1>2. req[r].user \in [id : Nat, role : UserRoles \cup {"none"}]
    BY <1>1 DEF ReqType
  <1>3. [req[r] EXCEPT !.pc = pc] = [req[r] EXCEPT !.pc = pc, !.user = req[r].user]
    BY <1>1 DEF ReqType
  <1>4. QED BY <1>1, <1>2, <1>3 DEF Goto

LEMMA ValidatedTyped ==
    ASSUME NEW t \in TokenType
    PROVE  Validated(t) \in [id : Nat, role : UserRoles \cup {"none"}]
  BY DEF TokenType, Validated

LEMMA AuthGuardStep == ASSUME IInv, NEW r \in Req, AuthGuard(r) PROVE IInv'
  <1>1. req[r].pc = "guard" /\ UNCHANGED <<users, issued>> /\ store \in StoreType /\ 401 \in Nat
        /\ 403 \in Nat /\ NoId \in Nat
    BY DEF AuthGuard, At, IInv, NoId
  <1>2. CASE IsOpen(r)
    <2>1. Goto(r, "guarded") /\ UNCHANGED store
      BY <1>2 DEF AuthGuard
    <2>2. QED BY <1>1, <1>2, <2>1, GoneOn, LetInStep
  <1>3. CASE ~IsOpen(r)
    <2>1. CheckToken(r, RolesOf(req[r].call))
      BY <1>3 DEF AuthGuard
    <2>2. CASE Reply(r, 401, NoId) /\ UNCHANGED store
      BY <1>1, <2>2, SameUsers, ReplyStep
    <2>3. CASE Reply(r, 403, NoId) /\ UNCHANGED store
      BY <1>1, <2>3, SameUsers, ReplyStep
    <2>4. CASE /\ req[r].token \in issued /\ req[r].token.role \in RolesOf(req[r].call)
               /\ store' = [store EXCEPT !.userId = req[r].token.userId,
                                         !.userRole = req[r].token.role]
               /\ req' = [req EXCEPT ![r].pc = "guarded", ![r].user = Validated(req[r].token)]
      <3>1. req[r].token \in TokenType
        BY <2>4 DEF IInv
      <3>2. store' \in StoreType
        BY <1>1, <2>4, <3>1 DEF StoreType, TokenType
      <3>3. QED BY <1>1, <2>4, <3>1, <3>2, ValidatedTyped, LetInStep
    <2>5. QED BY <2>1, <2>2, <2>3, <2>4 DEF CheckToken
  <1>4. QED BY <1>2, <1>3

LEMMA RefreshTokenGuardStep == ASSUME IInv, NEW r \in Req, RefreshTokenGuard(r) PROVE IInv'
  <1>1. req[r].pc = "guarded" /\ UNCHANGED <<users, issued, store>> /\ store \in StoreType
        /\ 401 \in Nat /\ NoId \in Nat /\ RequestOK(r)
    BY DEF RefreshTokenGuard, At, IInv, NoId
  <1>2. Goto(r, "handler") \/ Reply(r, 401, NoId)
    BY DEF RefreshTokenGuard
  <1>3. CASE Reply(r, 401, NoId)
    BY <1>1, <1>3, SameUsers, ReplyStep
  <1>4. CASE Goto(r, "handler")
    <2>1. IsOpen(r) \/ /\ req[r].token \in issued
                       /\ req[r].token.role \in RolesOf(req[r].call)
                       /\ req[r].user = Validated(req[r].token)
      BY <1>1 DEF RequestOK, LetIn
    <2>2. QED BY <1>1, <1>4, <2>1, GoneOn, LetInStep
  <1>5. QED BY <1>2, <1>3, <1>4
-----------------------------------------------------------------------------
LEMMA GenerateAdminStep == ASSUME IInv, GenerateAdmin PROVE IInv'
  <1>1. PICK email \in Emails : users' = CreateMany(users, <<UserRow(email, "Admin", "Active", TRUE)>>)
    BY DEF GenerateAdmin
  <1> DEFINE row == UserRow(email, "Admin", "Active", TRUE)
  <1>2. row \in UserRows /\ row.hasBusiness
    BY DEF UserRow, UserRows, UserRoles
  <1> HIDE DEF row
  <1>3. UsersKept
    BY <1>1, <1>2, MoreUsers DEF row
  <1>4. UNCHANGED <<issued, store, req>>
    BY DEF GenerateAdmin
  <1>5. \A s \in Req : RequestOK(s)'
    BY <1>3, <1>4, OthersKept
  <1>6. \A t \in issued' : TokenOK(t)'
    BY <1>3, <1>4, TokensKept
  <1>7. QED BY <1>3, <1>4, <1>5, <1>6 DEF IInv, UsersKept

\* The rows that are live are rows.
LEMMA LiveUsers == ASSUME IInv PROVE Live(users) \subseteq DOMAIN users /\ DOMAIN users \subseteq Nat
  BY DEF IInv, Live

LEMMA LoginFindStep == ASSUME IInv, NEW r \in Req, LoginFind(r) PROVE IInv'
  <1>1. /\ req[r].pc = "handler" /\ Handler(r) = "login" /\ UNCHANGED <<users, issued, store>>
        /\ \/ Reply(r, 404, NoId) \/ Reply(r, 403, NoId)
           \/ \E id \in Live(users) :
                /\ users[id].status \in {"Active"}
                /\ req' = [req EXCEPT ![r].pc = "compare", ![r].row = id,
                                      ![r].role = users[id].role]
    BY DEF LoginFind, FindLogin, At
  <1>2. store \in StoreType /\ 404 \in Nat /\ 403 \in Nat /\ NoId \in Nat /\ RequestOK(r)
    BY DEF IInv, NoId
  <1>3. /\ req[r].pc = "handler" /\ Handler(r) = "login" /\ UNCHANGED <<users, issued, store>>
        /\ store' \in StoreType /\ RequestOK(r)
    BY <1>1, <1>2
  <1>4. CASE Reply(r, 404, NoId) \/ Reply(r, 403, NoId)
    BY <1>3, <1>2, <1>4, SameUsers, ReplyStep
  <1>5. ASSUME NEW id \in Live(users), users[id].status \in {"Active"},
               req' = [req EXCEPT ![r].pc = "compare", ![r].row = id, ![r].role = users[id].role]
        PROVE  IInv'
    <2> DEFINE q == [req[r] EXCEPT !.pc = "compare", !.row = id, !.role = users[id].role]
    <2>1. id \in DOMAIN users /\ id \in Nat /\ users[id] \in UserRows
      BY LiveUsers DEF IInv
    <2>2. users[id].hasBusiness /\ users[id].role \in UserRoles
      BY <1>5, <2>1 DEF IInv, UsersOK, UserRows
    <2>3. req \in [Req -> ReqType] /\ req[r] \in ReqType
      BY DEF IInv
    <2>4. q \in ReqType /\ req' = [req EXCEPT ![r] = q] /\ req'[r] = q
      BY <1>5, <2>1, <2>2, <2>3 DEF ReqType
    <2>5. /\ q.pc = "compare" /\ q.row = id /\ q.role = users[id].role /\ q.email = req[r].email
          /\ q.call = req[r].call /\ q.token = req[r].token /\ q.user = req[r].user
      BY <2>3 DEF ReqType
    <2> HIDE DEF q
    <2>6. LetIn(r)'
      BY <1>3, <2>4, <2>5 DEF RequestOK, LetIn, IsOpen
    <2>7. Compares(r)'
      BY <1>3, <2>1, <2>2, <2>4, <2>5 DEF Compares, Handler
    <2>8. IsTold(r)'
      BY <2>4, <2>5 DEF IsTold, TellsWhoItIs
    <2>9. RequestOK(r)'
      BY <1>3, <2>4, <2>5, <2>6, <2>7, <2>8 DEF RequestOK
    <2>10. QED BY <1>3, <2>4, <2>9, SameUsers, UnsignedStep
  <1>6. QED BY <1>1, <1>4, <1>5

\* A request is answered with the tokens it has signed.
LEMMA SignedStep ==
    ASSUME IInv, NEW r \in Req, req[r].pc # "idle", NEW row \in Nat, Reply(r, 200, row),
           Handler(r) # "getMyInformation", UNCHANGED <<users, store>>,
           NEW payload \in [userId : Nat, role : UserRoles, owner : Nat, from : UserRoles],
           issued' = issued \cup Tokens(payload),
           payload.owner \in DOMAIN users, users[payload.owner].hasBusiness,
           payload.userId \in {NoId, payload.owner}, payload.role = payload.from
    PROVE  IInv'
  <1> DEFINE q == Answer(req[r], 200, row)
  <1>1. q \in ReqType /\ req' = [req EXCEPT ![r] = q] /\ req'[r] = q
    BY AnswerTyped
  <1>2. req[r] \in ReqType /\ store' \in StoreType /\ req[r].email \in Emails
        /\ issued \subseteq TokenType
    BY DEF IInv, RequestOK
  <1>3. q.pc = "replied" /\ q.email = req[r].email /\ q.call = req[r].call
    BY <1>2 DEF Answer, ReqType
  <1> HIDE DEF q
  <1>4. RequestOK(r)'
    <2>1. LetIn(r)' /\ Compares(r)'
      BY <1>1, <1>3 DEF LetIn, Compares
    <2>2. IsTold(r)'
      BY <1>1, <1>3 DEF IsTold, AsksWhoItIs, Handler
    <2>3. QED BY <1>1, <1>2, <1>3, <2>1, <2>2 DEF RequestOK
  <1>5. UsersKept /\ \A t \in issued : TokenOK(t)'
    BY SameUsers, TokensKept
  <1>6. issued \subseteq issued' /\ issued' \subseteq TokenType
    BY <1>2, TokensSigned
  <1>7. ASSUME NEW t \in Tokens(payload) PROVE TokenOK(t)'
    BY TokensSigned DEF TokenOK
  <1>8. QED BY <1>1, <1>2, <1>4, <1>5, <1>6, <1>7, RequestStep

LEMMA LoginCompareStep == ASSUME IInv, NEW r \in Req, LoginCompare(r) PROVE IInv'
  <1>1. /\ req[r].pc = "compare" /\ UNCHANGED <<users, store>>
        /\ 401 \in Nat /\ NoId \in Nat /\ RequestOK(r) /\ users \in Seq(UserRows)
    BY DEF LoginCompare, At, IInv, NoId
  <1>2. /\ Handler(r) = "login" /\ req[r].role \in UserRoles
        /\ req[r].row \in DOMAIN users /\ users[req[r].row].hasBusiness
    BY <1>1 DEF RequestOK, Compares
  <1>3. CASE Reply(r, 401, NoId) /\ UNCHANGED issued
    BY <1>1, <1>3, SameUsers, ReplyStep
  <1> DEFINE payload == [userId |-> req[r].row, role |-> req[r].role,
                         owner |-> req[r].row, from |-> req[r].role]
  <1>4. CASE issued' = issued \cup Tokens(payload) /\ Reply(r, 200, req[r].row)
    <2>1. req[r].row \in Nat
      BY <1>1, <1>2
    <2>2. payload \in [userId : Nat, role : UserRoles, owner : Nat, from : UserRoles]
          /\ payload.owner = req[r].row /\ payload.userId = req[r].row
          /\ payload.role = payload.from
      BY <1>2, <2>1
    <2> HIDE DEF payload
    <2>3. QED BY <1>1, <1>2, <1>4, <2>1, <2>2, SignedStep
  <1>5. QED BY <1>3, <1>4 DEF LoginCompare

LEMMA ClosedRequest ==
    ASSUME IInv, NEW r \in Req, RolesOf(req[r].call) = AdminOnly \/ Handler(r) \in Own
    PROVE  ~IsOpen(r)
  <1>1. req[r].call \in Calls
    BY DEF IInv, ReqType
  <1>2. QED BY <1>1, ClosedRoutes DEF IsOpen, Handler

LEMMA RefreshTokenStep == ASSUME IInv, NEW r \in Req, RefreshToken(r) PROVE IInv'
  <1>1. /\ req[r].pc = "handler" /\ Handler(r) = "refreshToken" /\ UNCHANGED <<users, store>>
        /\ Reply(r, 200, NoId) /\ NoId \in Nat /\ RequestOK(r)
    BY DEF RefreshToken, At, IInv, NoId
  <1>2. ~IsOpen(r)
    BY <1>1, ClosedRequest DEF Own
  <1>3. req[r].token \in issued /\ req[r].user = Validated(req[r].token)
    BY <1>1, <1>2 DEF RequestOK, LetIn
  <1> DEFINE t == req[r].token
  <1>4. t \in TokenType /\ TokenOK(t)
    BY <1>3 DEF IInv
  <1>5. req[r].user.role = t.role
    BY <1>3, <1>4 DEF Validated
  <1> HIDE DEF t
  <1> DEFINE payload == [userId |-> NoId, role |-> req[r].user.role,
                         owner |-> t.owner, from |-> t.from]
  <1>6. payload \in [userId : Nat, role : UserRoles, owner : Nat, from : UserRoles]
        /\ payload.owner = t.owner /\ payload.userId = NoId /\ payload.role = t.role
        /\ payload.from = t.from
    BY <1>1, <1>4, <1>5 DEF TokenType
  <1>7. issued' = issued \cup Tokens(payload)
    BY DEF RefreshToken, t
  <1> HIDE DEF payload
  <1>8. QED BY <1>1, <1>4, <1>6, <1>7, SignedStep DEF TokenOK
-----------------------------------------------------------------------------
LEMMA DetailFindStep == ASSUME IInv, NEW r \in Req, DetailFind(r) PROVE IInv'
  <1>1. /\ req[r].pc = "handler" /\ UNCHANGED <<users, issued, store>> /\ store \in StoreType
        /\ 404 \in Nat /\ 500 \in Nat /\ NoId \in Nat /\ RequestOK(r)
        /\ req[r] \in ReqType /\ req \in [Req -> ReqType]
    BY DEF DetailFind, DetailFor, At, IInv, NoId
  <1> DEFINE found == FindById(IF Handler(r) = "getUserDetail" THEN req[r].id ELSE req[r].user.id)
  <1>2. found \subseteq Nat
    BY LiveUsers DEF FindById
  <1>3. CASE Reply(r, 404, NoId)
    BY <1>1, <1>3, SameUsers, ReplyStep
  <1>4. ASSUME NEW id \in found, Reply(r, 500, id) PROVE IInv'
    BY <1>1, <1>2, <1>4, SameUsers, ReplyStep
  <1>5. ASSUME NEW id \in found, req' = [req EXCEPT ![r].pc = "companies", ![r].row = id]
        PROVE  IInv'
    <2> DEFINE q == [req[r] EXCEPT !.pc = "companies", !.row = id]
    <2>1. id \in Nat
      BY <1>2
    <2>2. q \in ReqType /\ req' = [req EXCEPT ![r] = q] /\ req'[r] = q
      BY <1>1, <1>5, <2>1 DEF ReqType
    <2>3. /\ q.pc = "companies" /\ q.row = id /\ q.email = req[r].email
          /\ q.call = req[r].call /\ q.token = req[r].token /\ q.user = req[r].user
      BY <1>1 DEF ReqType
    <2> HIDE DEF q
    <2>4. LetIn(r)' /\ Compares(r)'
      BY <1>1, <2>2, <2>3 DEF RequestOK, LetIn, Compares, IsOpen
    <2>5. AsksWhoItIs(r) => id = req[r].token.owner
      <3> SUFFICES ASSUME AsksWhoItIs(r) PROVE id = req[r].token.owner
        OBVIOUS
      <3>1. Handler(r) = "getMyInformation" /\ req[r].token.userId # NoId
        BY DEF AsksWhoItIs
      <3>2. req[r].token \in issued /\ req[r].user = Validated(req[r].token)
        BY <1>1, <3>1, ClosedRequest DEF RequestOK, LetIn, Own
      <3>3. req[r].user.id = req[r].token.userId /\ req[r].token.userId = req[r].token.owner
        BY <3>1, <3>2 DEF IInv, TokenOK, Validated
      <3>4. found = FindById(req[r].token.owner) /\ req[r].token.owner # NoId
        BY <3>1, <3>3
      <3>5. QED BY <3>4 DEF FindById
    <2>6. IsTold(r)'
      BY <2>2, <2>3, <2>5 DEF IsTold, AsksWhoItIs, Handler
    <2>7. RequestOK(r)'
      BY <1>1, <2>2, <2>3, <2>4, <2>6 DEF RequestOK
    <2>8. QED BY <1>1, <2>2, <2>7, SameUsers, UnsignedStep
  <1> HIDE DEF found
  <1>6. QED BY <1>3, <1>4, <1>5 DEF DetailFind, DetailFor, found

LEMMA DetailReplyStep == ASSUME IInv, NEW r \in Req, DetailReply(r) PROVE IInv'
  <1>1. /\ req[r].pc = "companies" /\ UNCHANGED <<users, issued, store>>
        /\ Reply(r, 200, req[r].row) /\ RequestOK(r) /\ 200 \in Nat
    BY DEF DetailReply, At, IInv
  <1>2. req[r].row \in Nat
    BY DEF IInv, ReqType
  <1>3. AsksWhoItIs(r) => req[r].row = req[r].token.owner
    BY <1>1 DEF RequestOK, IsTold, TellsWhoItIs
  <1>4. QED BY <1>1, <1>2, <1>3, SameUsers, ReplyStep

LEMMA CreateUserStep == ASSUME IInv, NEW r \in Req, CreateUser(r) PROVE IInv'
  <1>1. /\ req[r].pc = "handler" /\ UNCHANGED <<issued, store>> /\ NoId \in Nat
        /\ Len(users) \in Nat /\ Len(users') = Len(users') /\ req[r].email \in Emails
    BY DEF CreateUser, InsertUser, At, IInv, NoId, RequestOK
  <1>2. CASE \E status \in {409, 500} : Reply(r, status, NoId) /\ UNCHANGED users
    BY <1>1, <1>2, SameUsers, ReplyStep
  <1>3. ASSUME NEW role \in UserRoles, Reply(r, 201, Len(users')),
               users' = CreateMany(users, <<UserRow(req[r].email, role, "Inactive", FALSE)>>)
        PROVE  IInv'
    <2> DEFINE row == UserRow(req[r].email, role, "Inactive", FALSE)
    <2>1. row \in UserRows /\ row.status = "Inactive"
      BY <1>1 DEF UserRow, UserRows
    <2> HIDE DEF row
    <2>2. UsersKept
      BY <1>3, <2>1, MoreUsers DEF row
    <2>3. Len(users') \in Nat
      BY <2>2 DEF UsersKept
    <2>4. QED BY <1>1, <1>3, <2>2, <2>3, ReplyStep
  <1>4. QED BY <1>2, <1>3 DEF CreateUser, InsertUser

LEMMA UpdateUserStep == ASSUME IInv, NEW r \in Req, UpdateUser(r) PROVE IInv'
  <1>1. /\ req[r].pc = "handler" /\ UNCHANGED <<issued, store>> /\ NoId \in Nat
        /\ req[r].email \in Emails /\ req[r].id \in Nat
        /\ Handler(r) = "updateUser" /\ ~AsksWhoItIs(r)
    BY DEF UpdateUser, At, IInv, NoId, RequestOK, AsksWhoItIs, ReqType
  <1>2. CASE \E status \in {404, 500} : Reply(r, status, NoId) /\ UNCHANGED users
    BY <1>1, <1>2, SameUsers, ReplyStep
  <1>3. ASSUME NEW role \in UserRoles, users' = UpdateMany(users, {req[r].id}, "role", role),
               Reply(r, 200, req[r].id)
        PROVE  IInv'
    <2>1. UsersKept
      BY <1>3, WrittenUsers
    <2>2. QED BY <1>1, <1>3, <2>1, ReplyStep
  <1>4. CASE /\ users' = UpdateMany(users, {req[r].id}, "email", req[r].email)
             /\ Reply(r, 200, req[r].id)
    <2>1. UsersKept
      BY <1>1, <1>4, WrittenUsers
    <2>2. QED BY <1>1, <1>4, <2>1, ReplyStep
  <1>5. QED BY <1>2, <1>3, <1>4 DEF UpdateUser

LEMMA DeleteUserStep == ASSUME IInv, NEW r \in Req, DeleteUser(r) PROVE IInv'
  <1>1. /\ req[r].pc = "handler" /\ UNCHANGED <<issued, store>> /\ NoId \in Nat
        /\ req[r].id \in Nat
    BY DEF DeleteUser, At, IInv, NoId, ReqType
  <1>2. CASE Reply(r, 404, NoId) /\ UNCHANGED users
    BY <1>1, <1>2, SameUsers, ReplyStep
  <1>3. CASE users' = DeleteMany(users, {req[r].id}) /\ Reply(r, 204, req[r].id)
    <2>1. UsersKept
      BY <1>3, WrittenUsers DEF DeleteMany
    <2>2. QED BY <1>1, <1>3, <2>1, ReplyStep
  <1>4. QED BY <1>2, <1>3 DEF DeleteUser

LEMMA OtherHandlerStep == ASSUME IInv, NEW r \in Req, OtherHandler(r) PROVE IInv'
  <1>1. /\ req[r].pc = "handler" /\ UNCHANGED <<users, issued, store>> /\ NoId \in Nat
        /\ Reply(r, 200, NoId) /\ ~AsksWhoItIs(r)
    BY DEF OtherHandler, Detailed, At, NoId, AsksWhoItIs
  <1>2. QED BY <1>1, SameUsers, ReplyStep
-----------------------------------------------------------------------------
LEMMA NextIInv == IInv /\ [Next]_vars => IInv'
  <1> SUFFICES ASSUME IInv, [Next]_vars PROVE IInv'
    OBVIOUS
  <1>1. CASE UNCHANGED vars
    <2>1. UNCHANGED <<users, issued, store, req>>
      BY <1>1 DEF vars
    <2>2. \A t \in issued : TokenOK(t)'
      BY <2>1, SameUsers, TokensKept
    <2>3. \A s \in Req : RequestOK(s)'
      BY <2>1, SameUsers, OthersKept
    <2>4. QED BY <2>1, <2>2, <2>3, SameUsers DEF IInv, UsersKept
  <1>2. CASE GenerateAdmin
    BY <1>2, GenerateAdminStep
  <1>3. ASSUME NEW r \in Req,
               \/ Arrive(r) \/ AuthGuard(r) \/ RefreshTokenGuard(r)
               \/ LoginFind(r) \/ LoginCompare(r) \/ RefreshToken(r)
        PROVE  IInv'
    BY <1>3, ArriveStep, AuthGuardStep, RefreshTokenGuardStep, LoginFindStep,
       LoginCompareStep, RefreshTokenStep
  <1>4. ASSUME NEW r \in Req,
               \/ DetailFind(r) \/ DetailReply(r) \/ CreateUser(r)
               \/ UpdateUser(r) \/ DeleteUser(r) \/ OtherHandler(r)
        PROVE  IInv'
    BY <1>4, DetailFindStep, DetailReplyStep, CreateUserStep, UpdateUserStep,
       DeleteUserStep, OtherHandlerStep
  <1>5. QED BY <1>1, <1>2, <1>3, <1>4 DEF Next, Done

LEMMA IInvAlways == Spec => []IInv
  BY InitIInv, NextIInv, PTL DEF Spec

\* Users, tokens and the store keep their types.
THEOREM SessionsTyped == Spec => []TypeOK
  <1>1. IInv => TypeOK
    BY DEF IInv, TypeOK, TokenType, StoreType
  <1>2. QED BY <1>1, IInvAlways, PTL

\* Whoever holds a token was made by generate-admin.
THEOREM GeneratedAdminsOnly == Spec => []OnlyGeneratedAdminsLogIn
  <1>1. IInv => OnlyGeneratedAdminsLogIn
    BY DEF IInv, TokenOK, OnlyGeneratedAdminsLogIn
  <1>2. QED BY <1>1, IInvAlways, PTL

\* Whoever asks who it is, with a token that names it, is told so, whatever
\* else the server does between its awaits.
THEOREM CallerIsTold == Spec => []MeIsTheCaller
  <1>1. IInv => MeIsTheCaller
    BY DEF IInv, RequestOK, IsTold, AsksWhoItIs, TellsWhoItIs, MeIsTheCaller, At
  <1>2. QED BY <1>1, IInvAlways, PTL

\* No chain of refreshes turns a token into an admin's.
THEOREM AdminsByLogin == Spec => []AdminHandlersForAdmins
  <1>1. ASSUME IInv, NEW r \in Req, At(r, "handler") \/ At(r, "companies"),
               RolesOf(req[r].call) = AdminOnly
        PROVE  req[r].token.from = "Admin"
    <2>1. ~IsOpen(r)
      BY <1>1, ClosedRequest
    <2>2. req[r].token \in issued /\ req[r].token.role \in AdminOnly
      BY <1>1, <2>1 DEF IInv, RequestOK, LetIn, At
    <2>3. TokenOK(req[r].token)
      BY <1>1, <2>2 DEF IInv
    <2>4. QED BY <2>2, <2>3 DEF TokenOK, AdminOnly
  <1>2. IInv => AdminHandlersForAdmins
    BY <1>1 DEF AdminHandlersForAdmins
  <1>3. QED BY <1>2, IInvAlways, PTL

\* Every call, of any number of them, gets to the route it names.
THEOREM RoutedByName == Spec => []AnsweredByItsRoute
  <1>1. IInv => AnsweredByItsRoute
    BY Answered DEF IInv, ReqType, AnsweredByItsRoute
  <1>2. QED BY <1>1, IInvAlways, PTL
=============================================================================
