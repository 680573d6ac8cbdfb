------------------------------- MODULE Routes -------------------------------
(* The routes of the api: which handler answers a call, the guards in front   *)
(* of it and the roles it is open to.                                         *)
(*                                                                            *)
(* A controller is the sequence of its routes in the order of its methods,    *)
(* the order in which Nest registers them: the first route that matches a     *)
(* call answers it, and the segment ":id" matches everything.  The handlers   *)
(* whose @Post is commented out are no routes.                                *)
EXTENDS Naturals, Sequences, FiniteSetsExt

\* AccessRole and UserRole: the roles routes name and the roles users have.
AccessRoles == {"Admin", "User", "Public"}
UserRoles == {"Admin", "User", "Business"}

\* The three arguments RoleBaseAccessControl takes: a role, roles, or true.
AdminOnly == {"Admin"}
Public == {"Public"}
AllRoleExceptPublic == AccessRoles \ Public

\* A route: roles is {} where the handler has no metadata of its own, and
\* guards are those of the handler, run after the guards of its class.
Route(verb, seg, handler) ==
    [verb |-> verb, seg |-> seg, handler |-> handler, roles |-> {}, guards |-> << >>]
Get(seg, handler) == Route("GET", seg, handler)
Post(seg, handler) == Route("POST", seg, handler)
OpenTo(route, roles) == [route EXCEPT !.roles = roles]
Guarded(route, guard) == [route EXCEPT !.guards = <<guard>>]

Put(handler) == Route("PUT", ":id", handler)
Delete(handler) == Route("DELETE", ":id", handler)

\* Slip: GET me is declared after ":id", which matches it as well.
UserControllerDetailFirst ==
    [roles |-> AdminOnly, guards |-> <<"jwt">>,
     routes |-> <<Post("", "createUser"), Get("", "getUserList"),
                  Get(":id", "getUserDetail"),
                  OpenTo(Get("me", "getMyInformation"), AllRoleExceptPublic),
                  Put("updateUser"), Delete("deleteUser")>>]

UserController ==
    [roles |-> AdminOnly, guards |-> <<"jwt">>,
     routes |-> <<Post("", "createUser"), Get("", "getUserList"),
                  OpenTo(Get("me", "getMyInformation"), AllRoleExceptPublic),
                  Get(":id", "getUserDetail"), Put("updateUser"), Delete("deleteUser")>>]

ExecutiveCompanyController ==
    [roles |-> AdminOnly, guards |-> <<"jwt">>,
     routes |-> <<Post("", "createExecutiveCompany"), Get("", "getExecutiveCompanyList"),
                  Get(":id", "getExecutiveCompanyDetail"), Put("updateExecutiveCompany"),
                  Delete("deleteExecutiveCompany")>>]

ExecutivePersonController ==
    [roles |-> AdminOnly, guards |-> <<"jwt">>,
     routes |-> <<Post("", "createExecutivePerson"), Get("", "getExecutivePersonList"),
                  Get("departments", "getExecutivePersonDepartment"),
                  Get("positions", "getExecutivePersonPosition"),
                  Get(":id", "getExecutivePersonDetail"), Put("updateExecutivePerson"),
                  Delete("deleteExecutivePerson")>>]

FootprintController ==
    [roles |-> AdminOnly, guards |-> <<"jwt">>,
     routes |-> <<Post("", "createFootprint"), Get("", "getFootprintList"),
                  Get("fake", "getFootprintFake"), Get(":id", "getFootprintDetail"),
                  Put("updateFootprint"), Delete("deleteFootprint")>>]

ExecutiveUploadController ==
    [roles |-> AdminOnly, guards |-> <<"jwt">>,
     routes |-> <<Post("", "createExecutiveUpload"), Get("", "getExecutiveUploadList"),
                  Post("save", "saveExecutiveUpload"),
                  Post("enrich", "enrichExecutiveUpload"),
                  Get(":id", "getExecutiveUploadDetail"),
                  Delete("deleteExecutiveUpload")>>]

\* forget-password and change-password are commented out.
AuthController ==
    [roles |-> AdminOnly, guards |-> <<"jwt">>,
     routes |-> <<OpenTo(Post("login", "login"), Public),
                  Guarded(Post("refresh-token", "refreshToken"), "jwt-refresh")>>]

TaskManagerController ==
    [roles |-> AdminOnly, guards |-> <<"jwt">>,
     routes |-> <<Post("trigger/backup", "triggerBackupDatabase")>>]

AppController ==
    [roles |-> Public, guards |-> << >>,
     routes |-> <<Get("timeout", "requestTimeout"),
                  Get("paginationCheck", "paginationCheck"),
                  Get("errorCheck", "errorCheck")>>]

HealthController ==
    [roles |-> Public, guards |-> << >>,
     routes |-> <<Get("disk", "diskHealthCheck"), Get("memory", "memoryHealthCheck"),
                  Get("prisma", "prismaHealthCheck")>>]

\* The controllers of the modules that AppModule imports, by their paths.
Controllers ==
    [user |-> UserController, company |-> ExecutiveCompanyController,
     person |-> ExecutivePersonController, footprint |-> FootprintController,
     upload |-> ExecutiveUploadController, auth |-> AuthController,
     task |-> TaskManagerController, app |-> AppController,
     health |-> HealthController]

Call(path, verb, seg) == [path |-> path, verb |-> verb, seg |-> seg]

\* One call for every route.
Calls == UNION {{Call(p, Controllers[p].routes[i].verb, Controllers[p].routes[i].seg) :
                    i \in DOMAIN Controllers[p].routes} : p \in DOMAIN Controllers}

\* The router: the first route of the controller that matches the call.
Dispatch(call) ==
    LET routes == Controllers[call.path].routes
        Matches(route) ==
            /\ route.verb = call.verb
            /\ route.seg = call.seg \/ (route.seg = ":id" /\ call.seg # "")
    IN routes[Min({i \in DOMAIN routes : Matches(routes[i])})]

\* getAllAndOverride: the metadata of the handler, or else of its class.
RolesOf(call) ==
    LET own == Dispatch(call).roles
    IN IF own = {} THEN Controllers[call.path].roles ELSE own

\* @UseGuards: those of the class first.
GuardsOf(call) == Controllers[call.path].guards \o Dispatch(call).guards
=============================================================================
