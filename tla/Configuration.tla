---------------------------- MODULE Configuration ---------------------------
(* How the server config is built at start-up from the environment,           *)
(* package.json and the defaults.                                             *)
(*                                                                            *)
(* A variable of the environment is unset, empty, a number, a text or a comma *)
(* (a text with a comma); NODE_ENV may be local or another member of its      *)
(* enum, DATABASE_URL a url.  A value of the config is a class as well:       *)
(* "default" is the one of the defaults.                                      *)
EXTENDS Naturals

CONSTANTS
    MaxOdd      \* bound: variables set besides the two that must be

\* The keys that are numbers, texts, and a list; BACKUP_PATH has another
\* key's variable, the last two come from package.json.
NumberKeys == {"SERVER_PORT", "BCRYPT_SALT_ROUNDS", "THROTTLER_TTL", "THROTTLER_LIMIT",
               "HTTP_REQUEST_TIMEOUT", "PAGE_SIZE_MAX", "REDIS_PORT"}
TextKeys == {"API_PREFIX", "SWAGGER_ENDPOINT", "NODE_ENV", "DATABASE_URL", "TZ",
             "JWT_SECRET", "JWT_ACCESS_EXPIRED", "JWT_REFRESH_EXPIRED", "SMTP_GMAIL_USER",
             "SMTP_GMAIL_PASS", "REDIS_HOST", "REDIS_PASSWORD", "DISK_STORAGE_PATH",
             "EXECUTIVE_STORAGE_PATH", "BACKUP_PATH", "PEOPLE_DATA_LAB_API_KEY"}
PackageKeys == {"APP_VERSION", "APP_NAME"}

MAIN_CONFIG ==
    [k \in NumberKeys \cup TextKeys \cup PackageKeys \cup {"PRISMA_LOG_LEVEL"} |->
        [kind |-> CASE k \in NumberKeys -> "number"
                    [] k \in TextKeys -> "text"
                    [] k \in PackageKeys -> "package"
                    [] OTHER -> "list",
         variable |-> IF k = "BACKUP_PATH" THEN "DISK_STORAGE_PATH" ELSE k]]

\* The keys without a default are those of the database, mail and People Data
\* Labs; that of REDIS_PASSWORD is undefined.
SERVER_CONFIG_DEFAULT ==
    [k \in DOMAIN MAIN_CONFIG \ {"DATABASE_URL", "SMTP_GMAIL_USER", "SMTP_GMAIL_PASS",
                                 "PEOPLE_DATA_LAB_API_KEY"} |->
        IF k = "REDIS_PASSWORD" THEN "undefined" ELSE "default"]

VARIABLES
    env,        \* process.env
    pc,         \* the step of ServerConfig.initialize
    config      \* the config so far

vars == <<env, pc, config>>

Variables == {MAIN_CONFIG[k].variable : k \in DOMAIN MAIN_CONFIG \ PackageKeys}
Usual == [v \in Variables |->
            CASE v = "NODE_ENV" -> "member" [] v = "DATABASE_URL" -> "url" [] OTHER -> "unset"]
EnvValues(v) ==
    {"unset", "empty", "number", "text", "comma"}
    \cup (IF v = "NODE_ENV" THEN {"local", "member"} ELSE {})

\* At most MaxOdd variables are not as usual.
Environments ==
    {[v \in Variables |-> IF v \in DOMAIN odd THEN odd[v] ELSE Usual[v]] :
        odd \in UNION {{o \in [{at[i] : i \in 1..MaxOdd} -> UNION {EnvValues(v) : v \in Variables}] :
                            \A v \in DOMAIN o : o[v] \in EnvValues(v)} :
                         at \in [1..MaxOdd -> Variables]}}

Init ==
    /\ env \in Environments
    /\ pc = "validate"
    /\ config = [k \in DOMAIN MAIN_CONFIG |-> "undefined"]

Goto(next) == pc' = next /\ UNCHANGED <<env, config>>

\* Joi: NODE_ENV is a member of its enum, DATABASE_URL a text that is not empty.
ValidateEnvironmentVariables ==
    /\ pc = "validate"
    /\ IF env["NODE_ENV"] \in {"local", "member"} /\ env["DATABASE_URL"] \notin {"unset", "empty"}
       THEN Goto("read") ELSE Goto("invalid")

\* MAIN_CONFIG: "+" makes a number of a variable and NaN of what is none; the
\* empty text becomes 0.
Parse(kind, v) ==
    CASE v = "unset" -> IF kind = "number" THEN "NaN" ELSE "undefined"
      [] kind = "number" -> IF v \in {"empty", "number"} THEN "number" ELSE "NaN"
      [] kind = "list" -> "array"
      [] OTHER -> IF v = "number" THEN "text" ELSE v

\* package.json is read, or is not there; it may leave out version and name, and
\* _.startCase(undefined) is the empty text.
ReadPackageJsonFile ==
    /\ pc = "read"
    /\ \/ Goto("unread")
       \/ /\ \E version \in {"text", "undefined"}, name \in {"text", "empty"} :
               config' = [k \in DOMAIN MAIN_CONFIG |->
                            CASE k = "APP_VERSION" -> version
                              [] k = "APP_NAME" -> name
                              [] OTHER -> Parse(MAIN_CONFIG[k].kind, env[MAIN_CONFIG[k].variable])]
          /\ pc' = "convert" /\ UNCHANGED env

\* Every text with a comma becomes an array, whatever its key.
ConvertStringToArray ==
    /\ pc = "convert"
    /\ config' = [k \in DOMAIN MAIN_CONFIG |-> IF config[k] = "comma" THEN "array" ELSE config[k]]
    /\ pc' = "assign" /\ UNCHANGED env

\* Slip: only nil is replaced by the default.
AssignNil(key) == IF config[key] = "undefined" THEN SERVER_CONFIG_DEFAULT[key] ELSE config[key]

\* assignCustomizer of a key that the config has, where neither is an object:
\* no value of the config is one.
AssignCustomizer(key) ==
    IF config[key] \in {"undefined", "NaN"} THEN SERVER_CONFIG_DEFAULT[key] ELSE config[key]

\* assignWith: a default whose key the config lacks is an error.  (So is one that
\* is an object; none is.)
Assign ==
    /\ pc = "assign"
    /\ IF DOMAIN SERVER_CONFIG_DEFAULT \subseteq DOMAIN MAIN_CONFIG
       THEN /\ config' = [k \in DOMAIN MAIN_CONFIG |->
                            IF k \in DOMAIN SERVER_CONFIG_DEFAULT THEN AssignCustomizer(k)
                            ELSE config[k]]
            /\ pc' = "ready" /\ UNCHANGED env
       ELSE Goto("misconfigured")

Stopped == pc \in {"ready", "invalid", "unread", "misconfigured"} /\ UNCHANGED vars

Next == \/ ValidateEnvironmentVariables \/ ReadPackageJsonFile
        \/ ConvertStringToArray \/ Assign \/ Stopped

Spec == Init /\ [][Next]_vars
-----------------------------------------------------------------------------
\* Once the config is ready no key is NaN, a number is never a text or an
\* array, and only the keys without a default may be undefined; and the defaults
\* never keep it from becoming ready.
ReadyIsComplete ==
    /\ pc # "misconfigured"
    /\ pc = "ready" =>
         \A k \in DOMAIN MAIN_CONFIG :
            /\ config[k] # "NaN"
            /\ MAIN_CONFIG[k].kind = "number" => config[k] \in {"number", "default"}
            /\ config[k] = "undefined" =>
                 k \notin DOMAIN SERVER_CONFIG_DEFAULT \/ SERVER_CONFIG_DEFAULT[k] = "undefined"
=============================================================================
