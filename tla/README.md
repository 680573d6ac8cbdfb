# A TLA+ model of the blokid-esp API

blokid-esp is a NestJS and Prisma/MySQL service.  Its one stateful workflow is
the enrichment of executives: an administrator uploads a csv file, saves its rows
as persons, and has People Data Labs enrich them in the background.  Around it
are plain resources (companies, persons, footprints, users), authentication with
JWTs, a backup of the database, and the usual HTTP pipeline.  The repository has
no tests, and no handler uses a transaction: what keeps the tables consistent is
the order of the statements, the unique indexes, and the promise chains.  That is
what the modules here describe, check and prove.

## Inventory

| component | state | operations | hard behaviour | what makes it correct |
|---|---|---|---|---|
| Executive upload and enrichment (`modules/executive/upload`) | ExecutiveUpload, ExecutivePerson, PersonEnrichment, EnrichmentRaw rows; csv files on disk; promise chains in memory | create, delete, save, enrich (list and detail read only) | overlapping requests at every await; two statements without a transaction; background jobs that finish late, twice or never; crashes | rows go in once and together, the mark comes after them, every status has a cause, InProgress ends |
| Executive persons, companies, footprints, users | their tables | create, list, detail, update, delete | find-then-write; unique keys that count deleted rows | the same as an atomic store, or an error |
| Database access (`modules/base/database`, `prisma/schema.prisma`) | all tables | Prisma statements rewritten for soft delete; default order of `findMany` | nested reads and unique indexes do not know of soft delete | a deleted row is never read by a statement nor written |
| Guard and request context (`guards`, `core/async-storage`) | one object for the whole process: correlation id, user id, role | set by middleware and guard, read by handlers | requests overwrite each other's | a handler reads its own caller |
| Authentication (`modules/auth`, `tools/generate-admin.ts`) | none but the tokens | login, refresh | what a refreshed token carries; roles that change after login | a token goes back to a login with its role |
| Pagination (`common/helpers/request.ts` and the lists) | none | page and cursor windows | a table that changes between pages; `skip` without a page | no row is missed or repeated without cause |
| Payload validation (`pipes`, `decorators`, the dtos, the filters of the lists) | none | convert, validate, write, filter | what a dto lets through and a column does not hold | a malformed body is refused before a statement |
| Http pipeline (`interceptors`, `exceptions`, `guards`, `app`) | none | guard, time out, validate, translate errors | a 408 while the handler runs on; a database that never answers | an answer to every request, and a status that is true |
| Scheduled backup (`task-schedule`) | dump files | the cron job, the trigger route | dumps nobody waits for; one directory, names from the clock | no dump without its directory, no complete dump lost |
| Configuration (`config`) | the config, built at the start | validate, parse, convert, default | numbers that are none, texts with commas | no NaN reaches the service |
| People Data Labs (`integrations/peopledatalab`) | external | bulk enrichment | fails, or answers late | |
| Email, http client, logger, swagger, developer tools | | | | |

How they interact: the middlewares and `AuthGuard` write the shared context, the
interceptor starts its timer, the pipe validates, the controller calls the
service, the service awaits `DatabaseService` (whose middleware rewrites the
statement), the csv reader and People Data Labs.  The only callbacks are the
`.then` and `.catch` of the enrichment and the end of `mysqldump`, which no
request waits for.

`PROJECT.json` lists every component with its status, and under `hazards` every
place of the code that is hard to test, with the property that covers it.

## Plan

Every step of the plan is done:

1. the upload workflow, its abstract specification, and the proofs about saving;
2. routes, guards, tokens and the shared context (`Routes`, `Sessions`);
3. the resources and the live store they implement (`Resources`, `LiveStore`);
4. `Pagination`;
5. `HttpPipeline`, the payloads (`Dtos`, `Schema`, `Filters`, `Payload`), and the
   backup with the configuration it runs under (`Backup`, `Configuration`, `Server`);
6. the proofs of what the runs check, and of both refinements.

What could be added: an upload service whose requests go through `HttpPipeline`
(a client that repeats an enrichment after a 408).  It is left out because the two
modules meet in nothing but the reply, which the upload model does not read.

## Modules

| module | models | uses |
|---|---|---|
| `SoftDelete` | `DatabaseService`: a table is the sequence of all rows ever inserted, ids are positions; reads and updates see the live rows only, inserts go through as they are | |
| `ExecutiveUpload` | `ExecutiveUploadService` and what it interacts with | `SoftDelete`, `UploadLifecycle` |
| `UploadLifecycle` | abstract: absent, created, inserted, saved, and the number of running jobs | |
| `Routes` | the controllers: their routes in the order of declaration, guards and roles | |
| `Sessions` | middlewares, guards, login, refresh, who a handler thinks is calling | `Routes`, `SoftDelete` |
| `Resources` | create, detail, update and delete of users, companies, persons, footprints | `SoftDelete`, `LiveStore` |
| `LiveStore` | abstract: a store of live rows with atomic requests | |
| `Pagination` | the lists, walked by a client while rows come and go | `SoftDelete` |
| `HttpPipeline` | guard, interceptor, pipe, handler, filter | |
| `Dtos`, `Schema`, `Filters` | the fields of the bodies and queries, the columns of the tables, the `where` of the lists | |
| `Payload` | one row written and listed through the api | those three |
| `Backup`, `Configuration` | the backups; the construction of the config | |
| `Server` | the process from its start: the config, then the backups under it | those two |
| `MC...` | the small instances for TLC | |
| `ExecutiveUploadProofs`, `EnrichmentProofs`, `ResourcesProofs`, `HttpPipelineProofs`, `ServerProofs`, `SessionsProofs`, `PaginationProofs`, `PayloadProofs` | the proofs | |

### How `ExecutiveUpload` corresponds to the code

Every request is a process.  `pc[r]` names the await request `r` is waiting at,
and an action is the completion of that await with all the code up to the next
one: Node runs that part without interruption, and anything may run at an await.
The actions are named after the handler and what is awaited:

| handler | actions |
|---|---|
| `AuthGuard.canActivate`, then the handler to its first await | `Arrive` |
| `createExecutiveUpload` | `CreateParse`, `CreateDuplicates`, `CreateUser`, `CreateInsert` |
| `deleteExecutiveUpload` | `DeleteFind`, `DeleteUpdate` |
| `saveExecutiveUpload` | `SaveFind`, `SaveParse`, `SaveParseMissing`, `SaveInsert`, `SaveMark` |
| `enrichExecutiveUpload` | `EnrichFind`, `EnrichUser`, `EnrichCompany`, the save actions when the upload was not saved, `EnrichPersons`, `EnrichRaw`, `EnrichMark` |
| its `.then` | `Answered`, `RecordResponse`, `InsertEnrichments`, `CompleteFound`, `FailOthers`, `ThenFails` |
| its `.catch` | `CallFails`, `CatchRaw`, `CatchPersons`, `CatchFails` |

`loc[r]` holds the local variables that outlive an await (the `isSaved` that was
read, the user id, the company, the persons found, the raw row), so stale reads
happen as they do in the code.  `currentUser` is the `userId` of the one
`AsyncStorage` object.  `jobs[j]` is the promise chain behind `raws[j]`; it lives
in memory and dies with the process.

Failures: a statement fails with no effect (`RequestFails`, `ThenFails`,
`CatchFails`), the connection is lost after the last statement committed
(`Finish`, `EnrichMark`, `FailOthers`), the process dies (`Crash`; `CatchFails`,
since nothing handles a rejection of the catch block; `SaveParseMissing`, since
the read stream of a missing file has no error listener).  A restart may find the
csv files of the uploads made so far gone: the deployment in the repository's
README mounts only the logs.  The admin's edits of persons and companies, each one
atomic statement here, are `CreatePerson`, `SetStatus`, `Rekey`, `DeletePerson`, `AssignCompany` and
`DeleteCompany`.

Abstracted: a csv is the sequence of its rows' unique keys, and an empty one
stands for every file that the checks of `createExecutiveUpload` reject; names,
phones and other columns are left out; ids, times and messages too.  A caller is
a user with a business: one without is answered with an error in every case.

Definitions marked *Slip*, here and in the other modules, are not part of the
model.  Each is the definition that follows it as a plausible bug would have it,
and is there to show that a property can fail.

### How the other modules correspond to the code

**`Routes`, `Sessions`.**  A controller is the sequence of its routes; `Dispatch`
finds the first whose segment matches, as the router does.  A request is `Arrive`
(the middlewares, one turn: a fresh correlation id in the store), `AuthGuard` or
`RefreshTokenGuard` (`CheckToken`: expired or unknown, wrong role, or let in, which
writes the store), then its handler: `LoginFind`, `LoginCompare`, `RefreshToken`,
`DetailFind`, `DetailReply`, `CreateUser`, `UpdateUser`, `DeleteUser`, or
`OtherHandler`.  `GenerateAdmin` is the script of that name.  `store` is the one
`AsyncStorage` object.  A token is its payload; `owner` and `from`, the user and
the role of the login it goes back to, are history that the code does not have.
The users routes are one statement each here; their find-then-write pairs are in
`Resources`.

**`Resources`.**  The four tables are one sequence; the kind of a row names its
table.  `FindEmail` (users) and `FindRow` are the first statements, `Insert`,
`Update`, `Delete` the second, `DetailReply` the reply to a read, and `Fail` a
statement that fails.  Unique indexes and foreign keys count deleted rows.

**`Pagination`.**  `FindMany` and `Count` are the two queries of one
`Promise.all`, in either order with anything in between; `Answer` is the client,
which the repository does not have: it asks for the next page (`NextPage`) or sends
the last id it got, with a page (`NextCursor(1)`) or without one.  `Orders` is what
"latest first" leaves open among rows of one millisecond.

**`HttpPipeline`.**  One action per stage in Nest's order.  Four kinds of handlers:
one that writes, `requestTimeout`, `errorCheck` and the ping of the health check.
`Tick` lets time pass for the handlers that have begun; `TimeoutIsOver` is the
interceptor's timer; `Send` is the end of the pipeline, which goes nowhere once
the interceptor has replied: rxjs sees to that, no code of the repository.

**`Payload`.**  A value is one of absent, null, empty, zero, fraction, valid, big,
true, false, list, wrong: what conversion, validation and the columns tell apart.  A
"big" value is of the field's type and too big for a column: a text of more than 191
characters, a number beyond 32 bits, a date beyond the year 9999.  `Create` and
`Update` take a body through pipe, service and statement (`Fits`), `List` a query
through pipe, `where`, Prisma's check of it (`Answerable`) and the row.  Whether
the partial dto of an update inherits the types to convert to is left to the
library: both are tried.

**`Configuration`, `Backup`, `Server`.**  `ValidateEnvironmentVariables`,
`ReadPackageJsonFile`, `ConvertStringToArray` and `Assign` are the calls of
`initialize`, in order.  A backup is `Begin` (up to `fs.access`), `MakeDirectory`,
`Exec`, and then both the function's `Return`, with the reply of the manager, and the
shell: `Open` and `Close`, in any order.  `Server` puts them together: a
backup runs only once the config is ready, the cron job only outside the local
environment, and one whose config is of no use is refused (`Refuse`).

## Checks

Run `tlc -config X.cfg M`.

| configuration | module | bounds | properties |
|---|---|---|---|
| `UploadSave` | `MCExecutiveUpload` | 3 requests that save or delete; 2 uploads of one company that share a person; 2 failures or crashes; 1 edit of any kind but `rekey` | `RowsInsertedOnce`, `SavedCompletely`, `HalfSavedIsFinal`, `DeletedRowsAreFrozen` |
| `UploadEnrich` | `MCExecutiveUpload` | 2 requests of every kind; 2 uploads; 2 failures or crashes; a deleted person or company, or a company given away | `TypeOK`, `StatusJustified`, `InProgressIsOwed`, `DeletedRowsAreFrozen`, `ImplementsLifecycle` |
| `UploadLiveness` | `MCExecutiveUpload` | 2 requests that save, enrich or delete; 1 upload; 1 failure; a person given another key; fairness; no symmetry | `EveryRequestEnds`, `EnrichmentSettles` |
| `UploadCaller` | `MCExecutiveUpload` | 2 requests of 2 users | `CheckedForTheCaller`, which fails |
| `Sessions` | `MCSessions` | 3 requests; an admin and a former admin logged in; a third email; 3 users at most | `TypeOK`, `OnlyGeneratedAdminsLogIn`, `MeIsTheCaller`, `AdminHandlersForAdmins`, `AnsweredByItsRoute` |
| `SessionsRefreshed` | `MCSessions` | 2 requests, else as before | `MyInformationIsMine`, which fails |
| `Resources` | `MCResources` | 3 requests; 5 rows of all tables, one deleted; a foreign key that names nothing; 1 failure | `TypeOK`, `DeletedOnce`, `KeysAreUnique`, `DeletedIsFrozen`, `ImplementsLiveStore` |
| `Pagination` | `MCPagination` | 4 or 5 rows, without and with equal times; pages of 1, 2, 3; 2 rows created and 1 deleted; fairness | `TypeOK`, `QuietWalkIsExact`, `InsertsHideOnlyUncounted`, `DeletesRepeatNothing`, `CursorMissesNothing`, `WalkEnds` |
| `PaginationCursorOnly` | `MCPagination` | pages of 2; a client that sends no page after the first | `PageOrCursorSuffices`, which fails |
| `HttpPipeline` | `MCHttpPipeline` | 2 requests; a timeout of 2 ticks; fairness | `TypeOK`, `StatusTellsEffect`, `HealthAnswersItself`, `Answered` |
| `Payload` | `MCPayload` | every resource; 1 field out of the ordinary in each of 3 bodies; queries of 2 parameters of 6 classes after 1 body | `TypeOK`, `RequiredIsNeverEmptied`, `OnlyKnownGapsFail`, `BoundsAreKept`, `NarrowingNeverWidens` |
| `Server` | `MCServer` | 1 cron and 1 triggered backup; 2 milliseconds; 1 variable of the environment out of the ordinary; fairness | `DirectoryComesFirst`, `ReadyIsComplete`, `CompleteFilesStay`, `BackupsEnd` |

What they show of the uploads:

- `RowsInsertedOnce`, `SavedCompletely`: the `isSaved` check does not keep two
  requests apart, but the unique index does, and `createMany` being one INSERT
  keeps the rows together.  This holds as long as no person of the upload is
  given another email or company between two saves (`rekey` is in neither run): with
  it the index can be passed, which is listed as a hazard.
- `DeletedRowsAreFrozen`, `ImplementsLifecycle`: whatever overlaps, fails or crashes,
  nothing writes a row that was deleted meanwhile, and an upload is created,
  inserted and marked saved in this order, each once, and enriched only after.
- `HalfSavedIsFinal`: a save that failed between the insert and the mark cannot be
  repaired through the API: the retry collides with its own rows, and deleting
  them does not help, since the index counts deleted rows.
- `StatusJustified`: with overlapping, late and half-failed jobs, *Completed*
  always has data behind it and *Failed* an empty answer or a caught error of the
  same upload.  It would be too strong to ask that the status be that of the last
  job: the catch of an earlier one overwrites it.
- `InProgressIsOwed`, `EnrichmentSettles`: persons stay *InProgress* only after a
  crash or a reply lost after its commit (`abrupt`); the code has nothing that picks
  them up again, so this is the strongest statement that holds.
- `CheckedForTheCaller` fails: the permission check of `enrichExecutiveUpload`, and the
  choice of company in `createExecutiveUpload`, use the id that the last request to
  pass the guard left in the shared store.

Two requests make every pair of handlers and of jobs overlap; three let two saves
race while a delete, or a retry, comes between.  One upload with two rows shows
partial inserts and answers that find one person, none or both.  Two failures
allow a failure and a second one in its handling.  Requests are interchangeable
and start alike, so their permutations are a symmetry (not used with liveness).

What they show of the rest:

- `MeIsTheCaller`: GET `user/me` reads the id from the request and not from the
  shared store, and so answers about its caller.  The only handlers that read the
  store are those of the uploads (`CheckedForTheCaller`).  The property speaks of
  tokens that name somebody.
- `MyInformationIsMine` asks the same of every token, and fails: a refreshed one
  names nobody, and GET `user/me` with it is about the first user found.
- `OnlyGeneratedAdminsLogIn`, `AdminHandlersForAdmins`: a role is copied into the
  tokens at login and from token to token; it never grows.  That it never shrinks
  either, when an admin is demoted or deleted, is what the code does.
- `AnsweredByItsRoute`: no route is hidden by a `:id` declared before it.
- `DeletedOnce`, `KeysAreUnique`, `DeletedIsFrozen`, `ImplementsLiveStore`:
  find-then-write is not atomic, yet no interleaving shows: the write passes
  deleted rows over and its failure is an error, and the unique index decides when
  two creates have found the same email free.
- `QuietWalkIsExact` to `WalkEnds`: what a client may rely on while a table
  changes, and how far each exception reaches.  Rows of one millisecond are shown
  once like any other unless a page ends in their midst; a total that is older than
  its page hides as many rows as it did not count, the last ones; a deleted cursor
  ends the walk, but only what follows it is lost; pages of one row may never end.
- `PageOrCursorSuffices` fails: a query with a cursor alone passes the validation
  and is answered 500.
- `StatusTellsEffect`: 200 means committed; a refusal means that nothing was and
  nothing will be.  408 and 500 tell nothing: a client that repeats the request
  may do the work twice.  `Answered` holds with a database that never answers,
  outside the local environment, only because of the interceptor.
- `HealthAnswersItself`: the ping has half of the interceptor's time.
- `RequiredIsNeverEmptied`, `OnlyKnownGapsFail`: what the dtos let through fits the
  columns it is written to or compared with, but for the gaps that the second property
  names, each of them a 500 instead of a 422.
- `BoundsAreKept`, `NarrowingNeverWidens`: a bound of 0 counts beside another bound
  and is dropped by itself; either way a longer query finds no more.
- `DirectoryComesFirst`, `CompleteFilesStay`, `BackupsEnd`, `ReadyIsComplete`: backups
  overlap without harm unless two are named in one millisecond, and two that both find
  the directory missing both go on, since the `mkdir` is recursive; a config that is
  ready has no NaN.

Why the bounds are enough: two requests make every pair of find and write
overlap, and the third of `Resources` comes between; three of `Sessions` are a login or a
refresh, the use of its token, and one that overwrites the store meanwhile.  Tables
of four and five rows have a page boundary within and at the end for every page
size, and rows of one millisecond on both sides of one.  Four ticks are both
timeouts and the moments between.  One odd field or variable at a time is enough
as each is validated alone; the two parameters of a query are those of a range.  A
parameter is text: `Sent` has every class but null, true and false, which it cannot
be, and wrong, which no kind of a parameter takes but text, as "valid".
Two milliseconds give two backups the same name, or different ones.

Fairness.  *Uploads:* weak, for each request and each promise chain.  The event
loop serves every completed await, MySQL answers or fails, and People Data Labs
answers or fails (its client has no timeout of its own, so that it answers is an
assumption about it).  No fairness for arrivals, edits, failures or crashes.
*Pagination:* the database answers, and the client goes on.  *HttpPipeline:* time
passes and timers fire, and stages that need no database are served; none for
handlers that wait for the database, which may never answer.  *Server:* Node loads
the modules and goes on with a backup it began, and `mysqldump` ends.

## Where the code and its documents disagree

Three runs each show one:

- `UploadCaller`: the permission check of an enrichment is made with the user id that
  the shared store holds, which may be another caller's;
- `SessionsRefreshed`: a refreshed token carries `id` and no `userId`
  (`auth.service.ts`), which `JwtPayload` declares and the strategies read: GET
  `user/me` with it asks for `id: undefined`, no filter for Prisma, and is told of
  some live user;
- `PaginationCursorOnly`: a cursor query without `page`, which the validation allows
  ("page or lastItemId is required"), fails with 500, `skip` being NaN.

Met on the way, and built into the models as the code has them:

- the detail of a user without a Business answers 500, and so does an update of a
  user to a taken email; an email is taken for ever once its user is deleted;
- an update of a person's names leaves `fullName`, which the list searches and the
  unique key holds, as it was;
- with pages of one row, or rows of one millisecond, a walk by cursors may not end;
- a query with a fraction, or a number beyond 32 bits, for an integer column (`id=1.5`,
  `businessId`, `executiveCompanyId`, `personId`, `quantity`), or with a date beyond the
  year 9999, passes the validation and fails with 500; so does a body with a text or an
  email longer than the 191 characters of its column, with such a date, or with a key
  that is no id;
- `executiveCompanyId` is optional in the dto of a person and required in the
  table; the department and position filters of persons name columns that the
  table does not have: 500; a single value for a list parameter is refused: 422;
- `BACKUP_PATH` is read from the variable `DISK_STORAGE_PATH`; a comma makes an
  array of any text of the environment; the example in the comment of
  `assignCustomizer` would throw; a database url that is none stops no start, only
  the backups.

## Proofs

Run `tlapm M.tla` for each of the proof modules.  The theorems hold for every
number of requests, users, rows, pages, fields, files, failures, backups and ticks
that satisfies the named assumptions: `ConstantsAssumption` (the constants have
their types, and the uploads at the start are unsaved and not empty),
`InputsAreTyped` of `Sessions`, of `Resources` and of `Pagination` (pages hold one
row at least, a createdAt is a rank among those of the list), `InitKeysAreUnique`,
`TimeoutIsEven`, `DisjointJobs`, and `ParametersAreValues`, `BoundsAreNumbers` and
`ResourcesAreKnown` of `Payload`.

| theorem | states | where |
|---|---|---|
| `TypeCorrect` | `Spec => []TypeOK` | `ExecutiveUploadProofs` |
| `NoRowTwice` | `Spec => []RowsInsertedOnce`, without rekeying | |
| `WholeUploads` | `Spec => []SavedCompletely`, without rekeying | |
| `HalfSavedForGood` | `Spec => HalfSavedIsFinal`, without rekeying | |
| `DeletedForGood` | `Spec => DeletedRowsAreFrozen` | |
| `StatusHasCause` | `Spec => []StatusJustified`, without edits of a status | `EnrichmentProofs` |
| `InProgressHasJob` | `Spec => []InProgressIsOwed`, without edits of a status or key | |
| `ServiceImplementsLifecycle` | `Spec => ImplementsLifecycle`, without rekeying | |
| `SessionsTyped`, `GeneratedAdminsOnly`, `CallerIsTold`, `AdminsByLogin`, `RoutedByName` | the invariants of `Sessions` | `SessionsProofs` |
| `ResourcesTyped`, `ReportedOnce`, `UniqueForGood` | the invariants of `Resources` | `ResourcesProofs` |
| `ResourcesDeletedForGood`, `ResourcesRefineLiveStore` | `Spec => DeletedIsFrozen`, `Spec => ImplementsLiveStore` | |
| `PipelineTyped`, `StatusIsTrue`, `PingAnswersItself` | the invariants of `HttpPipeline` | `HttpPipelineProofs` |
| `BackupsTyped`, `DirectoryIsThere`, `CompleteForGood`, `ConfigIsComplete` | the safety properties of `Server` | `ServerProofs` |
| `WalkTyped`, `QuietWalksAreExact`, `OnlyUncountedAreHidden`, `NothingIsRepeated`, `CursorsMissNothing` | the invariants of `Pagination` | `PaginationProofs` |
| `PayloadTyped`, `RequiredStays`, `OnlyGapsFail`, `BoundsStay` | the invariants of `Payload` | `PayloadProofs` |
| `NarrowedListsShrink` | `Spec => NarrowingNeverWidens` | |

The arguments:

- *Types of the uploads.*  `TypeOK` is not inductive: that an insert gives rows of
  the right type needs that the upload the request works on exists, which only its
  await tells.  `TypeInv` adds `ControlOK`, what each request knows at each await.
- *Saving.*  `SaveInv`: keys are unique (`KeysUnique`, the index); a person of an
  upload is one of its rows (`RowsMatch`); one person of an upload means all
  (`AllOrNone`); a mark, made or about to be made, has persons behind it
  (`MarksFollow`); and no file is empty (`FilesHaveRows`), without which a mark could
  follow an insert of nothing.  Rows are inserted only when none of their keys is
  taken, so never twice; an insert adds a person for each row, and no later step
  changes the upload or the row of a person.  Rekeying breaks the link of
  `KeysUnique` to the rows, so the theorems assume `"rekey" \notin Edits`.
  `HalfSavedForGood` adds that a half-saved upload is not insertable, its own rows
  holding the keys, and that a request reaches the mark only from an insert.
  `DeletedForGood` needs only the types: every write of the two tables is an
  `UpdateMany`, which passes deleted rows over, or a `CreateMany`, which appends.
- *Statuses.*  `EnrichInv`: a chain asks for persons of its upload, all marked before
  it starts, writes their statuses after their rows, and keeps the error it was caught
  with (`JobsOK`); an enrichment row is of a marked person (`RowsMarked`); what a
  request has read belongs to its upload, and the raw row it made to a chain that has
  not started (`AsksOK`).  `OwedInv` adds that a request about to mark has left no live
  person of its upload out (`RequestsReady`), which stays true because an upload that
  has persons gets no others (lemma `PersonsOfStay`).  An admin who creates a person
  or writes a status by hand may write any: those two edits are excluded
  (`NoStatusEdits`).
- *The lifecycle.*  `LifecycleInv` is `SaveInv` and `SavedReady`: every chain, and
  every request that may start one, is of an upload that is saved.  Only three
  statements move the stage of an upload, each of one upload from a stage to the next;
  every other step leaves all stages alone and changes the number of running chains
  by one at most, or to none.
- *Resources.*  A request has no answer before it has replied, and one that was
  answered 204 has deleted its row for good (`RequestOK`).  For the refinement
  the second statement is the step of the store, every other a refusal, a read or a
  stutter.
- *Sessions.*  Every user that is Active has a Business (`UsersOK`); every token goes
  back to such a user, with the role of its login (`TokenOK`); a request behind the
  guard carries a token of the route's roles (`LetIn`), and between find and reply
  the row it compares or tells of (`Compares`, `IsTold`).  `RoutedByName` goes through
  the table of routes, a lemma per controller.
- *Http.*  `Sound` says of each stage what was committed, sent and timed.
- *Server.*  `BackupInv` relates a backup's progress to the directory and to its file
  (`JobOK`, `FileOK`); `ConfigInv` says what a value can be after each call of
  `initialize`.
- *Pagination.*  An order of the list is a bijection from 1 to n onto the n live rows:
  `Place`, the number of rows before a row and one more, takes each value once
  (`PlacesTaken`, `OrdersAreOrders`).  The rows of one createdAt may come in any
  order among the places the later ones leave them: a row without an equal is on the
  page that `Skip` begins exactly when `Skip <= |Ahead| < Skip + pageSize`, where
  `Ahead(id)` are the live rows created after it, and so is one whose equals no page
  boundary splits (`PageShows`).  All of a walk by pages is then told by that number,
  which a create only raises and a delete only lowers.  `Unseen` keeps unseen rows
  behind the pages asked for while none is deleted: those that are no newer than an
  unseen one, which a create leaves as they are, fill what the page had beyond
  `Skip + pageSize`, and that is no less than the total a walk ends at (`PagesGoOn`).
  `Shown` keeps shown rows before those pages while none is created.  While neither
  happens `Exact` has every unsplit row on its page (`PagesAreWhole`: boundaries are
  multiples of `pageSize`) and `Counted` the right total.  `Typed` is the type
  invariant with the shape of the query and of the answer each kind of walk has at
  each step.
  A walk by cursors has no such number: `Followed` says that the rows down to the
  cursor have been shown and the page holds those that follow it (`Following`), or
  else that the cursor was deleted before it was read and the walk ends there, with
  the same rows shown (`StoppedShort`).
- *Payload.*  The five resources are read in one place, the lemmas that conclude
  `ResourcesFit`: every field of a dto is a column that can hold what it validates,
  every needed column is given by a create, and every filter reads a parameter of the
  query and names a column that can be compared with it, but for the gaps that the
  property names.  The rest holds for any dto, table and where that fit: what passes
  the pipe after its conversion is a value its column holds, or null, or a key.  That
  a required field is never emptied follows from what an update writes, field by
  field, and needs nothing of the other fields.  For the lists, `Answered` keeps that
  the last answer is what its query asked for, and a filter that a query puts to use
  is put to use by every query with one parameter more (`ExtendedFindsLess`).

Every safety property that a passing run checks is so proved.  Only model-checked are
the liveness properties (`EveryRequestEnds`, `EnrichmentSettles`, `WalkEnds`,
`Answered` of `HttpPipeline`, `BackupsEnd`), which TLAPS cannot prove under fairness.

## Not modelled

- Email, http client, logger: wrappers around libraries, without a state of their
  own; nothing calls the email service.
- Swagger and the api-document decorators: documentation built at the start.
- `generate-nestjs`, `prisma-migrate`: scripts run by hand.
- helmet, compression, cookies and cors: library middleware.  The rate limit is
  commented out, and so are the routes of `changePassword` and `forgetPassword`;
  `setUserLastActive` and most helpers of times are called by nothing.
- The splitting of csv lines and cells, the hashing of passwords and the signing of
  tokens: libraries.
