--------------------------- MODULE ExecutiveUpload ---------------------------
(* ExecutiveUploadService: a csv of executives is uploaded, saved as person   *)
(* rows, and enriched by People Data Labs in the background.                  *)
(*                                                                            *)
(* Every request is a process.  Between two awaits a handler runs without     *)
(* interruption; at an await any other request, background job or edit may    *)
(* run.  pc[r] names the await request r is waiting at, and one action is the *)
(* completion of that await together with the code up to the next one.        *)
(*                                                                            *)
(* A csv is the sequence of its rows' unique keys (email and full name); an   *)
(* empty one stands for every file createExecutiveUpload rejects.  An upload  *)
(* keeps the file and the company it was created with: no route changes them. *)
EXTENDS SoftDelete, FiniteSets, SequencesExt

CONSTANTS
    Req,            \* the requests that may be made (a bound)
    Users,          \* callers that passed the guard
    Companies,      \* executive companies
    Keys,           \* <<email, full name>> pairs
    Files,          \* csv files
    Content,        \* the rows of each file
    InitCompanies,  \* the company table at the start
    InitUploads,    \* uploads made before the start, none of them saved yet
    Calls,          \* the calls a request may be
    Edits,          \* the admin's other calls that this instance includes
    MaxEdits,       \* bound on those
    MaxFaults,      \* bound on database failures and crashes
    NoUser, NoCompany

Statuses == {"NoEnrichment", "InProgress", "Completed", "Failed"}
UploadRow == [file: Files, company: Companies, isSaved: BOOLEAN, deleted: BOOLEAN]
CompanyRow == [owner: Users \cup {NoUser}, deleted: BOOLEAN]
\* upload = 0: created by the person API.  row: the csv row it was read from,
\* which no column stores (it is the person's first name, phone, ...).
PersonRow == [key: Keys, company: Companies, upload: Nat, row: Nat,
              status: Statuses, deleted: BOOLEAN]
RawRow == [request: SUBSET Nat, response: {"none", "items", "error"}]

CreateCall == [kind: {"create"}, user: Users, file: Files]
UploadCall == [kind: {"save", "enrich", "delete"}, user: Users, upload: Nat]
EditNames == {"createPerson", "setStatus", "rekey", "deletePerson",
              "assignCompany", "deleteCompany"}

ASSUME ConstantsAssumption ==
    /\ Content \in [Files -> Seq(Keys)]
    /\ InitCompanies \in [Companies -> CompanyRow]
    /\ InitUploads \in Seq(UploadRow)
    /\ \A u \in DOMAIN InitUploads :
          ~InitUploads[u].isSaved /\ Content[InitUploads[u].file] # << >>
    /\ Calls # {} /\ Calls \subseteq CreateCall \cup UploadCall
    /\ Edits \subseteq EditNames
    /\ MaxEdits \in Nat /\ MaxFaults \in Nat
    /\ NoUser \notin Users /\ NoCompany \notin Companies

VARIABLES
    companies, uploads, persons,    \* tables
    enrichments,    \* PersonEnrichment rows, each with the job that wrote it
    raws,           \* EnrichmentRaw: the request sent and the response kept
    jobs,           \* the promise chain behind each raw row, in memory
    currentUser,    \* userId in the one AsyncStorage object
    filesLost,      \* the csv files of uploads 1..filesLost are gone
    pc, call, loc,  \* the requests: the await, the call, the local variables
    faults, edits,  \* how much of MaxFaults and MaxEdits is spent
    abrupt          \* a crash, or a reply lost after a commit, has happened

tables == <<companies, uploads, persons, enrichments, raws>>
vars == <<tables, jobs, currentUser, filesLost, pc, call, loc, faults, edits, abrupt>>

Idle == "idle"
Terminal == {"ok", "error", "lost"}
Points == {"createParse", "createDuplicates", "createUser", "createInsert",
           "saveFind", "saveParse", "saveInsert", "saveMark",
           "enrichFind", "enrichUser", "enrichCompany", "enrichPersons",
           "enrichRaw", "enrichMark", "deleteFind", "deleteUpdate"}
ThenPoints == {"record", "insert", "complete", "fail"}
CatchPoints == {"catchRaw", "catchPersons"}
Running == {"calling"} \cup ThenPoints \cup CatchPoints

Locals == [wasSaved: BOOLEAN, ident: Users \cup {NoUser},
           company: Companies \cup {NoCompany}, people: SUBSET Nat, raw: Nat]
NoLocals == [wasSaved |-> FALSE, ident |-> NoUser, company |-> NoCompany,
             people |-> {}, raw |-> 0]
Job == [point: {"unstarted", "done", "lost"} \cup Running,
        upload: Nat, found: SUBSET Nat]

Init ==
    /\ companies = InitCompanies /\ uploads = InitUploads
    /\ persons = << >> /\ enrichments = {} /\ raws = << >> /\ jobs = << >>
    /\ currentUser = NoUser /\ filesLost = 0
    /\ pc = [r \in Req |-> Idle]
    /\ call = [r \in Req |-> CHOOSE c \in Calls : TRUE]
    /\ loc = [r \in Req |-> NoLocals]
    /\ faults = 0 /\ edits = 0 /\ abrupt = FALSE
-----------------------------------------------------------------------------
(* What the handlers share.  A definition marked "slip" is no part of the     *)
(* model: it is the next definition as a plausible bug would have it, for     *)
(* testing that a property can fail.                                          *)

Target(r) == call[r].upload
PersonsOf(u) == {p \in 1..Len(persons) : persons[p].upload = u}
Goto(r, point) == pc' = [pc EXCEPT ![r] = point]
Keep(r, var, value) == loc' = [loc EXCEPT ![r][var] = value]

\* A ServerException or a TypeError; the client gets an error, nothing is undone.
Reject(r) == Goto(r, "error") /\ loc' = [loc EXCEPT ![r] = NoLocals]

\* The last statement of a handler is committed: the reply is a success, or the
\* connection fails after the commit and the client is told of an error.
Finish(r) ==
    /\ loc' = [loc EXCEPT ![r] = NoLocals]
    /\ \/ Goto(r, "ok") /\ UNCHANGED faults
       \/ faults < MaxFaults /\ faults' = faults + 1 /\ Goto(r, "error")

\* The process dies and is started again: requests and promise chains are gone,
\* the tables stay, and the csv files stay if the container was not recreated.
Die ==
    /\ pc' = [r \in Req |-> IF pc[r] \in Points THEN "lost" ELSE pc[r]]
    /\ loc' = [r \in Req |-> NoLocals]
    /\ jobs' = [j \in 1..Len(jobs) |->
                   IF jobs[j].point \in Running
                   THEN [jobs[j] EXCEPT !.point = "lost"] ELSE jobs[j]]
    /\ filesLost' \in {filesLost, Len(uploads)}
    /\ currentUser' = NoUser /\ abrupt' = TRUE
    /\ UNCHANGED <<tables, call, edits>>

\* Slip: an index that does not count deleted rows.
LiveKeyTaken(key, company) ==
    \E p \in Live(persons) : persons[p].key = key /\ persons[p].company = company

\* @@unique([email, fullName, executiveCompanyId]): deleted rows count.
KeyTaken(key, company) ==
    \E p \in 1..Len(persons) : persons[p].key = key /\ persons[p].company = company
Insertable(u) ==
    LET rows == Content[uploads[u].file]
    IN /\ IsInjective(rows)
       /\ \A i \in 1..Len(rows) : ~KeyTaken(rows[i], uploads[u].company)

\* Only the parts of the state a request's step leaves alone by default.
RequestOnly == UNCHANGED <<jobs, currentUser, filesLost, call, edits, abrupt>>
-----------------------------------------------------------------------------
(* A request passes AuthGuard, which overwrites the shared userId, and its    *)
(* handler runs to its first await.                                           *)
Arrive(r) ==
    /\ pc[r] = Idle
    /\ \E c \in Calls :
          /\ call' = [call EXCEPT ![r] = c]
          /\ currentUser' = c.user
          /\ Goto(r, CASE c.kind = "create" -> "createParse"
                       [] c.kind = "save"   -> "saveFind"
                       [] c.kind = "enrich" -> "enrichFind"
                       [] c.kind = "delete" -> "deleteFind")
    /\ UNCHANGED <<tables, jobs, filesLost, loc, faults, edits, abrupt>>

(* createExecutiveUpload *)

CreateParse(r) ==
    /\ pc[r] = "createParse"
    /\ IF Content[call[r].file] = << >> THEN Reject(r)
       ELSE Goto(r, "createDuplicates") /\ UNCHANGED loc
    /\ UNCHANGED <<tables, faults>> /\ RequestOnly

\* The duplicates found are not looked at; userId is read after the await.
CreateDuplicates(r) ==
    /\ pc[r] = "createDuplicates"
    /\ Keep(r, "ident", currentUser) /\ Goto(r, "createUser")
    /\ UNCHANGED <<tables, faults>> /\ RequestOnly

\* user.Business.ExecutiveCompany[0]: a nested read, which the soft-delete
\* filter does not reach and no order is asked of.
CreateUser(r) ==
    /\ pc[r] = "createUser"
    /\ LET mine == {c \in Companies : companies[c].owner = loc[r].ident}
       IN \/ mine = {} /\ Reject(r)
          \/ \E c \in mine : Keep(r, "company", c) /\ Goto(r, "createInsert")
    /\ UNCHANGED <<tables, faults>> /\ RequestOnly

CreateInsert(r) ==
    /\ pc[r] = "createInsert"
    /\ uploads' = CreateMany(uploads,
                    << [file |-> call[r].file, company |-> loc[r].company,
                        isSaved |-> FALSE, deleted |-> FALSE] >>)
    /\ Finish(r)
    /\ UNCHANGED <<companies, persons, enrichments, raws>> /\ RequestOnly

(* deleteExecutiveUpload *)

DeleteFind(r) ==
    /\ pc[r] = "deleteFind"
    /\ IF Target(r) \in Live(uploads) THEN Goto(r, "deleteUpdate") /\ UNCHANGED loc
       ELSE Reject(r)
    /\ UNCHANGED <<tables, faults>> /\ RequestOnly

DeleteUpdate(r) ==
    /\ pc[r] = "deleteUpdate"
    /\ uploads' = DeleteMany(uploads, {Target(r)})
    /\ IF Target(r) \in Live(uploads) THEN Finish(r) ELSE Reject(r) /\ UNCHANGED faults
    /\ UNCHANGED <<companies, persons, enrichments, raws>> /\ RequestOnly

(* saveExecutiveUpload, called by its route and by enrichExecutiveUpload *)

SaveFind(r) ==
    /\ pc[r] = "saveFind"
    /\ IF Target(r) \in Live(uploads) /\ ~uploads[Target(r)].isSaved
       THEN Goto(r, "saveParse") /\ UNCHANGED loc
       ELSE Reject(r)
    /\ UNCHANGED <<tables, faults>> /\ RequestOnly

\* Slip: the upload is marked before its rows are in.
SaveParseMarksEarly(r) ==
    /\ pc[r] = "saveParse" /\ Target(r) > filesLost
    /\ uploads' = UpdateMany(uploads, {Target(r)}, "isSaved", TRUE)
    /\ Goto(r, "saveInsert")
    /\ UNCHANGED <<companies, persons, enrichments, raws, loc, faults>> /\ RequestOnly

SaveParse(r) ==
    /\ pc[r] = "saveParse" /\ Target(r) > filesLost
    /\ Goto(r, "saveInsert")
    /\ UNCHANGED <<tables, loc, faults>> /\ RequestOnly

\* Slip: the parser never hears that the file is missing.
SaveParseHangs(r) ==
    pc[r] = "saveParse" /\ Target(r) <= filesLost /\ UNCHANGED vars

\* The stream of a missing file has no error listener: the process dies.
SaveParseMissing(r) ==
    pc[r] = "saveParse" /\ Target(r) <= filesLost /\ Die /\ UNCHANGED faults

NewPersons(u) ==
    [i \in 1..Len(Content[uploads[u].file]) |->
        [key |-> Content[uploads[u].file][i], company |-> uploads[u].company,
         upload |-> u, row |-> i, status |-> "NoEnrichment", deleted |-> FALSE]]

\* executivePerson.createMany: every row or, when one key is taken, none.
SaveInsert(r) ==
    /\ pc[r] = "saveInsert"
    /\ IF Insertable(Target(r))
       THEN /\ persons' = CreateMany(persons, NewPersons(Target(r)))
            /\ Goto(r, "saveMark") /\ UNCHANGED loc
       ELSE Reject(r) /\ UNCHANGED persons
    /\ UNCHANGED <<companies, uploads, enrichments, raws, faults>> /\ RequestOnly

\* executiveUpload.update throws when the upload has been deleted meanwhile.
SaveMark(r) ==
    /\ pc[r] = "saveMark"
    /\ uploads' = UpdateMany(uploads, {Target(r)}, "isSaved", TRUE)
    /\ IF Target(r) \notin Live(uploads) THEN Reject(r) /\ UNCHANGED faults
       ELSE IF call[r].kind = "save" THEN Finish(r)
       ELSE Goto(r, "enrichPersons") /\ UNCHANGED <<loc, faults>>
    /\ UNCHANGED <<companies, persons, enrichments, raws>> /\ RequestOnly

(* enrichExecutiveUpload *)

\* The upload as it is now is kept for later; userId is read after the await.
EnrichFind(r) ==
    /\ pc[r] = "enrichFind"
    /\ IF Target(r) \in Live(uploads)
       THEN /\ loc' = [loc EXCEPT ![r].wasSaved = uploads[Target(r)].isSaved,
                                  ![r].ident = currentUser]
            /\ Goto(r, "enrichUser")
       ELSE Reject(r)
    /\ UNCHANGED <<tables, faults>> /\ RequestOnly

\* user.findFirst of that userId, whose business does not change.
EnrichUser(r) ==
    /\ pc[r] = "enrichUser" /\ Goto(r, "enrichCompany")
    /\ UNCHANGED <<tables, loc, faults>> /\ RequestOnly

\* Slip: an upload not saved yet is enriched all the same.
EnrichCompanyUnsaved(r) ==
    /\ pc[r] = "enrichCompany"
    /\ Goto(r, "enrichPersons")
    /\ UNCHANGED <<tables, loc, faults>> /\ RequestOnly

\* wasSaved is what EnrichFind read.
EnrichCompany(r) ==
    /\ pc[r] = "enrichCompany"
    /\ LET company == companies[uploads[Target(r)].company]
       IN IF ~company.deleted /\ company.owner = loc[r].ident
          THEN /\ Goto(r, IF loc[r].wasSaved THEN "enrichPersons" ELSE "saveFind")
               /\ UNCHANGED loc
          ELSE Reject(r)
    /\ UNCHANGED <<tables, faults>> /\ RequestOnly

EnrichPersons(r) ==
    /\ pc[r] = "enrichPersons"
    /\ Keep(r, "people", PersonsOf(Target(r)) \cap Live(persons)) /\ Goto(r, "enrichRaw")
    /\ UNCHANGED <<tables, faults>> /\ RequestOnly

EnrichRaw(r) ==
    /\ pc[r] = "enrichRaw"
    /\ raws' = CreateMany(raws, << [request |-> loc[r].people, response |-> "none"] >>)
    /\ jobs' = Append(jobs, [point |-> "unstarted", upload |-> Target(r), found |-> {}])
    /\ Keep(r, "raw", Len(raws) + 1) /\ Goto(r, "enrichMark")
    /\ UNCHANGED <<companies, uploads, persons, enrichments, currentUser, filesLost,
                   call, faults, edits, abrupt>>

\* The rows are marked and, the reply at hand, the call to People Data Labs is
\* made in the same turn; if the reply is lost the job is never started.
EnrichMark(r) ==
    /\ pc[r] = "enrichMark"
    /\ persons' = UpdateMany(persons, PersonsOf(Target(r)), "status", "InProgress")
    /\ loc' = [loc EXCEPT ![r] = NoLocals]
    /\ \/ /\ jobs' = [jobs EXCEPT ![loc[r].raw].point = "calling"]
          /\ Goto(r, "ok") /\ UNCHANGED <<faults, abrupt>>
       \/ /\ faults < MaxFaults /\ faults' = faults + 1 /\ abrupt' = TRUE
          /\ Goto(r, "error") /\ UNCHANGED jobs
    /\ UNCHANGED <<companies, uploads, enrichments, raws, currentUser, filesLost,
                   call, edits>>
-----------------------------------------------------------------------------
(* The promise chain of job j, which no request waits for.                    *)

At(j, point) == j \in 1..Len(jobs) /\ jobs[j].point = point
Advance(j, point) == jobs' = [jobs EXCEPT ![j].point = point]
JobOnly == UNCHANGED <<currentUser, filesLost, pc, call, loc, edits, abrupt>>

\* External: People Data Labs finds some of the people asked for, or fails.
Answered(j) ==
    /\ At(j, "calling")
    /\ \E found \in SUBSET raws[j].request :
          jobs' = [jobs EXCEPT ![j].point = "record", ![j].found = found]
    /\ UNCHANGED <<tables, faults>> /\ JobOnly

CallFails(j) ==
    /\ At(j, "calling") /\ Advance(j, "catchRaw")
    /\ UNCHANGED <<tables, faults>> /\ JobOnly

\* Slip: the response goes into a row of its own.
RecordResponseAnew(j) ==
    /\ At(j, "record") /\ Advance(j, "insert")
    /\ raws' = Append(raws, [request |-> raws[j].request, response |-> "items"])
    /\ UNCHANGED <<companies, uploads, persons, enrichments, faults>> /\ JobOnly

RecordResponse(j) ==
    /\ At(j, "record") /\ Advance(j, "insert")
    /\ raws' = [raws EXCEPT ![j].response = "items"]
    /\ UNCHANGED <<companies, uploads, persons, enrichments, faults>> /\ JobOnly

\* A row for everyone asked for, empty for those not found.
InsertEnrichments(j) ==
    /\ At(j, "insert") /\ Advance(j, "complete")
    /\ enrichments' = enrichments \cup
           {[job |-> j, person |-> p, found |-> p \in jobs[j].found] : p \in raws[j].request}
    /\ UNCHANGED <<companies, uploads, persons, raws, faults>> /\ JobOnly

\* Slip: the status of the single responses is not looked at.
CompleteAll(j) ==
    /\ At(j, "complete") /\ Advance(j, "fail")
    /\ persons' = UpdateMany(persons, raws[j].request, "status", "Completed")
    /\ UNCHANGED <<companies, uploads, enrichments, raws, faults>> /\ JobOnly

CompleteFound(j) ==
    /\ At(j, "complete") /\ Advance(j, "fail")
    /\ persons' = UpdateMany(persons, jobs[j].found, "status", "Completed")
    /\ UNCHANGED <<companies, uploads, enrichments, raws, faults>> /\ JobOnly

\* The last statement; its reply may be lost, which the catch takes for a failure.
FailOthers(j) ==
    /\ At(j, "fail")
    /\ persons' = UpdateMany(persons, raws[j].request \ jobs[j].found, "status", "Failed")
    /\ \/ Advance(j, "done") /\ UNCHANGED faults
       \/ faults < MaxFaults /\ faults' = faults + 1 /\ Advance(j, "catchRaw")
    /\ UNCHANGED <<companies, uploads, enrichments, raws>> /\ JobOnly

\* A statement of the then block fails.
ThenFails(j) ==
    /\ \E point \in ThenPoints : At(j, point)
    /\ faults < MaxFaults /\ faults' = faults + 1
    /\ Advance(j, "catchRaw")
    /\ UNCHANGED tables /\ JobOnly

CatchRaw(j) ==
    /\ At(j, "catchRaw") /\ Advance(j, "catchPersons")
    /\ raws' = [raws EXCEPT ![j].response = "error"]
    /\ UNCHANGED <<companies, uploads, persons, enrichments, faults>> /\ JobOnly

\* Slip: the error is recorded and the persons forgotten.
CatchOnlyRecords(j) ==
    /\ At(j, "catchPersons") /\ Advance(j, "done")
    /\ UNCHANGED <<tables, faults>> /\ JobOnly

\* Every person of the upload, whatever the then block had done for them.
CatchPersons(j) ==
    /\ At(j, "catchPersons") /\ Advance(j, "done")
    /\ persons' = UpdateMany(persons, PersonsOf(jobs[j].upload), "status", "Failed")
    /\ UNCHANGED <<companies, uploads, enrichments, raws, faults>> /\ JobOnly

\* Nothing handles a rejection of the catch block: the process dies.
CatchFails(j) ==
    /\ \E point \in CatchPoints : At(j, point)
    /\ faults < MaxFaults /\ faults' = faults + 1
    /\ Die
-----------------------------------------------------------------------------
(* Failures.                                                                  *)

\* The statement or the file read that r waits for fails, with no effect.
RequestFails(r) ==
    /\ pc[r] \in Points
    /\ faults < MaxFaults /\ faults' = faults + 1
    /\ Reject(r)
    /\ UNCHANGED tables /\ RequestOnly

Crash == faults < MaxFaults /\ faults' = faults + 1 /\ Die

(* The admin's other calls that touch these tables.  Each is one findFirst    *)
(* and one statement of the row found; a row deleted in between makes it fail *)
(* with no effect.                                                            *)

Edit(name) == name \in Edits /\ edits < MaxEdits /\ edits' = edits + 1
EditOnly == UNCHANGED <<uploads, enrichments, raws, jobs, currentUser, filesLost,
                        pc, call, loc, faults, abrupt>>

\* createExecutivePerson: the body gives the status as well.
CreatePerson ==
    /\ Edit("createPerson")
    /\ \E key \in Keys, c \in Companies, status \in Statuses :
          /\ ~KeyTaken(key, c)
          /\ persons' = CreateMany(persons,
                << [key |-> key, company |-> c, upload |-> 0, row |-> 0,
                    status |-> status, deleted |-> FALSE] >>)
    /\ UNCHANGED companies /\ EditOnly

\* updateExecutivePerson with a status in the body.
SetStatus ==
    /\ Edit("setStatus")
    /\ \E p \in Live(persons), status \in Statuses :
          persons' = UpdateMany(persons, {p}, "status", status)
    /\ UNCHANGED companies /\ EditOnly

\* updateExecutivePerson with an email or a company in the body, or both.
Rekey ==
    /\ Edit("rekey")
    /\ \E p \in Live(persons), key \in Keys, c \in Companies :
          /\ ~KeyTaken(key, c)
          /\ persons' = UpdateMany(UpdateMany(persons, {p}, "key", key), {p}, "company", c)
    /\ UNCHANGED companies /\ EditOnly

DeletePerson ==
    /\ Edit("deletePerson")
    /\ \E p \in Live(persons) : persons' = DeleteMany(persons, {p})
    /\ UNCHANGED companies /\ EditOnly

\* updateExecutiveCompany with a businessId in the body.
AssignCompany ==
    /\ Edit("assignCompany")
    /\ \E c \in Companies, owner \in Users :
          /\ ~companies[c].deleted
          /\ companies' = [companies EXCEPT ![c].owner = owner]
    /\ UNCHANGED persons /\ EditOnly

DeleteCompany ==
    /\ Edit("deleteCompany")
    /\ \E c \in Companies :
          /\ ~companies[c].deleted
          /\ companies' = [companies EXCEPT ![c].deleted = TRUE]
    /\ UNCHANGED persons /\ EditOnly
-----------------------------------------------------------------------------
CreateSteps(r) == CreateParse(r) \/ CreateDuplicates(r) \/ CreateUser(r) \/ CreateInsert(r)
DeleteSteps(r) == DeleteFind(r) \/ DeleteUpdate(r)
SaveSteps(r) == \/ SaveFind(r) \/ SaveParse(r) \/ SaveParseMissing(r)
                \/ SaveInsert(r) \/ SaveMark(r)
EnrichSteps(r) == \/ EnrichFind(r) \/ EnrichUser(r) \/ EnrichCompany(r)
                  \/ EnrichPersons(r) \/ EnrichRaw(r) \/ EnrichMark(r)
Handle(r) == CreateSteps(r) \/ DeleteSteps(r) \/ SaveSteps(r) \/ EnrichSteps(r)
JobStep(j) == \/ Answered(j) \/ CallFails(j) \/ RecordResponse(j) \/ InsertEnrichments(j)
              \/ CompleteFound(j) \/ FailOthers(j) \/ CatchRaw(j) \/ CatchPersons(j)
JobFails(j) == ThenFails(j) \/ CatchFails(j)
AdminEdit == \/ CreatePerson \/ SetStatus \/ Rekey \/ DeletePerson
             \/ AssignCompany \/ DeleteCompany

\* Not a deadlock: nothing is in flight and nothing is left to ask for.
Quiet ==
    /\ \A r \in Req : pc[r] \in Terminal
    /\ \A j \in 1..Len(jobs) : jobs[j].point \notin Running
    /\ UNCHANGED vars

Next == \/ \E r \in Req : Arrive(r) \/ Handle(r) \/ RequestFails(r)
        \/ \E j \in 1..Len(jobs) : JobStep(j) \/ JobFails(j)
        \/ Crash \/ AdminEdit \/ Quiet

Spec == Init /\ [][Next]_vars

\* The event loop serves every request and promise chain whose await has
\* completed, and the database and People Data Labs answer every call.  At most
\* one job is made for each request.
Fairness == /\ \A r \in Req : WF_vars(Handle(r))
            /\ \A j \in 1..Cardinality(Req) : WF_vars(JobStep(j))
FairSpec == Spec /\ Fairness
-----------------------------------------------------------------------------
(* Properties.                                                                *)

\* Every variable keeps its type.
TypeOK ==
    /\ companies \in [Companies -> CompanyRow]
    /\ uploads \in Seq(UploadRow)
    /\ persons \in Seq(PersonRow)
    /\ enrichments \subseteq [job: Nat, person: Nat, found: BOOLEAN]
    /\ raws \in Seq(RawRow)
    /\ jobs \in Seq(Job) /\ Len(jobs) = Len(raws)
    /\ currentUser \in Users \cup {NoUser}
    /\ filesLost \in Nat /\ abrupt \in BOOLEAN
    /\ pc \in [Req -> {Idle} \cup Points \cup Terminal]
    /\ call \in [Req -> Calls]
    /\ loc \in [Req -> Locals]
    /\ faults \in Nat /\ edits \in Nat

\* However many requests save an upload at once, and however often a failed one
\* is retried, no csv row is inserted twice: the isSaved check reads a stale row,
\* and only the unique index stands behind it.
RowsInsertedOnce ==
    \A p, q \in 1..Len(persons) :
        /\ persons[p].upload # 0
        /\ persons[p].upload = persons[q].upload
        /\ persons[p].row = persons[q].row
        => p = q

\* An upload has all of its csv rows as persons or none of them, and one marked
\* isSaved has all: the insert and the mark are two statements of no transaction.
SavedCompletely ==
    \A u \in 1..Len(uploads) :
        LET inserted == {persons[p].row : p \in PersonsOf(u)}
        IN /\ inserted \in {{}, 1..Len(Content[uploads[u].file])}
           /\ uploads[u].isSaved => inserted # {}

\* A save failed between its insert and its mark.
HalfSaved(u) ==
    /\ u \in 1..Len(uploads) /\ ~uploads[u].isSaved
    /\ PersonsOf(u) # {}
    /\ \A r \in Req : pc[r] = "saveMark" => Target(r) # u

\* Such an upload is stuck for good: a retry finds isSaved false, inserts again
\* and fails on the unique index, and deleting the persons does not help, since
\* the index counts deleted rows.  It can be neither saved nor enriched.
HalfSavedIsFinal == [][\A u \in 1..Len(uploads) : HalfSaved(u) => HalfSaved(u)']_vars

\* What a person's status says did happen: Completed has an enrichment row with
\* data, Failed has an empty one or a caught job of the upload, and a person
\* never enriched has none, unless they were deleted while being enriched.
\* Late, repeated and half-failed jobs of the same upload are included.
StatusJustified ==
    \A p \in 1..Len(persons) :
        LET rows == {e \in enrichments : e.person = p}
        IN CASE persons[p].status = "NoEnrichment" -> persons[p].deleted \/ rows = {}
             [] persons[p].status = "Completed" -> \E e \in rows : e.found
             [] persons[p].status = "Failed" ->
                    \/ \E e \in rows : ~e.found
                    \/ \E j \in 1..Len(jobs) : /\ jobs[j].upload = persons[p].upload
                                              /\ raws[j].response = "error"
             [] OTHER -> TRUE

\* Job j will still write the status of person p.
Owes(j, p) ==
    /\ p \in raws[j].request
    /\ \/ jobs[j].point \in Running \ {"fail"}
       \/ jobs[j].point = "fail" /\ p \notin jobs[j].found

\* Short of a crash or a reply lost after the commit, no person is left
\* InProgress without a job that will settle it, whatever other jobs of the
\* same upload do in between.
InProgressIsOwed ==
    abrupt \/ \A p \in Live(persons) :
                 persons[p].status = "InProgress" => \E j \in 1..Len(jobs) : Owes(j, p)

\* A deleted row is never changed again, by any statement of any handler or job.
DeletedRowsAreFrozen ==
    [][/\ \A p \in 1..Len(persons) : persons[p].deleted => persons'[p] = persons[p]
       /\ \A u \in 1..Len(uploads) : uploads[u].deleted => uploads'[u] = uploads[u]]_vars

\* The permission check of enrichExecutiveUpload, and the choice of company in
\* createExecutiveUpload, are made for the user who sent the request.
CheckedForTheCaller ==
    \A r \in Req : pc[r] \in {"createUser", "createInsert", "enrichUser", "enrichCompany",
                             "enrichPersons", "enrichRaw", "enrichMark"}
                    => loc[r].ident = call[r].user

\* Every request that is made gets an answer, unless a crash takes it.
EveryRequestEnds == \A r \in Req : pc[r] \in Points ~> pc[r] \in Terminal

Unsettled(u) == \E p \in PersonsOf(u) \cap Live(persons) : persons[p].status = "InProgress"
UploadIds == 1..(Len(InitUploads) + Cardinality(Req))

\* The persons of an upload do not stay InProgress, unless a crash or a lost
\* reply leaves them so; the code has nothing that picks them up again.
EnrichmentSettles == \A u \in UploadIds : Unsettled(u) ~> (~Unsettled(u) \/ abrupt)
-----------------------------------------------------------------------------
(* The refinement of UploadLifecycle.                                         *)

\* How far upload u has come; "corrupt", which the lifecycle does not know,
\* when some csv row has no person or several.
StageOf(u) ==
    LET copies(i) == Cardinality({p \in PersonsOf(u) : persons[p].row = i})
        rows == 1..Len(Content[uploads[u].file])
    IN IF u > Len(uploads) THEN "absent"
       ELSE IF PersonsOf(u) = {} /\ ~uploads[u].isSaved THEN "created"
       ELSE IF \E i \in rows : copies(i) # 1 THEN "corrupt"
       ELSE IF uploads[u].isSaved THEN "saved" ELSE "inserted"

RunningJobs(u) ==
    Cardinality({j \in 1..Len(jobs) : jobs[j].upload = u /\ jobs[j].point \in Running})

Lifecycle == INSTANCE UploadLifecycle WITH
    Uploads <- UploadIds,
    stage <- [u \in UploadIds |-> StageOf(u)],
    running <- [u \in UploadIds |-> RunningJobs(u)]

\* The service implements the lifecycle: rows go in once and together, isSaved
\* comes after them, and only a saved upload is enriched.
ImplementsLifecycle == Lifecycle!Spec
=============================================================================
