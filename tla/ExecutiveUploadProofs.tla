------------------------ MODULE ExecutiveUploadProofs ------------------------
(* What ExecutiveUpload keeps, for any number of requests, uploads, rows,     *)
(* failures and crashes: first its types, then what saving an upload          *)
(* guarantees under every edit of the admin but one: a person is not given    *)
(* another email or company ("rekey"), which is what the unique index         *)
(* compares.                                                                  *)
EXTENDS ExecutiveUpload, TLAPS, SequenceTheorems

CreatePoints == {"createParse", "createDuplicates", "createUser", "createInsert"}
FindPoints == {"saveFind", "enrichFind", "deleteFind"}

\* What a request knows by the await it has reached: the kind of its call, that
\* the upload it found exists, the company it read, the raw row it made.
RequestControl(r) ==
    /\ pc[r] \in CreatePoints => call[r] \in CreateCall
    /\ pc[r] \in Points \ CreatePoints => call[r] \in UploadCall
    /\ pc[r] \in Points \ (CreatePoints \cup FindPoints) => Target(r) \in 1..Len(uploads)
    /\ pc[r] = "createInsert" => loc[r].company \in Companies
    /\ pc[r] = "enrichMark" => loc[r].raw \in 1..Len(jobs)

ControlOK == \A r \in Req : RequestControl(r)

TypeInv == TypeOK /\ ControlOK

\* A statement keeps the length of a table, and an update the type of its rows.
LEMMA UpdateManyType ==
    ASSUME NEW S, NEW t \in Seq(S), NEW where, NEW col, NEW v,
           \A row \in S : [row EXCEPT ![col] = v] \in S
    PROVE  /\ UpdateMany(t, where, col, v) \in Seq(S)
           /\ Len(UpdateMany(t, where, col, v)) = Len(t)
  BY DEF UpdateMany

LEMMA CreateManyType ==
    ASSUME NEW S, NEW t \in Seq(S), NEW rows \in Seq(S)
    PROVE  /\ CreateMany(t, rows) \in Seq(S)
           /\ Len(CreateMany(t, rows)) = Len(t) + Len(rows)
           /\ \A i \in 1..Len(t) : CreateMany(t, rows)[i] = t[i]
           /\ \A i \in 1..Len(rows) : CreateMany(t, rows)[Len(t) + i] = rows[i]
  BY ConcatProperties DEF CreateMany
\* What an update of one column of persons or uploads keeps.
LEMMA PersonsUpdated ==
    ASSUME TypeOK, NEW where, NEW v,
           NEW col \in {"status", "deleted", "key", "company"},
           col = "status" => v \in Statuses,
           col = "deleted" => v \in BOOLEAN,
           col = "key" => v \in Keys,
           col = "company" => v \in Companies
    PROVE  /\ UpdateMany(persons, where, col, v) \in Seq(PersonRow)
           /\ Len(UpdateMany(persons, where, col, v)) = Len(persons)
  <1>1. \A row \in PersonRow : [row EXCEPT ![col] = v] \in PersonRow
    <2>1. CASE col = "status"   BY <2>1 DEF PersonRow
    <2>2. CASE col = "deleted"  BY <2>2 DEF PersonRow
    <2>3. CASE col = "key"      BY <2>3 DEF PersonRow
    <2>4. CASE col = "company"  BY <2>4 DEF PersonRow
    <2>5. QED BY <2>1, <2>2, <2>3, <2>4
  <1>2. persons \in Seq(PersonRow)
    BY DEF TypeOK
  <1>3. QED BY <1>1, <1>2, UpdateManyType

LEMMA UploadsUpdated ==
    ASSUME TypeOK, NEW where, NEW v, v \in BOOLEAN,
           NEW col \in {"isSaved", "deleted"}
    PROVE  /\ UpdateMany(uploads, where, col, v) \in Seq(UploadRow)
           /\ Len(UpdateMany(uploads, where, col, v)) = Len(uploads)
  <1>1. \A row \in UploadRow : [row EXCEPT ![col] = v] \in UploadRow
    <2>1. CASE col = "isSaved"  BY <2>1 DEF UploadRow
    <2>2. CASE col = "deleted"  BY <2>2 DEF UploadRow
    <2>3. QED BY <2>1, <2>2
  <1>2. uploads \in Seq(UploadRow)
    BY DEF TypeOK
  <1>3. QED BY <1>1, <1>2 DEF UpdateMany

LEMMA InitTypeOK == Init => TypeOK
  <1> SUFFICES ASSUME Init PROVE TypeOK
    OBVIOUS
  <1>1. uploads \in Seq(UploadRow) /\ companies \in [Companies -> CompanyRow]
    BY ConstantsAssumption DEF Init
  <1>2. /\ persons \in Seq(PersonRow) /\ jobs \in Seq(Job) /\ Len(jobs) = Len(raws)
        /\ raws \in Seq(RawRow)
    BY DEF Init
  <1>3. call \in [Req -> Calls]
    BY ConstantsAssumption DEF Init
  <1>4. loc \in [Req -> Locals] /\ pc \in [Req -> {Idle} \cup Points \cup Terminal]
    BY DEF Init, NoLocals, Locals
  <1>5. QED BY <1>1, <1>2, <1>3, <1>4 DEF Init, TypeOK

\* The types of what only a request's own step changes.
LEMMA GotoType ==
    ASSUME TypeOK, NEW r \in Req, NEW point \in Points \cup Terminal, Goto(r, point)
    PROVE  pc' \in [Req -> {Idle} \cup Points \cup Terminal]
  BY DEF TypeOK, Goto

LEMMA RejectType ==
    ASSUME TypeOK, NEW r \in Req, Reject(r)
    PROVE  /\ pc' \in [Req -> {Idle} \cup Points \cup Terminal]
           /\ loc' \in [Req -> Locals]
  BY DEF TypeOK, Reject, Goto, NoLocals, Locals, Terminal

LEMMA FinishType ==
    ASSUME TypeOK, NEW r \in Req, Finish(r)
    PROVE  /\ pc' \in [Req -> {Idle} \cup Points \cup Terminal]
           /\ loc' \in [Req -> Locals]
           /\ faults' \in Nat
  <1>1. loc' \in [Req -> Locals]
    BY DEF TypeOK, Finish, NoLocals, Locals
  <1>2. CASE Goto(r, "ok") /\ UNCHANGED faults
    BY <1>1, <1>2 DEF TypeOK, Goto, Terminal
  <1>3. CASE faults' = faults + 1 /\ Goto(r, "error")
    BY <1>1, <1>3 DEF TypeOK, Goto, Terminal
  <1>4. QED BY <1>2, <1>3 DEF Finish

\* The types of what only a job's own step changes.
LEMMA AdvanceType ==
    ASSUME TypeOK, NEW j \in 1..Len(jobs),
           NEW point \in {"done", "lost"} \cup Running, Advance(j, point)
    PROVE  jobs' \in Seq(Job) /\ Len(jobs') = Len(jobs)
  <1>1. \A job \in Job : [job EXCEPT !.point = point] \in Job
    BY DEF Job
  <1>2. jobs \in Seq(Job) /\ jobs' = [jobs EXCEPT ![j].point = point]
    BY DEF TypeOK, Advance
  <1>3. jobs' = [jobs EXCEPT ![j] = [jobs[j] EXCEPT !.point = point]]
    BY <1>2
  <1>4. [jobs[j] EXCEPT !.point = point] \in Job
    BY <1>1, <1>2
  <1>5. QED BY <1>2, <1>3, <1>4

\* The rows a save inserts.
LEMMA NewPersonsType ==
    ASSUME TypeOK, NEW u \in 1..Len(uploads)
    PROVE  /\ NewPersons(u) \in Seq(PersonRow)
           /\ Len(NewPersons(u)) = Len(Content[uploads[u].file])
  <1>1. uploads[u] \in UploadRow
    BY DEF TypeOK
  <1>2. Content[uploads[u].file] \in Seq(Keys)
    BY <1>1, ConstantsAssumption DEF UploadRow
  <1>3. QED BY <1>1, <1>2 DEF NewPersons, PersonRow, UploadRow, Statuses

LEMMA DieType ==
    ASSUME TypeOK, Die, faults' \in Nat
    PROVE  TypeOK'
  <1>1. jobs' \in Seq(Job) /\ Len(jobs') = Len(jobs)
    <2>1. \A job \in Job : [job EXCEPT !.point = "lost"] \in Job
      BY DEF Job
    <2>2. QED BY <2>1 DEF TypeOK, Die
  <1>2. pc' \in [Req -> {Idle} \cup Points \cup Terminal]
    BY DEF TypeOK, Die, Terminal
  <1>3. loc' \in [Req -> Locals]
    BY DEF Die, NoLocals, Locals
  <1>4. filesLost' \in Nat
    <2>1. filesLost \in Nat /\ Len(uploads) \in Nat
      BY DEF TypeOK
    <2>2. QED BY <2>1 DEF Die
  <1>5. QED BY <1>1, <1>2, <1>3, <1>4 DEF TypeOK, Die, tables
\* Every step of every handler keeps the types.
LEMMA HandlerTypeOK ==
    ASSUME TypeInv, NEW r \in Req, Handle(r)
    PROVE  TypeOK'
  <1> TypeOK /\ ControlOK
    BY DEF TypeInv
  <1> USE DEF RequestOnly, tables
  <1>1. CASE CreateParse(r)
    <2>1. CASE Reject(r)
      BY <1>1, <2>1, RejectType DEF CreateParse, TypeOK
    <2>2. CASE Goto(r, "createDuplicates") /\ UNCHANGED loc
      BY <1>1, <2>2, GotoType DEF CreateParse, TypeOK, Points
    <2>3. QED BY <1>1, <2>1, <2>2 DEF CreateParse
  <1>2. CASE CreateDuplicates(r)
    <2>1. pc' \in [Req -> {Idle} \cup Points \cup Terminal]
      BY <1>2, GotoType DEF CreateDuplicates, Points
    <2>2. loc' \in [Req -> Locals]
      BY <1>2 DEF CreateDuplicates, Keep, Locals, TypeOK
    <2>3. QED BY <1>2, <2>1, <2>2 DEF CreateDuplicates, TypeOK
  <1>3. CASE CreateUser(r)
    <2>1. CASE Reject(r)
      BY <1>3, <2>1, RejectType DEF CreateUser, TypeOK
    <2>2. ASSUME NEW c \in Companies, Keep(r, "company", c), Goto(r, "createInsert")
          PROVE  TypeOK'
      <3>1. pc' \in [Req -> {Idle} \cup Points \cup Terminal]
        BY <2>2, GotoType DEF Points
      <3>2. loc' \in [Req -> Locals]
        BY <2>2 DEF Keep, Locals, TypeOK
      <3>3. QED BY <1>3, <3>1, <3>2 DEF CreateUser, TypeOK
    <2>3. QED BY <1>3, <2>1, <2>2 DEF CreateUser
  <1>4. CASE CreateInsert(r)
    <2> DEFINE row == [file |-> call[r].file, company |-> loc[r].company,
                       isSaved |-> FALSE, deleted |-> FALSE]
    <2>1. call[r] \in CreateCall /\ loc[r].company \in Companies
      BY <1>4 DEF CreateInsert, ControlOK, RequestControl, CreatePoints
    <2>2. row \in UploadRow
      BY <2>1 DEF UploadRow, CreateCall
    <2>3. CreateMany(uploads, <<row>>) \in Seq(UploadRow)
      BY <2>2 DEF CreateMany, TypeOK
    <2>4. uploads' \in Seq(UploadRow)
      BY <1>4, <2>3 DEF CreateInsert
    <2>5. QED BY <1>4, <2>4, FinishType DEF CreateInsert, TypeOK
  <1>5. CASE DeleteFind(r)
    <2>1. CASE Reject(r)
      BY <1>5, <2>1, RejectType DEF DeleteFind, TypeOK
    <2>2. CASE Goto(r, "deleteUpdate") /\ UNCHANGED loc
      BY <1>5, <2>2, GotoType DEF DeleteFind, TypeOK, Points
    <2>3. QED BY <1>5, <2>1, <2>2 DEF DeleteFind
  <1>6. CASE DeleteUpdate(r)
    <2>1. uploads' \in Seq(UploadRow)
      BY <1>6, UploadsUpdated DEF DeleteUpdate, DeleteMany
    <2>2. CASE Finish(r)
      BY <1>6, <2>1, <2>2, FinishType DEF DeleteUpdate, TypeOK
    <2>3. CASE Reject(r) /\ UNCHANGED faults
      BY <1>6, <2>1, <2>3, RejectType DEF DeleteUpdate, TypeOK
    <2>4. QED BY <1>6, <2>2, <2>3 DEF DeleteUpdate
  <1>7. CASE SaveFind(r)
    <2>1. CASE Reject(r)
      BY <1>7, <2>1, RejectType DEF SaveFind, TypeOK
    <2>2. CASE Goto(r, "saveParse") /\ UNCHANGED loc
      BY <1>7, <2>2, GotoType DEF SaveFind, TypeOK, Points
    <2>3. QED BY <1>7, <2>1, <2>2 DEF SaveFind
  <1>8. CASE SaveParse(r)
    BY <1>8, GotoType DEF SaveParse, TypeOK, Points
  <1>9. CASE SaveParseMissing(r)
    BY <1>9, DieType DEF SaveParseMissing, TypeOK
  <1>10. CASE SaveInsert(r)
    <2>1. CASE Reject(r) /\ UNCHANGED persons
      BY <1>10, <2>1, RejectType DEF SaveInsert, TypeOK
    <2>2. CASE Insertable(Target(r))
      <3> DEFINE rows == NewPersons(Target(r))
      <3>1. Target(r) \in 1..Len(uploads)
        BY <1>10 DEF SaveInsert, ControlOK, RequestControl, Points, CreatePoints, FindPoints
      <3>2. rows \in Seq(PersonRow)
        BY <3>1, NewPersonsType
      <3>3. persons' \in Seq(PersonRow)
        <4>1. persons' = CreateMany(persons, rows) /\ persons \in Seq(PersonRow)
          BY <1>10, <2>2 DEF SaveInsert, TypeOK
        <4>2. QED BY <3>2, <4>1, CreateManyType
      <3>4. QED BY <1>10, <2>2, <3>3, GotoType DEF SaveInsert, TypeOK, Points
    <2>3. QED BY <1>10, <2>1, <2>2 DEF SaveInsert
  <1>11. CASE SaveMark(r)
    <2>1. uploads' \in Seq(UploadRow)
      BY <1>11, UploadsUpdated DEF SaveMark
    <2>2. CASE Finish(r)
      BY <1>11, <2>1, <2>2, FinishType DEF SaveMark, TypeOK
    <2>3. CASE Reject(r) /\ UNCHANGED faults
      BY <1>11, <2>1, <2>3, RejectType DEF SaveMark, TypeOK
    <2>4. CASE Goto(r, "enrichPersons") /\ UNCHANGED <<loc, faults>>
      BY <1>11, <2>1, <2>4, GotoType DEF SaveMark, TypeOK, Points
    <2>5. QED BY <1>11, <2>2, <2>3, <2>4 DEF SaveMark
  <1>12. CASE EnrichFind(r)
    <2>1. CASE Reject(r)
      BY <1>12, <2>1, RejectType DEF EnrichFind, TypeOK
    <2>2. CASE Target(r) \in Live(uploads)
      <3>1. uploads[Target(r)].isSaved \in BOOLEAN
        <4>1. uploads[Target(r)] \in UploadRow
          BY <2>2 DEF Live, TypeOK
        <4>2. QED BY <4>1 DEF UploadRow
      <3>2. loc' \in [Req -> Locals]
        <4>1. loc \in [Req -> Locals] /\ currentUser \in Users \cup {NoUser}
          BY DEF TypeOK
        <4>2. \A local \in Locals :
                 [local EXCEPT !.wasSaved = uploads[Target(r)].isSaved,
                               !.ident = currentUser] \in Locals
          BY <3>1, <4>1 DEF Locals
        <4>3. loc' = [loc EXCEPT ![r] = [loc[r] EXCEPT !.wasSaved = uploads[Target(r)].isSaved,
                                                       !.ident = currentUser]]
          BY <1>12, <2>2, <4>1 DEF EnrichFind
        <4>4. QED BY <4>1, <4>2, <4>3
      <3>3. pc' \in [Req -> {Idle} \cup Points \cup Terminal]
        BY <1>12, <2>2, GotoType DEF EnrichFind, Points
      <3>4. QED BY <1>12, <3>2, <3>3 DEF EnrichFind, TypeOK
    <2>3. QED BY <1>12, <2>1, <2>2 DEF EnrichFind
  <1>13. CASE EnrichUser(r)
    BY <1>13, GotoType DEF EnrichUser, TypeOK, Points
  <1>14. CASE EnrichCompany(r)
    <2>1. CASE Reject(r)
      BY <1>14, <2>1, RejectType DEF EnrichCompany, TypeOK
    <2>2. CASE UNCHANGED loc /\ \E point \in Points : Goto(r, point)
      BY <1>14, <2>2, GotoType DEF EnrichCompany, TypeOK
    <2>3. QED BY <1>14, <2>1, <2>2 DEF EnrichCompany, Points
  <1>15. CASE EnrichPersons(r)
    <2>1. pc' \in [Req -> {Idle} \cup Points \cup Terminal]
      BY <1>15, GotoType DEF EnrichPersons, Points
    <2>2. PersonsOf(Target(r)) \cap Live(persons) \in SUBSET Nat
      BY DEF PersonsOf
    <2>3. loc' \in [Req -> Locals]
      BY <1>15, <2>2 DEF EnrichPersons, Keep, Locals, TypeOK
    <2>4. QED BY <1>15, <2>1, <2>3 DEF EnrichPersons, TypeOK
  <1>16. CASE EnrichRaw(r)
    <2> DEFINE raw == [request |-> loc[r].people, response |-> "none"]
               job == [point |-> "unstarted", upload |-> Target(r), found |-> {}]
    <2>1. Target(r) \in Nat
      <3>1. pc[r] \in Points \ (CreatePoints \cup FindPoints)
        BY <1>16 DEF EnrichRaw, Points, CreatePoints, FindPoints
      <3>2. Len(uploads) \in Nat
        BY DEF TypeOK
      <3>3. QED BY <3>1, <3>2 DEF ControlOK, RequestControl
    <2>2. raws' \in Seq(RawRow)
      BY <1>16 DEF EnrichRaw, CreateMany, TypeOK, Locals, RawRow
    <2>3. jobs' \in Seq(Job)
      <3>1. job \in Job
        BY <2>1 DEF Job
      <3>2. QED BY <1>16, <3>1 DEF EnrichRaw, TypeOK
    <2>4. Len(jobs') = Len(raws')
      BY <1>16 DEF EnrichRaw, CreateMany, TypeOK
    <2>5. loc' \in [Req -> Locals]
      <3>1. Len(raws) + 1 \in Nat
        BY DEF TypeOK
      <3>2. QED BY <1>16, <3>1 DEF EnrichRaw, Keep, Locals, TypeOK
    <2>6. pc' \in [Req -> {Idle} \cup Points \cup Terminal]
      BY <1>16, GotoType DEF EnrichRaw, Points
    <2>7. QED BY <1>16, <2>2, <2>3, <2>4, <2>5, <2>6 DEF EnrichRaw, TypeOK
  <1>17. CASE EnrichMark(r)
    <2>1. persons' \in Seq(PersonRow)
      BY <1>17, PersonsUpdated DEF EnrichMark, Statuses
    <2>2. loc' \in [Req -> Locals]
      BY <1>17 DEF EnrichMark, NoLocals, Locals, TypeOK
    <2>3. pc' \in [Req -> {Idle} \cup Points \cup Terminal]
      BY <1>17, GotoType DEF EnrichMark, Terminal
    <2>4. jobs' \in Seq(Job) /\ Len(jobs') = Len(jobs)
      <3>1. loc[r].raw \in 1..Len(jobs)
        BY <1>17 DEF EnrichMark, ControlOK, RequestControl
      <3>2. CASE UNCHANGED jobs
        BY <3>2 DEF TypeOK
      <3>3. CASE Advance(loc[r].raw, "calling")
        BY <3>1, <3>3, AdvanceType DEF Running
      <3>4. QED BY <1>17, <3>2, <3>3 DEF EnrichMark, Advance
    <2>5. faults' \in Nat /\ abrupt' \in BOOLEAN
      <3>1. CASE UNCHANGED <<faults, abrupt>>
        BY <3>1 DEF TypeOK
      <3>2. CASE faults' = faults + 1 /\ abrupt' = TRUE
        BY <3>2 DEF TypeOK
      <3>3. QED BY <1>17, <3>1, <3>2 DEF EnrichMark
    <2>6. QED BY <1>17, <2>1, <2>2, <2>3, <2>4, <2>5 DEF EnrichMark, TypeOK
  <1>18. QED
    BY <1>1, <1>2, <1>3, <1>4, <1>5, <1>6, <1>7, <1>8, <1>9, <1>10, <1>11, <1>12,
       <1>13, <1>14, <1>15, <1>16, <1>17
       DEF Handle, CreateSteps, DeleteSteps, SaveSteps, EnrichSteps

LEMMA JobTypeOK ==
    ASSUME TypeInv, NEW j \in 1..Len(jobs), JobStep(j) \/ JobFails(j)
    PROVE  TypeOK'
  <1> TypeOK
    BY DEF TypeInv
  <1> USE DEF JobOnly, tables
  <1>0. \A point \in {"done", "lost"} \cup Running :
           Advance(j, point) => jobs' \in Seq(Job) /\ Len(jobs') = Len(jobs)
    BY AdvanceType
  <1> DEFINE RawsType == raws' \in Seq(RawRow)
             Pointed == jobs' \in Seq(Job) /\ Len(jobs') = Len(jobs)
  <1>r. ASSUME NEW response \in {"items", "error"}, raws' = [raws EXCEPT ![j].response = response]
        PROVE  RawsType /\ Len(raws') = Len(raws)
    <2>1. raws \in Seq(RawRow) /\ j \in 1..Len(raws)
      BY DEF TypeOK
    <2>2. \A raw \in RawRow : [raw EXCEPT !.response = response] \in RawRow
      BY DEF RawRow
    <2>3. raws' = [raws EXCEPT ![j] = [raws[j] EXCEPT !.response = response]]
      BY <1>r
    <2>4. raws[j] \in RawRow
      BY <2>1
    <2>5. QED BY <2>1, <2>2, <2>3, <2>4
  <1>j. raws[j].request \in SUBSET Nat
    <2>1. raws[j] \in RawRow
      BY DEF TypeOK
    <2>2. QED BY <2>1 DEF RawRow
  <1>1. CASE Answered(j)
    <2>1. PICK found \in SUBSET raws[j].request :
             jobs' = [jobs EXCEPT ![j].point = "record", ![j].found = found]
      BY <1>1 DEF Answered
    <2>2. found \in SUBSET Nat
      BY <1>j
    <2>3. \A job \in Job : [job EXCEPT !.point = "record", !.found = found] \in Job
      BY <2>2 DEF Job, Running, ThenPoints
    <2>4. jobs' = [jobs EXCEPT ![j] = [jobs[j] EXCEPT !.point = "record", !.found = found]]
      BY <2>1
    <2>5. Pointed
      <3>1. jobs \in Seq(Job) /\ jobs[j] \in Job
        BY DEF TypeOK
      <3>2. [jobs[j] EXCEPT !.point = "record", !.found = found] \in Job
        BY <2>3, <3>1
      <3>3. QED BY <2>4, <3>1, <3>2
    <2>6. QED BY <1>1, <2>5 DEF Answered, TypeOK
  <1>2. CASE CallFails(j)
    BY <1>2, <1>0 DEF CallFails, TypeOK, Running, CatchPoints
  <1>3. CASE RecordResponse(j)
    BY <1>3, <1>0, <1>r DEF RecordResponse, TypeOK, Running, ThenPoints
  <1>4. CASE InsertEnrichments(j)
    <2>1. enrichments' \subseteq [job: Nat, person: Nat, found: BOOLEAN]
      <3>1. ASSUME NEW p \in raws[j].request
            PROVE  [job |-> j, person |-> p, found |-> p \in jobs[j].found]
                      \in [job: Nat, person: Nat, found: BOOLEAN]
        BY <1>j
      <3>2. QED BY <1>4, <3>1 DEF InsertEnrichments, TypeOK
    <2>2. QED BY <1>4, <1>0, <2>1 DEF InsertEnrichments, TypeOK, Running, ThenPoints
  <1>5. CASE CompleteFound(j)
    <2>1. persons' \in Seq(PersonRow)
      BY <1>5, PersonsUpdated DEF CompleteFound, Statuses
    <2>2. QED BY <1>5, <1>0, <2>1 DEF CompleteFound, TypeOK, Running, ThenPoints
  <1>6. CASE FailOthers(j)
    <2>1. persons' \in Seq(PersonRow)
      BY <1>6, PersonsUpdated DEF FailOthers, Statuses
    <2>2. CASE Advance(j, "done") /\ UNCHANGED faults
      BY <1>6, <1>0, <2>1, <2>2 DEF FailOthers, TypeOK
    <2>3. CASE faults' = faults + 1 /\ Advance(j, "catchRaw")
      BY <1>6, <1>0, <2>1, <2>3 DEF FailOthers, TypeOK, Running, CatchPoints
    <2>4. QED BY <1>6, <2>2, <2>3 DEF FailOthers
  <1>7. CASE CatchRaw(j)
    BY <1>7, <1>0, <1>r DEF CatchRaw, TypeOK, Running, CatchPoints
  <1>8. CASE CatchPersons(j)
    <2>1. persons' \in Seq(PersonRow)
      BY <1>8, PersonsUpdated DEF CatchPersons, Statuses
    <2>2. QED BY <1>8, <1>0, <2>1 DEF CatchPersons, TypeOK
  <1>9. CASE ThenFails(j)
    BY <1>9, <1>0 DEF ThenFails, TypeOK, Running, CatchPoints
  <1>10. CASE CatchFails(j)
    BY <1>10, DieType DEF CatchFails, TypeOK
  <1>11. QED BY <1>1, <1>2, <1>3, <1>4, <1>5, <1>6, <1>7, <1>8, <1>9, <1>10
             DEF JobStep, JobFails

LEMMA EditTypeOK ==
    ASSUME TypeOK, AdminEdit
    PROVE  TypeOK'
  <1> USE DEF EditOnly, Edit
  <1>1. ASSUME persons' \in Seq(PersonRow), edits' = edits + 1, UNCHANGED companies, EditOnly
        PROVE  TypeOK'
    BY <1>1 DEF TypeOK
  <1>2. CASE CreatePerson
    <2>1. PICK key \in Keys, c \in Companies, status \in Statuses :
             persons' = CreateMany(persons,
                << [key |-> key, company |-> c, upload |-> 0, row |-> 0,
                    status |-> status, deleted |-> FALSE] >>)
      BY <1>2 DEF CreatePerson
    <2> DEFINE row == [key |-> key, company |-> c, upload |-> 0, row |-> 0,
                       status |-> status, deleted |-> FALSE]
    <2>2. row \in PersonRow
      BY DEF PersonRow
    <2>3. persons' \in Seq(PersonRow)
      BY <2>1, <2>2 DEF CreateMany, TypeOK
    <2>4. QED BY <1>1, <1>2, <2>3 DEF CreatePerson
  <1>3. CASE SetStatus
    <2>1. persons' \in Seq(PersonRow)
      BY <1>3, PersonsUpdated DEF SetStatus
    <2>2. QED BY <1>1, <1>3, <2>1 DEF SetStatus
  <1>4. CASE Rekey
    <2>1. PICK p \in Live(persons), key \in Keys, c \in Companies :
             persons' = UpdateMany(UpdateMany(persons, {p}, "key", key), {p}, "company", c)
      BY <1>4 DEF Rekey
    <2>2. UpdateMany(persons, {p}, "key", key) \in Seq(PersonRow)
      BY PersonsUpdated
    <2>3. \A row \in PersonRow : [row EXCEPT !["company"] = c] \in PersonRow
      BY DEF PersonRow
    <2>4. persons' \in Seq(PersonRow)
      BY <2>1, <2>2, <2>3, UpdateManyType
    <2>5. QED BY <1>1, <1>4, <2>4 DEF Rekey
  <1>5. CASE DeletePerson
    <2>1. persons' \in Seq(PersonRow)
      BY <1>5, PersonsUpdated DEF DeletePerson, DeleteMany
    <2>2. QED BY <1>1, <1>5, <2>1 DEF DeletePerson
  <1>6. CASE AssignCompany
    <2>1. companies' \in [Companies -> CompanyRow]
      BY <1>6 DEF AssignCompany, TypeOK, CompanyRow
    <2>2. QED BY <1>6, <2>1 DEF AssignCompany, TypeOK
  <1>7. CASE DeleteCompany
    <2>1. companies' \in [Companies -> CompanyRow]
      BY <1>7 DEF DeleteCompany, TypeOK, CompanyRow
    <2>2. QED BY <1>7, <2>1 DEF DeleteCompany, TypeOK
  <1>8. QED BY <1>2, <1>3, <1>4, <1>5, <1>6, <1>7 DEF AdminEdit

LEMMA ArriveTypeOK ==
    ASSUME TypeOK, NEW r \in Req, Arrive(r)
    PROVE  TypeOK'
  <1>1. PICK c \in Calls :
          /\ call' = [call EXCEPT ![r] = c] /\ currentUser' = c.user
          /\ \E point \in Points : Goto(r, point)
    BY ConstantsAssumption DEF Arrive, Points, CreateCall, UploadCall
  <1>2. c.user \in Users
    BY ConstantsAssumption DEF CreateCall, UploadCall
  <1>3. pc' \in [Req -> {Idle} \cup Points \cup Terminal]
    BY <1>1, GotoType
  <1>4. call' \in [Req -> Calls]
    BY <1>1 DEF TypeOK
  <1>5. QED BY <1>1, <1>2, <1>3, <1>4 DEF Arrive, TypeOK, tables

\* No table shrinks, and no job is forgotten.
Grows == Len(uploads) <= Len(uploads') /\ Len(jobs) <= Len(jobs')

LEMMA HandlerGrows ==
    ASSUME TypeInv, NEW r \in Req, Handle(r)
    PROVE  Grows
  <1> TypeOK /\ ControlOK
    BY DEF TypeInv
  <1>0. Len(uploads) \in Nat /\ Len(jobs) \in Nat
    BY DEF TypeOK
  <1>1. CASE UNCHANGED <<uploads, jobs>>
    BY <1>0, <1>1 DEF Grows
  <1>2. CASE CreateInsert(r)
    BY <1>0, <1>2 DEF CreateInsert, CreateMany, Grows, RequestOnly, TypeOK
  <1>3. CASE DeleteUpdate(r)
    BY <1>0, <1>3 DEF DeleteUpdate, DeleteMany, UpdateMany, Grows, RequestOnly
  <1>4. CASE SaveMark(r)
    BY <1>0, <1>4 DEF SaveMark, UpdateMany, Grows, RequestOnly
  <1>5. CASE SaveParseMissing(r)
    BY <1>0, <1>5 DEF SaveParseMissing, Die, tables, Grows
  <1>6. CASE EnrichRaw(r)
    BY <1>0, <1>6 DEF EnrichRaw, Grows, TypeOK
  <1>7. CASE EnrichMark(r)
    BY <1>0, <1>7 DEF EnrichMark, Grows, TypeOK
  <1>8. QED
    BY <1>1, <1>2, <1>3, <1>4, <1>5, <1>6, <1>7
       DEF Handle, CreateSteps, DeleteSteps, SaveSteps, EnrichSteps, CreateParse,
           CreateDuplicates, CreateUser, DeleteFind, SaveFind, SaveParse, SaveInsert,
           EnrichFind, EnrichUser, EnrichCompany, EnrichPersons, RequestOnly, tables

\* A request that has not moved, or has ended, keeps its control facts.
LEMMA ControlFrame ==
    ASSUME TypeInv, Grows, NEW q \in Req, Len(uploads') \in Nat, Len(jobs') \in Nat,
           \/ pc'[q] = pc[q] /\ call'[q] = call[q] /\ loc'[q] = loc[q]
           \/ pc'[q] \notin Points
    PROVE  RequestControl(q)'
  <1>1. RequestControl(q) /\ Len(uploads) \in Nat /\ Len(jobs) \in Nat
    BY DEF TypeInv, ControlOK, TypeOK
  <1>2. CASE pc'[q] \notin Points
    BY <1>2 DEF RequestControl, CreatePoints, Points
  <1>3. CASE pc'[q] = pc[q] /\ call'[q] = call[q] /\ loc'[q] = loc[q]
    BY <1>1, <1>3 DEF RequestControl, Target, Grows
  <1>4. QED BY <1>2, <1>3

LEMMA HandlerControl ==
    ASSUME TypeInv, NEW r \in Req, Handle(r), TypeOK'
    PROVE  ControlOK'
  <1>0. /\ Grows /\ TypeOK /\ RequestControl(r)
        /\ Len(uploads') \in Nat /\ Len(jobs') \in Nat
        /\ Len(uploads) \in Nat /\ Len(jobs) \in Nat
    BY HandlerGrows DEF TypeInv, ControlOK, TypeOK
  <1>1. CASE SaveParseMissing(r)
    <2>1. \A q \in Req : pc'[q] \notin Points
      BY <1>0, <1>1 DEF SaveParseMissing, Die, TypeOK, Idle, Terminal, Points
    <2>2. QED BY <1>0, <2>1, ControlFrame DEF ControlOK
  <1>2. CASE ~SaveParseMissing(r)
    <2>1. ASSUME NEW q \in Req, q # r
          PROVE  RequestControl(q)'
      <3>1. pc'[q] = pc[q] /\ loc'[q] = loc[q] /\ call'[q] = call[q]
        BY <1>0, <1>2, <2>1
           DEF Handle, CreateSteps, DeleteSteps, SaveSteps, EnrichSteps, CreateParse,
               CreateDuplicates, CreateUser, CreateInsert, DeleteFind, DeleteUpdate,
               SaveFind, SaveParse, SaveInsert, SaveMark, EnrichFind, EnrichUser,
               EnrichCompany, EnrichPersons, EnrichRaw, EnrichMark, RequestOnly,
               Reject, Finish, Goto, Keep, TypeOK
      <3>2. QED BY <1>0, <3>1, ControlFrame
    <2>2. RequestControl(r)'
      <3>1. CASE pc'[r] \notin Points
        BY <1>0, <3>1, ControlFrame
      <3>2. CASE pc'[r] \in Points
        <4>1. call'[r] = call[r] /\ Target(r)' = Target(r)
          BY <1>2, <3>2
             DEF Handle, CreateSteps, DeleteSteps, SaveSteps, EnrichSteps, CreateParse,
                 CreateDuplicates, CreateUser, CreateInsert, DeleteFind, DeleteUpdate,
                 SaveFind, SaveParse, SaveInsert, SaveMark, EnrichFind, EnrichUser,
                 EnrichCompany, EnrichPersons, EnrichRaw, EnrichMark, RequestOnly, Target
        <4> USE DEF RequestControl, CreatePoints, FindPoints, Points, Goto, Reject, Finish
        <4>2. CASE CreateSteps(r)
          <5>1. CASE CreateParse(r) \/ CreateDuplicates(r) \/ CreateInsert(r)
            BY <1>0, <3>2, <4>1, <5>1 DEF CreateParse, CreateDuplicates, CreateInsert, TypeOK
          <5>2. CASE CreateUser(r)
            <6>1. PICK c \in Companies : Keep(r, "company", c) /\ Goto(r, "createInsert")
              BY <1>0, <3>2, <5>2 DEF CreateUser, TypeOK
            <6>2. pc'[r] = "createInsert" /\ loc'[r].company = c
              BY <1>0, <6>1 DEF Keep, TypeOK, Locals
            <6>3. QED BY <1>0, <4>1, <5>2, <6>2 DEF CreateUser
          <5>3. QED BY <4>2, <5>1, <5>2 DEF CreateSteps
        <4>3. CASE DeleteSteps(r)
          BY <1>0, <3>2, <4>1, <4>3
             DEF DeleteSteps, DeleteFind, DeleteUpdate, Live, TypeOK, Grows
        <4>4. CASE SaveSteps(r)
          <5>1. CASE SaveFind(r)
            BY <1>0, <3>2, <4>1, <5>1 DEF SaveFind, Live, TypeOK, Grows
          <5>2. CASE SaveParse(r)
            BY <1>0, <4>1, <5>2 DEF SaveParse, TypeOK, Grows
          <5>3. CASE SaveInsert(r)
            BY <1>0, <3>2, <4>1, <5>3 DEF SaveInsert, TypeOK, Grows
          <5>4. CASE SaveMark(r)
            <6>1. pc'[r] = "enrichPersons"
              BY <1>0, <3>2, <5>4 DEF SaveMark, TypeOK
            <6>2. pc[r] = "saveMark"
              BY <5>4 DEF SaveMark
            <6>3. QED BY <1>0, <4>1, <6>1, <6>2 DEF Grows
          <5>5. QED BY <1>2, <4>4, <5>1, <5>2, <5>3, <5>4 DEF SaveSteps
        <4>5. CASE EnrichSteps(r)
          <5>1. CASE EnrichRaw(r)
            <6>1. pc'[r] = "enrichMark" /\ loc'[r].raw = Len(raws) + 1
              BY <1>0, <5>1 DEF EnrichRaw, Keep, TypeOK, Locals
            <6>2. Len(jobs') = Len(raws) + 1
              <7>1. Len(jobs') = Len(raws')
                BY DEF TypeOK
              <7>2. Len(raws') = Len(raws) + 1
                BY <1>0, <5>1 DEF EnrichRaw, CreateMany, TypeOK
              <7>3. QED BY <7>1, <7>2
            <6>3. QED BY <1>0, <4>1, <5>1, <6>1, <6>2 DEF EnrichRaw, Grows
          <5>2. CASE EnrichFind(r) \/ EnrichUser(r) \/ EnrichCompany(r) \/ EnrichPersons(r)
            BY <1>0, <3>2, <4>1, <5>2
               DEF EnrichFind, EnrichUser, EnrichCompany, EnrichPersons, Live, TypeOK, Grows
          <5>3. CASE EnrichMark(r)
            BY <1>0, <3>2, <5>3 DEF EnrichMark, TypeOK
          <5>4. QED BY <4>5, <5>1, <5>2, <5>3 DEF EnrichSteps
        <4>6. QED BY <4>2, <4>3, <4>4, <4>5 DEF Handle
      <3>3. QED BY <3>1, <3>2
    <2>3. QED BY <2>1, <2>2 DEF ControlOK
  <1>3. QED BY <1>1, <1>2

LEMMA StepTypeInv == TypeInv /\ [Next]_vars => TypeInv'
  <1> SUFFICES ASSUME TypeInv, [Next]_vars PROVE TypeInv'
    OBVIOUS
  <1>0. TypeOK /\ ControlOK /\ Len(uploads) \in Nat /\ Len(jobs) \in Nat
    BY DEF TypeInv, TypeOK
  <1> DEFINE Still(q) == \/ pc'[q] = pc[q] /\ call'[q] = call[q] /\ loc'[q] = loc[q]
                         \/ pc'[q] \notin Points
  <1>1. ASSUME TypeOK', Grows, \A q \in Req : Still(q)
        PROVE  TypeInv'
    <2>1. Len(uploads') \in Nat /\ Len(jobs') \in Nat
      BY <1>1 DEF TypeOK
    <2>2. QED BY <1>1, <2>1, ControlFrame DEF TypeInv, ControlOK
  <1>2. ASSUME NEW r \in Req, Arrive(r) PROVE TypeInv'
    <2>1. TypeOK'
      BY <1>0, <1>2, ArriveTypeOK
    <2>2. Grows
      BY <1>0, <1>2 DEF Arrive, tables, Grows
    <2>3. ASSUME NEW q \in Req PROVE RequestControl(q)'
      <3>1. CASE q = r
        <4>1. PICK c \in Calls :
                /\ call' = [call EXCEPT ![r] = c]
                /\ Goto(r, CASE c.kind = "create" -> "createParse"
                             [] c.kind = "save"   -> "saveFind"
                             [] c.kind = "enrich" -> "enrichFind"
                             [] c.kind = "delete" -> "deleteFind")
          BY <1>2 DEF Arrive
        <4>2. call'[r] = c
          BY <1>0, <4>1 DEF TypeOK
        <4>3. CASE c \in CreateCall
          BY <1>0, <3>1, <4>1, <4>2, <4>3
             DEF CreateCall, Goto, TypeOK, RequestControl, CreatePoints, FindPoints, Points
        <4>4. CASE c \in UploadCall
          BY <1>0, <3>1, <4>1, <4>2, <4>4
             DEF UploadCall, Goto, TypeOK, RequestControl, CreatePoints, FindPoints, Points
        <4>5. QED BY <4>3, <4>4, ConstantsAssumption
      <3>2. CASE q # r
        <4>1. Still(q)
          BY <1>0, <1>2, <3>2 DEF Arrive, Goto, TypeOK
        <4>2. Len(uploads') \in Nat /\ Len(jobs') \in Nat
          BY <2>1 DEF TypeOK
        <4>3. QED BY <2>2, <4>1, <4>2, ControlFrame
      <3>3. QED BY <3>1, <3>2
    <2>4. QED BY <2>1, <2>3 DEF TypeInv, ControlOK
  <1>3. ASSUME NEW r \in Req, Handle(r) PROVE TypeInv'
    BY <1>3, HandlerTypeOK, HandlerControl DEF TypeInv
  <1>4. ASSUME NEW r \in Req, RequestFails(r) PROVE TypeInv'
    <2>1. TypeOK'
      BY <1>0, <1>4, RejectType DEF RequestFails, RequestOnly, tables, TypeOK
    <2>2. Grows
      BY <1>0, <1>4 DEF RequestFails, RequestOnly, tables, Grows
    <2>3. \A q \in Req : Still(q)
      BY <1>0, <1>4 DEF RequestFails, RequestOnly, Reject, Goto, Points, TypeOK
    <2>4. QED BY <1>1, <2>1, <2>2, <2>3
  <1>5. ASSUME Die, faults' \in Nat PROVE TypeInv'
    <2>1. TypeOK'
      BY <1>0, <1>5, DieType
    <2>2. Grows
      BY <1>0, <1>5 DEF Die, tables, Grows
    <2>3. \A q \in Req : pc'[q] \notin Points
      BY <1>0, <1>5 DEF Die, TypeOK, Idle, Terminal, Points
    <2>4. QED BY <1>1, <2>1, <2>2, <2>3
  <1>6. ASSUME NEW j \in 1..Len(jobs), JobStep(j) \/ JobFails(j), ~Die PROVE TypeInv'
    <2>1. TypeOK'
      BY <1>6, JobTypeOK
    <2>2. UNCHANGED <<uploads, pc, call, loc>>
      BY <1>6 DEF JobStep, JobFails, JobOnly, tables, Answered, CallFails, RecordResponse,
                  InsertEnrichments, CompleteFound, FailOthers, CatchRaw, CatchPersons,
                  ThenFails, CatchFails
    <2>3. Len(jobs') = Len(jobs)
      <3>1. \A point : Advance(j, point) => Len(jobs') = Len(jobs)
        BY <1>0 DEF Advance, TypeOK
      <3>2. Answered(j) => Len(jobs') = Len(jobs)
        BY <1>0 DEF Answered, TypeOK
      <3>3. QED
        BY <1>6, <3>1, <3>2 DEF JobStep, JobFails, CallFails, RecordResponse,
           InsertEnrichments, CompleteFound, FailOthers, CatchRaw, CatchPersons, ThenFails,
           CatchFails
    <2>4. Grows
      BY <1>0, <2>2, <2>3 DEF Grows
    <2>5. QED BY <1>1, <2>1, <2>2, <2>4
  <1>7. ASSUME NEW j \in 1..Len(jobs), JobStep(j) \/ JobFails(j), Die PROVE TypeInv'
    <2>1. TypeOK'
      BY <1>7, JobTypeOK
    <2>2. QED BY <1>5, <1>7, <2>1 DEF TypeOK
  <1>8. ASSUME AdminEdit PROVE TypeInv'
    <2>1. TypeOK'
      BY <1>0, <1>8, EditTypeOK
    <2>2. UNCHANGED <<uploads, jobs, pc, call, loc>>
      BY <1>8 DEF AdminEdit, EditOnly, CreatePerson, SetStatus, Rekey, DeletePerson,
                  AssignCompany, DeleteCompany
    <2>3. Grows
      BY <1>0, <2>2 DEF Grows
    <2>4. QED BY <1>1, <2>1, <2>2, <2>3
  <1>9. ASSUME UNCHANGED vars PROVE TypeInv'
    <2>1. TypeOK' /\ Grows /\ \A q \in Req : Still(q)
      BY <1>0, <1>9 DEF vars, tables, TypeOK, Grows
    <2>2. QED BY <1>1, <2>1
  <1>10. CASE Crash
    BY <1>0, <1>5, <1>10 DEF Crash, TypeOK
  <1>11. QED BY <1>2, <1>3, <1>4, <1>6, <1>7, <1>8, <1>9, <1>10 DEF Next, Quiet

LEMMA InitTypeInv == Init => TypeInv
  BY InitTypeOK DEF Init, TypeInv, ControlOK, RequestControl, Idle, Points, CreatePoints

LEMMA SpecTypeInv == Spec => []TypeInv
  BY InitTypeInv, StepTypeInv, PTL DEF Spec

\* Every variable keeps its type: no handler reads an upload that does not exist
\* or a local it has not set, however the requests, jobs and failures interleave.
THEOREM TypeCorrect == Spec => []TypeOK
  BY SpecTypeInv, PTL DEF TypeInv
-----------------------------------------------------------------------------
(* Saving.                                                                    *)

RowsOf(u) == Content[uploads[u].file]

\* The unique index.
KeysUnique ==
    \A p, q \in 1..Len(persons) :
        persons[p].key = persons[q].key /\ persons[p].company = persons[q].company => p = q

\* A person of an upload is one of its rows.
RowsMatch ==
    \A p \in 1..Len(persons) :
        LET u == persons[p].upload
        IN u # 0 => /\ u \in 1..Len(uploads)
                    /\ persons[p].row \in 1..Len(RowsOf(u))
                    /\ persons[p].key = RowsOf(u)[persons[p].row]
                    /\ persons[p].company = uploads[u].company

\* One person of an upload means all of them.
AllOrNone ==
    \A u \in 1..Len(uploads) : PersonsOf(u) # {} =>
        \A i \in 1..Len(RowsOf(u)) : \E p \in PersonsOf(u) : persons[p].row = i

\* A mark, made or about to be made, comes after the rows.
MarksFollow ==
    /\ \A u \in 1..Len(uploads) : uploads[u].isSaved => PersonsOf(u) # {}
    /\ \A r \in Req : pc[r] = "saveMark" => PersonsOf(Target(r)) # {}

\* No upload, made or about to be made, has an empty file.
FilesHaveRows ==
    /\ \A u \in 1..Len(uploads) : RowsOf(u) # << >>
    /\ \A r \in Req : pc[r] \in CreatePoints \ {"createParse"} => Content[call[r].file] # << >>

SaveInv == TypeInv /\ KeysUnique /\ RowsMatch /\ AllOrNone /\ MarksFollow /\ FilesHaveRows
-----------------------------------------------------------------------------
(* What one step can do to the rows of the two tables.                        *)

PersonRowsKept ==
    /\ Len(persons) <= Len(persons')
    /\ \A p \in 1..Len(persons) :
          /\ persons'[p].key = persons[p].key /\ persons'[p].company = persons[p].company
          /\ persons'[p].upload = persons[p].upload /\ persons'[p].row = persons[p].row

UploadRowsKept ==
    /\ Len(uploads) <= Len(uploads')
    /\ \A u \in 1..Len(uploads) : /\ uploads'[u].file = uploads[u].file
                                  /\ uploads'[u].company = uploads[u].company

LEMMA UpdateKeepsPersons ==
    ASSUME TypeOK, NEW where, NEW v, NEW col \in {"status", "deleted"},
           persons' = UpdateMany(persons, where, col, v)
    PROVE  PersonRowsKept /\ Len(persons') = Len(persons)
  <1>1. persons \in Seq(PersonRow)
    BY DEF TypeOK
  <1>2. Len(persons') = Len(persons) /\ Len(persons) \in Nat
    BY <1>1 DEF UpdateMany
  <1>3. ASSUME NEW p \in 1..Len(persons)
        PROVE  /\ persons'[p].key = persons[p].key /\ persons'[p].company = persons[p].company
               /\ persons'[p].upload = persons[p].upload /\ persons'[p].row = persons[p].row
    <2>1. persons[p] \in PersonRow
      BY <1>1
    <2>2. persons'[p] \in {persons[p], [persons[p] EXCEPT ![col] = v]}
      BY DEF UpdateMany
    <2>3. QED BY <2>1, <2>2 DEF PersonRow
  <1>4. QED BY <1>2, <1>3 DEF PersonRowsKept

LEMMA UpdateKeepsUploads ==
    ASSUME TypeOK, NEW where, NEW v, NEW col \in {"isSaved", "deleted"},
           uploads' = UpdateMany(uploads, where, col, v)
    PROVE  UploadRowsKept /\ Len(uploads') = Len(uploads)
  <1>1. uploads \in Seq(UploadRow)
    BY DEF TypeOK
  <1>2. Len(uploads') = Len(uploads) /\ Len(uploads) \in Nat
    BY <1>1 DEF UpdateMany
  <1>3. ASSUME NEW u \in 1..Len(uploads)
        PROVE  uploads'[u].file = uploads[u].file /\ uploads'[u].company = uploads[u].company
    <2>1. uploads[u] \in UploadRow
      BY <1>1
    <2>2. uploads'[u] \in {uploads[u], [uploads[u] EXCEPT ![col] = v]}
      BY DEF UpdateMany
    <2>3. QED BY <2>1, <2>2 DEF UploadRow
  <1>4. QED BY <1>2, <1>3 DEF UploadRowsKept

InsertsPersons(r) ==
    /\ SaveInsert(r) /\ Insertable(Target(r))
    /\ persons' = CreateMany(persons, NewPersons(Target(r)))

\* The persons a save adds: the old ones stay, and row i of the file is person
\* Len(persons) + i.
LEMMA InsertedRows ==
    ASSUME TypeInv, NEW r \in Req, InsertsPersons(r)
    PROVE  /\ Target(r) \in 1..Len(uploads) /\ UNCHANGED uploads
           /\ RowsOf(Target(r)) \in Seq(Keys)
           /\ Len(persons') = Len(persons) + Len(RowsOf(Target(r)))
           /\ \A p \in 1..Len(persons) : persons'[p] = persons[p]
           /\ \A i \in 1..Len(RowsOf(Target(r))) :
                 /\ persons'[Len(persons) + i].key = RowsOf(Target(r))[i]
                 /\ persons'[Len(persons) + i].company = uploads[Target(r)].company
                 /\ persons'[Len(persons) + i].upload = Target(r)
                 /\ persons'[Len(persons) + i].row = i
  <1>1. /\ TypeOK /\ persons \in Seq(PersonRow)
        /\ Target(r) \in 1..Len(uploads) /\ UNCHANGED uploads
    BY DEF InsertsPersons, SaveInsert, TypeInv, TypeOK, ControlOK, RequestControl, Points,
           CreatePoints, FindPoints
  <1>2. PICK u \in 1..Len(uploads) : u = Target(r)
    BY <1>1
  <1>3. PICK rows : rows = NewPersons(u)
    OBVIOUS
  <1>4. rows \in Seq(PersonRow) /\ Len(rows) = Len(RowsOf(u))
    BY <1>1, <1>3, NewPersonsType DEF RowsOf
  <1>5. RowsOf(u) \in Seq(Keys)
    <2>1. uploads[u] \in UploadRow
      BY <1>1 DEF TypeOK
    <2>2. QED BY <2>1, ConstantsAssumption DEF UploadRow, RowsOf
  <1>6. /\ Len(persons') = Len(persons) + Len(rows)
        /\ \A p \in 1..Len(persons) : persons'[p] = persons[p]
        /\ \A i \in 1..Len(rows) : persons'[Len(persons) + i] = rows[i]
    <2>1. persons' = CreateMany(persons, rows)
      BY <1>2, <1>3 DEF InsertsPersons
    <2>2. /\ Len(CreateMany(persons, rows)) = Len(persons) + Len(rows)
          /\ \A p \in 1..Len(persons) : CreateMany(persons, rows)[p] = persons[p]
          /\ \A i \in 1..Len(rows) : CreateMany(persons, rows)[Len(persons) + i] = rows[i]
      <3>1. persons \in Seq(PersonRow) /\ rows \in Seq(PersonRow)
        BY <1>1, <1>4
      <3>2. QED BY <3>1, ConcatProperties DEF CreateMany
    <2>3. QED BY <2>1, <2>2
  <1>7. \A i \in 1..Len(RowsOf(u)) :
           /\ rows[i].key = RowsOf(u)[i] /\ rows[i].company = uploads[u].company
           /\ rows[i].upload = u /\ rows[i].row = i
    BY <1>3 DEF NewPersons, RowsOf
  <1>8. QED BY <1>1, <1>2, <1>4, <1>5, <1>6, <1>7

LEMMA PersonsStep ==
    ASSUME TypeInv, [Next]_vars, "rekey" \notin Edits
    PROVE  /\ PersonRowsKept
           /\ \/ Len(persons') = Len(persons)
              \/ \E r \in Req : InsertsPersons(r)
              \/ CreatePerson
  <1>0. TypeOK /\ persons \in Seq(PersonRow) /\ Len(persons) \in Nat
    BY DEF TypeInv, TypeOK
  <1> DEFINE Goal == /\ PersonRowsKept
                     /\ \/ Len(persons') = Len(persons)
                        \/ \E r \in Req : InsertsPersons(r)
                        \/ CreatePerson
  <1>1. CASE UNCHANGED persons
    BY <1>0, <1>1 DEF PersonRowsKept
  <1>2. ASSUME NEW r \in Req, SaveInsert(r) PROVE Goal
    <2>1. CASE UNCHANGED persons
      BY <1>1, <2>1
    <2>2. CASE InsertsPersons(r)
      <3>1. /\ Len(persons') = Len(persons) + Len(RowsOf(Target(r)))
            /\ Len(RowsOf(Target(r))) \in Nat
            /\ \A p \in 1..Len(persons) : persons'[p] = persons[p]
        BY <2>2, InsertedRows
      <3>2. PersonRowsKept
        BY <1>0, <3>1 DEF PersonRowsKept
      <3>3. QED BY <2>2, <3>2
    <2>3. QED BY <1>2, <2>1, <2>2 DEF SaveInsert, InsertsPersons
  <1>3. ASSUME NEW where, NEW v, NEW col \in {"status", "deleted"},
               persons' = UpdateMany(persons, where, col, v)
        PROVE  Goal
    BY <1>0, <1>3, UpdateKeepsPersons
  <1>4. CASE CreatePerson
    <2>1. PICK key \in Keys, c \in Companies, status \in Statuses :
             persons' = CreateMany(persons,
                << [key |-> key, company |-> c, upload |-> 0, row |-> 0,
                    status |-> status, deleted |-> FALSE] >>)
      BY <1>4 DEF CreatePerson
    <2>2. PersonRowsKept
      BY <1>0, <2>1 DEF CreateMany, PersonRowsKept
    <2>3. QED BY <1>4, <2>2
  <1>5. CASE SetStatus \/ DeletePerson
    BY <1>3, <1>5 DEF SetStatus, DeletePerson, DeleteMany
  <1>6. ASSUME NEW r \in Req, EnrichMark(r) PROVE Goal
    BY <1>3, <1>6 DEF EnrichMark
  <1>7. ASSUME NEW j \in 1..Len(jobs), CompleteFound(j) \/ FailOthers(j) \/ CatchPersons(j)
        PROVE  Goal
    BY <1>3, <1>7 DEF CompleteFound, FailOthers, CatchPersons
  <1>8. ASSUME NEW r \in Req, Arrive(r) \/ Handle(r) \/ RequestFails(r) PROVE Goal
    BY <1>1, <1>2, <1>6, <1>8
       DEF Handle, CreateSteps, DeleteSteps, SaveSteps, EnrichSteps, Arrive, RequestFails,
           CreateParse, CreateDuplicates, CreateUser, CreateInsert, DeleteFind, DeleteUpdate,
           SaveFind, SaveParse, SaveParseMissing, SaveMark, EnrichFind, EnrichUser,
           EnrichCompany, EnrichPersons, EnrichRaw, Die, tables
  <1>9. ASSUME NEW j \in 1..Len(jobs), JobStep(j) \/ JobFails(j) PROVE Goal
    BY <1>1, <1>7, <1>9
       DEF JobStep, JobFails, Answered, CallFails, RecordResponse, InsertEnrichments, CatchRaw,
           ThenFails, CatchFails, Die, tables
  <1>10. CASE AdminEdit
    BY <1>1, <1>4, <1>5, <1>10 DEF AdminEdit, Rekey, Edit, AssignCompany, DeleteCompany
  <1>11. CASE Crash \/ UNCHANGED vars
    BY <1>1, <1>11 DEF Crash, Die, tables, vars
  <1>12. QED BY <1>8, <1>9, <1>10, <1>11 DEF Next, Quiet

LEMMA UploadsStep ==
    ASSUME TypeInv, [Next]_vars
    PROVE  /\ UploadRowsKept
           /\ Len(uploads') = Len(uploads) \/ \E r \in Req : CreateInsert(r)
           /\ \A u \in 1..Len(uploads) :
                 uploads'[u].isSaved =>
                    uploads[u].isSaved \/ \E r \in Req : SaveMark(r) /\ Target(r) = u
  <1>0. TypeOK /\ uploads \in Seq(UploadRow) /\ Len(uploads) \in Nat
    BY DEF TypeInv, TypeOK
  <1> DEFINE Goal ==
           /\ UploadRowsKept
           /\ Len(uploads') = Len(uploads) \/ \E r \in Req : CreateInsert(r)
           /\ \A u \in 1..Len(uploads) :
                 uploads'[u].isSaved =>
                    uploads[u].isSaved \/ \E r \in Req : SaveMark(r) /\ Target(r) = u
  <1>1. CASE UNCHANGED uploads
    BY <1>0, <1>1 DEF UploadRowsKept
  <1>2. ASSUME NEW r \in Req, CreateInsert(r) PROVE Goal
    <2>1. /\ Len(uploads) <= Len(uploads')
          /\ \A u \in 1..Len(uploads) : uploads'[u] = uploads[u]
      BY <1>0, <1>2 DEF CreateInsert, CreateMany
    <2>2. QED BY <1>0, <1>2, <2>1 DEF UploadRowsKept
  <1>3. ASSUME NEW r \in Req, DeleteUpdate(r) PROVE Goal
    <2>1. uploads' = UpdateMany(uploads, {Target(r)}, "deleted", TRUE)
      BY <1>3 DEF DeleteUpdate, DeleteMany
    <2>2. UploadRowsKept /\ Len(uploads') = Len(uploads)
      BY <1>0, <2>1, UpdateKeepsUploads
    <2>3. ASSUME NEW u \in 1..Len(uploads) PROVE uploads'[u].isSaved = uploads[u].isSaved
      <3>1. uploads[u] \in UploadRow
        BY <1>0
      <3>2. uploads'[u] \in {uploads[u], [uploads[u] EXCEPT !.deleted = TRUE]}
        BY <2>1 DEF UpdateMany
      <3>3. QED BY <3>1, <3>2 DEF UploadRow
    <2>4. QED BY <2>2, <2>3
  <1>4. ASSUME NEW r \in Req, SaveMark(r) PROVE Goal
    <2>1. uploads' = UpdateMany(uploads, {Target(r)}, "isSaved", TRUE)
      BY <1>4 DEF SaveMark
    <2>2. UploadRowsKept /\ Len(uploads') = Len(uploads)
      BY <1>0, <2>1, UpdateKeepsUploads
    <2>3. \A u \in 1..Len(uploads) : u # Target(r) => uploads'[u] = uploads[u]
      BY <2>1 DEF UpdateMany
    <2>4. QED BY <1>4, <2>2, <2>3
  <1>5. ASSUME NEW r \in Req, Arrive(r) \/ Handle(r) \/ RequestFails(r) PROVE Goal
    BY <1>1, <1>2, <1>3, <1>4, <1>5
       DEF Handle, CreateSteps, DeleteSteps, SaveSteps, EnrichSteps, Arrive, RequestFails,
           CreateParse, CreateDuplicates, CreateUser, DeleteFind,
           SaveFind, SaveParse, SaveParseMissing, SaveInsert, EnrichFind, EnrichUser,
           EnrichCompany, EnrichPersons, EnrichRaw, EnrichMark, Die, tables
  <1>6. ASSUME NEW j \in 1..Len(jobs), JobStep(j) \/ JobFails(j) PROVE Goal
    BY <1>1, <1>6
       DEF JobStep, JobFails, Answered, CallFails, RecordResponse, InsertEnrichments,
           CompleteFound, FailOthers, CatchRaw, CatchPersons, ThenFails, CatchFails, Die, tables
  <1>7. CASE AdminEdit
    BY <1>1, <1>7 DEF AdminEdit, EditOnly, CreatePerson, SetStatus, Rekey, DeletePerson,
                      AssignCompany, DeleteCompany
  <1>8. CASE Crash \/ UNCHANGED vars
    BY <1>1, <1>8 DEF Crash, Die, tables, vars
  <1>9. QED BY <1>5, <1>6, <1>7, <1>8 DEF Next, Quiet
-----------------------------------------------------------------------------
(* Each part of SaveInv is kept by every step.                                *)

LEMMA KeysUniqueStep ==
    ASSUME SaveInv, [Next]_vars, "rekey" \notin Edits
    PROVE  KeysUnique'
  <1>0. /\ TypeInv /\ TypeOK /\ KeysUnique /\ Len(persons) \in Nat /\ PersonRowsKept
        /\ persons \in Seq(PersonRow)
    BY PersonsStep DEF SaveInv, TypeInv, TypeOK
  <1>1. CASE Len(persons') = Len(persons)
    BY <1>0, <1>1 DEF KeysUnique, PersonRowsKept
  <1>2. ASSUME NEW r \in Req, InsertsPersons(r) PROVE KeysUnique'
    <2> DEFINE rows == RowsOf(Target(r))
               n == Len(persons)
               company == uploads[Target(r)].company
    <2>1. /\ rows \in Seq(Keys) /\ Len(rows) \in Nat
          /\ Len(persons') = n + Len(rows)
          /\ \A p \in 1..n : persons'[p] = persons[p]
          /\ \A i \in 1..Len(rows) : /\ persons'[n + i].key = rows[i]
                                     /\ persons'[n + i].company = company
      BY <1>0, <1>2, InsertedRows
    <2>2. /\ \A i, k \in 1..Len(rows) : rows[i] = rows[k] => i = k
          /\ \A i \in 1..Len(rows), p \in 1..n :
                ~(persons[p].key = rows[i] /\ persons[p].company = company)
      BY <1>2, <2>1 DEF InsertsPersons, Insertable, KeyTaken, RowsOf, IsInjective
    <2> SUFFICES ASSUME NEW p \in 1..Len(persons'), NEW q \in 1..Len(persons'),
                        persons'[p].key = persons'[q].key,
                        persons'[p].company = persons'[q].company
                 PROVE  p = q
      BY DEF KeysUnique
    <2> HIDE DEF rows, n, company
    <2>3. \A k \in 1..Len(persons') : k \in 1..n \/ \E i \in 1..Len(rows) : k = n + i
      <3>1. n \in Nat
        BY <1>0 DEF n
      <3>2. ASSUME NEW k \in 1..Len(persons'), k \notin 1..n
            PROVE  k - n \in 1..Len(rows) /\ k = n + (k - n)
        BY <2>1, <3>1, <3>2
      <3>3. QED BY <3>2
    <2>4. CASE p \in 1..n /\ q \in 1..n
      BY <1>0, <2>1, <2>4 DEF KeysUnique, n
    <2>5. CASE p \in 1..n /\ q \notin 1..n
      BY <2>1, <2>2, <2>3, <2>5
    <2>6. CASE p \notin 1..n /\ q \in 1..n
      BY <2>1, <2>2, <2>3, <2>6
    <2>7. CASE p \notin 1..n /\ q \notin 1..n
      BY <2>1, <2>2, <2>3, <2>7
    <2>8. QED BY <2>4, <2>5, <2>6, <2>7
  <1>3. CASE CreatePerson
    <2>1. PICK key \in Keys, c \in Companies, status \in Statuses :
             /\ ~KeyTaken(key, c)
             /\ persons' = CreateMany(persons,
                   << [key |-> key, company |-> c, upload |-> 0, row |-> 0,
                       status |-> status, deleted |-> FALSE] >>)
      BY <1>3 DEF CreatePerson
    <2>2. /\ Len(persons') = Len(persons) + 1
          /\ \A p \in 1..Len(persons) : persons'[p] = persons[p]
          /\ persons'[Len(persons) + 1].key = key
          /\ persons'[Len(persons) + 1].company = c
      BY <1>0, <2>1 DEF CreateMany
    <2> SUFFICES ASSUME NEW p \in 1..Len(persons'), NEW q \in 1..Len(persons'),
                        persons'[p].key = persons'[q].key,
                        persons'[p].company = persons'[q].company
                 PROVE  p = q
      BY DEF KeysUnique
    <2>3. \A k \in 1..Len(persons') : k \in 1..Len(persons) \/ k = Len(persons) + 1
      BY <1>0, <2>2
    <2>4. \A k \in 1..Len(persons) : ~(persons'[k].key = key /\ persons'[k].company = c)
      BY <2>1, <2>2 DEF KeyTaken
    <2>5. CASE p \in 1..Len(persons) /\ q \in 1..Len(persons)
      BY <1>0, <2>2, <2>5 DEF KeysUnique
    <2>6. QED BY <2>2, <2>3, <2>4, <2>5
  <1>4. QED BY <1>1, <1>2, <1>3, PersonsStep, <1>0

\* A row of a file is the same row after a step.
LEMMA RowsOfKept ==
    ASSUME TypeInv, [Next]_vars, NEW u \in 1..Len(uploads)
    PROVE  /\ u \in 1..Len(uploads') /\ uploads'[u].file = uploads[u].file
           /\ uploads'[u].company = uploads[u].company
  <1>1. UploadRowsKept /\ Len(uploads) \in Nat
    BY UploadsStep DEF TypeInv, TypeOK
  <1>2. Len(uploads') \in Nat
    BY StepTypeInv DEF TypeInv, TypeOK
  <1>3. QED BY <1>1, <1>2 DEF UploadRowsKept

LEMMA RowsMatchStep ==
    ASSUME SaveInv, [Next]_vars, "rekey" \notin Edits
    PROVE  RowsMatch'
  <1>0. /\ TypeInv /\ RowsMatch /\ Len(persons) \in Nat /\ PersonRowsKept
        /\ persons \in Seq(PersonRow)
    BY PersonsStep DEF SaveInv, TypeInv, TypeOK
  <1> DEFINE Match(p) ==
        LET u == persons[p].upload
        IN u # 0 => /\ u \in 1..Len(uploads)
                    /\ persons[p].row \in 1..Len(RowsOf(u))
                    /\ persons[p].key = RowsOf(u)[persons[p].row]
                    /\ persons[p].company = uploads[u].company
  <1>1. ASSUME NEW p \in 1..Len(persons) PROVE Match(p)'
    <2>1. Match(p)
      BY <1>0 DEF RowsMatch
    <2>2. /\ persons'[p].key = persons[p].key /\ persons'[p].company = persons[p].company
          /\ persons'[p].upload = persons[p].upload /\ persons'[p].row = persons[p].row
      BY <1>0 DEF PersonRowsKept
    <2>3. CASE persons[p].upload = 0
      BY <2>2, <2>3
    <2>4. CASE persons[p].upload # 0
      <3>1. PICK u \in 1..Len(uploads) : u = persons[p].upload
        BY <2>1, <2>4
      <3>2. /\ u \in 1..Len(uploads') /\ uploads'[u].file = uploads[u].file
            /\ uploads'[u].company = uploads[u].company
        BY <1>0, RowsOfKept
      <3>3. QED BY <2>1, <2>2, <2>4, <3>1, <3>2 DEF RowsOf
    <2>5. QED BY <2>3, <2>4
  <1>2. CASE Len(persons') = Len(persons)
    BY <1>1, <1>2 DEF RowsMatch
  <1>3. ASSUME NEW r \in Req, InsertsPersons(r) PROVE RowsMatch'
    <2> DEFINE rows == RowsOf(Target(r))
               n == Len(persons)
    <2>1. /\ Target(r) \in 1..Len(uploads) /\ UNCHANGED uploads
          /\ Len(rows) \in Nat /\ Len(persons') = n + Len(rows)
          /\ \A i \in 1..Len(rows) : /\ persons'[n + i].key = rows[i]
                                     /\ persons'[n + i].company = uploads[Target(r)].company
                                     /\ persons'[n + i].upload = Target(r)
                                     /\ persons'[n + i].row = i
      BY <1>0, <1>3, InsertedRows
    <2>2. ASSUME NEW i \in 1..Len(rows), NEW p, p = n + i PROVE Match(p)'
      BY <2>1, <2>2 DEF RowsOf
    <2>3. ASSUME NEW p \in 1..Len(persons'), p \notin 1..n
          PROVE  p - n \in 1..Len(rows) /\ p = n + (p - n)
      BY <1>0, <2>1, <2>3
    <2>4. ASSUME NEW p \in 1..Len(persons') PROVE Match(p)'
      <3>1. CASE p \in 1..n
        BY <1>1, <3>1
      <3>2. CASE p \notin 1..n
        <4>1. PICK i \in 1..Len(rows) : p = n + i
          BY <2>3, <3>2
        <4>2. QED BY <2>2, <4>1
      <3>3. QED BY <3>1, <3>2
    <2>5. QED BY <2>4 DEF RowsMatch
  <1>4. CASE CreatePerson
    <2>1. PICK key \in Keys, c \in Companies, status \in Statuses :
             persons' = CreateMany(persons,
                   << [key |-> key, company |-> c, upload |-> 0, row |-> 0,
                       status |-> status, deleted |-> FALSE] >>)
      BY <1>4 DEF CreatePerson
    <2>2. Len(persons') = Len(persons) + 1 /\ persons'[Len(persons) + 1].upload = 0
      BY <1>0, <2>1 DEF CreateMany
    <2>3. ASSUME NEW p, p = Len(persons) + 1 PROVE Match(p)'
      BY <2>2, <2>3
    <2>4. ASSUME NEW p \in 1..Len(persons') PROVE Match(p)'
      <3>1. p \in 1..Len(persons) \/ p = Len(persons) + 1
        BY <1>0, <2>2
      <3>2. QED BY <1>1, <2>3, <3>1
    <2>5. QED BY <2>4 DEF RowsMatch
  <1>5. QED BY <1>0, <1>2, <1>3, <1>4, PersonsStep

\* The persons of an upload are its persons after a step.
LEMMA PersonsOfGrow ==
    ASSUME TypeInv, [Next]_vars, "rekey" \notin Edits, NEW u
    PROVE  /\ PersonsOf(u) \subseteq PersonsOf(u)'
           /\ \A p \in PersonsOf(u) : persons'[p].row = persons[p].row
  <1>1. PersonRowsKept /\ Len(persons) \in Nat
    BY PersonsStep DEF TypeInv, TypeOK
  <1>2. Len(persons') \in Nat
    BY StepTypeInv DEF TypeInv, TypeOK
  <1>3. QED BY <1>1, <1>2 DEF PersonRowsKept, PersonsOf

\* A person that is new, and of an upload, was inserted by a save of it.
LEMMA NewPersonOfSave ==
    ASSUME TypeInv, [Next]_vars, "rekey" \notin Edits, NEW u, u # 0,
           NEW p \in PersonsOf(u)', p \notin PersonsOf(u)
    PROVE  \E r \in Req : InsertsPersons(r) /\ Target(r) = u
  <1>0. /\ Len(persons) \in Nat /\ PersonRowsKept /\ persons \in Seq(PersonRow)
        /\ p \in 1..Len(persons') /\ persons'[p].upload = u
    BY PersonsStep DEF TypeInv, TypeOK, PersonsOf
  <1>1. p \notin 1..Len(persons)
    BY <1>0 DEF PersonRowsKept, PersonsOf
  <1>2. CASE Len(persons') = Len(persons)
    BY <1>0, <1>1, <1>2
  <1>3. ASSUME NEW r \in Req, InsertsPersons(r)
        PROVE  Target(r) = u
    <2>1. /\ Len(RowsOf(Target(r))) \in Nat
          /\ Len(persons') = Len(persons) + Len(RowsOf(Target(r)))
          /\ \A i \in 1..Len(RowsOf(Target(r))) : persons'[Len(persons) + i].upload = Target(r)
      <3>1. TypeInv
        OBVIOUS
      <3>2. RowsOf(Target(r)) \in Seq(Keys)
        BY <1>3, <3>1, InsertedRows
      <3>3. Len(persons') = Len(persons) + Len(RowsOf(Target(r)))
        BY <1>3, <3>1, InsertedRows
      <3>4. \A i \in 1..Len(RowsOf(Target(r))) : persons'[Len(persons) + i].upload = Target(r)
        BY <1>3, <3>1, InsertedRows
      <3>5. QED BY <3>2, <3>3, <3>4
    <2>2. p - Len(persons) \in 1..Len(RowsOf(Target(r)))
      <3>1. PICK n \in Nat : n = Len(RowsOf(Target(r)))
        BY <2>1
      <3>2. p \in 1..(Len(persons) + n)
        BY <1>0, <2>1, <3>1
      <3>3. p - Len(persons) \in 1..n
        BY <1>0, <1>1, <3>2
      <3>4. QED BY <3>1, <3>3
    <2>3. PICK i \in 1..Len(RowsOf(Target(r))) : p = Len(persons) + i
      BY <1>0, <2>2
    <2>4. QED BY <1>0, <2>1, <2>3
  <1>4. CASE CreatePerson
    <2>1. PICK key \in Keys, c \in Companies, status \in Statuses :
             persons' = CreateMany(persons,
                   << [key |-> key, company |-> c, upload |-> 0, row |-> 0,
                       status |-> status, deleted |-> FALSE] >>)
      BY <1>4 DEF CreatePerson
    <2>2. Len(persons') = Len(persons) + 1 /\ persons'[Len(persons) + 1].upload = 0
      BY <1>0, <2>1 DEF CreateMany
    <2>3. p = Len(persons) + 1
      BY <1>0, <1>1, <2>2
    <2>4. QED BY <1>0, <2>2, <2>3
  <1>5. QED BY <1>2, <1>3, <1>4, PersonsStep

LEMMA AllOrNoneStep ==
    ASSUME SaveInv, [Next]_vars, "rekey" \notin Edits
    PROVE  AllOrNone'
  <1>0. TypeInv /\ RowsMatch /\ AllOrNone
    BY DEF SaveInv
  <1> SUFFICES ASSUME NEW u \in 1..Len(uploads'), PersonsOf(u)' # {},
                      NEW i \in 1..Len(RowsOf(u)')
               PROVE  \E p \in PersonsOf(u)' : persons'[p].row = i
    BY DEF AllOrNone
  <1>1. CASE PersonsOf(u) # {}
    <2>1. u \in 1..Len(uploads)
      <3>1. Len(uploads') \in Nat
        BY <1>0, StepTypeInv DEF TypeInv, TypeOK
      <3>2. u # 0
        BY <3>1
      <3>3. QED BY <1>0, <1>1, <3>2 DEF RowsMatch, PersonsOf
    <2>2. RowsOf(u)' = RowsOf(u)
      BY <1>0, <2>1, RowsOfKept DEF RowsOf
    <2>3. PICK p \in PersonsOf(u) : persons[p].row = i
      BY <1>0, <1>1, <2>1, <2>2 DEF AllOrNone
    <2>4. p \in PersonsOf(u)' /\ persons'[p].row = i
      BY <1>0, <2>3, PersonsOfGrow
    <2>5. QED BY <2>4
  <1>2. CASE PersonsOf(u) = {}
    <2>1. u # 0
      <3>1. Len(uploads') \in Nat
        BY <1>0, StepTypeInv DEF TypeInv, TypeOK
      <3>2. QED BY <3>1
    <2>2. PICK r \in Req : InsertsPersons(r) /\ Target(r) = u
      BY <1>0, <1>2, <2>1, NewPersonOfSave
    <2>3. /\ Len(persons) \in Nat /\ Len(RowsOf(u)) \in Nat /\ UNCHANGED uploads
          /\ Len(persons') = Len(persons) + Len(RowsOf(u))
          /\ \A k \in 1..Len(RowsOf(u)) : /\ persons'[Len(persons) + k].upload = u
                                          /\ persons'[Len(persons) + k].row = k
      <3>1. Len(persons) \in Nat
        BY <1>0 DEF TypeInv, TypeOK
      <3>2. QED BY <1>0, <2>2, <3>1, InsertedRows
    <2>4. RowsOf(u)' = RowsOf(u)
      BY <2>3 DEF RowsOf
    <2>5. PICK p : p = Len(persons) + i
      OBVIOUS
    <2>6. p \in 1..Len(persons') /\ persons'[p].upload = u /\ persons'[p].row = i
      BY <2>3, <2>4, <2>5
    <2>7. p \in PersonsOf(u)'
      BY <2>6 DEF PersonsOf
    <2>8. QED BY <2>6, <2>7
  <1>3. QED BY <1>1, <1>2

\* A request comes to the mark only from an insert that went through.
LEMMA ReachesMark ==
    ASSUME TypeInv, [Next]_vars, NEW q \in Req, pc'[q] = "saveMark"
    PROVE  /\ Target(q)' = Target(q)
           /\ pc[q] = "saveMark" \/ InsertsPersons(q)
  <1>0. TypeOK
    BY DEF TypeInv
  <1> DEFINE Goal == /\ Target(q)' = Target(q)
                     /\ pc[q] = "saveMark" \/ InsertsPersons(q)
  <1>1. CASE pc'[q] = pc[q] /\ call'[q] = call[q]
    BY <1>1 DEF Target
  <1>2. CASE Die
    BY <1>0, <1>2 DEF Die, TypeOK, Points
  <1>3. ASSUME NEW r \in Req, Arrive(r) PROVE Goal
    <2>1. PICK c \in Calls, point \in FindPoints \cup {"createParse"} :
             call' = [call EXCEPT ![r] = c] /\ Goto(r, point)
      BY <1>3, ConstantsAssumption DEF Arrive, FindPoints, CreateCall, UploadCall
    <2>2. q # r
      BY <1>0, <2>1 DEF Goto, TypeOK, FindPoints
    <2>3. QED BY <1>0, <1>1, <2>1, <2>2 DEF Goto, TypeOK
  <1>4. ASSUME NEW r \in Req, SaveInsert(r) PROVE Goal
    <2>1. CASE q = r
      <3>1. Insertable(Target(r))
        BY <1>0, <1>4, <2>1 DEF SaveInsert, Reject, Goto, TypeOK
      <3>2. QED BY <1>4, <2>1, <3>1 DEF SaveInsert, InsertsPersons, RequestOnly, Target
    <2>2. CASE q # r
      BY <1>0, <1>1, <1>4, <2>2 DEF SaveInsert, Reject, Goto, RequestOnly, TypeOK
    <2>3. QED BY <2>1, <2>2
  <1>5. ASSUME NEW r \in Req, Handle(r) \/ RequestFails(r), ~Die, ~SaveInsert(r) PROVE Goal
    <2>1. call' = call
      BY <1>5
         DEF Handle, CreateSteps, DeleteSteps, SaveSteps, EnrichSteps, CreateParse,
             CreateDuplicates, CreateUser, CreateInsert, DeleteFind, DeleteUpdate, SaveFind,
             SaveParse, SaveParseMissing, SaveMark, EnrichFind, EnrichUser, EnrichCompany,
             EnrichPersons, EnrichRaw, EnrichMark, RequestFails, RequestOnly
    <2>2. CASE q # r
      <3>1. pc'[q] = pc[q]
        BY <1>0, <1>5, <2>2
           DEF Handle, CreateSteps, DeleteSteps, SaveSteps, EnrichSteps, CreateParse,
               CreateDuplicates, CreateUser, CreateInsert, DeleteFind, DeleteUpdate, SaveFind,
               SaveParse, SaveParseMissing, SaveMark, EnrichFind, EnrichUser, EnrichCompany,
               EnrichPersons, EnrichRaw, EnrichMark, RequestFails, Reject, Finish, Goto,
               TypeOK
      <3>2. QED BY <1>1, <2>1, <3>1
    <2>3. pc'[r] # "saveMark"
      BY <1>0, <1>5
         DEF Handle, CreateSteps, DeleteSteps, SaveSteps, EnrichSteps, CreateParse,
             CreateDuplicates, CreateUser, CreateInsert, DeleteFind, DeleteUpdate, SaveFind,
             SaveParse, SaveParseMissing, SaveMark, EnrichFind, EnrichUser, EnrichCompany,
             EnrichPersons, EnrichRaw, EnrichMark, RequestFails, Reject, Finish, Goto,
             TypeOK
    <2>4. QED BY <2>2, <2>3
  <1>6. ASSUME NEW j \in 1..Len(jobs), JobStep(j) \/ JobFails(j), ~Die PROVE Goal
    BY <1>1, <1>6 DEF JobStep, JobFails, JobOnly, Answered, CallFails, RecordResponse,
                      InsertEnrichments, CompleteFound, FailOthers, CatchRaw, CatchPersons,
                      ThenFails, CatchFails
  <1>7. CASE AdminEdit
    BY <1>1, <1>7 DEF AdminEdit, EditOnly, CreatePerson, SetStatus, Rekey, DeletePerson,
                      AssignCompany, DeleteCompany
  <1>8. CASE UNCHANGED vars
    BY <1>1, <1>8 DEF vars
  <1>9. QED BY <1>2, <1>3, <1>4, <1>5, <1>6, <1>7, <1>8 DEF Next, Quiet, Crash

LEMMA MarksFollowStep ==
    ASSUME SaveInv, [Next]_vars, "rekey" \notin Edits
    PROVE  MarksFollow'
  <1>0. TypeInv /\ TypeOK /\ MarksFollow /\ FilesHaveRows
    BY DEF SaveInv, TypeInv
  <1>1. ASSUME NEW u \in 1..Len(uploads'), uploads'[u].isSaved
        PROVE  PersonsOf(u)' # {}
    <2>1. CASE u \in 1..Len(uploads)
      <3>1. PersonsOf(u) # {}
        BY <1>0, <1>1, <2>1, UploadsStep DEF MarksFollow, SaveMark
      <3>2. QED BY <1>0, <3>1, PersonsOfGrow
    <2>2. CASE u \notin 1..Len(uploads)
      <3>1. /\ uploads \in Seq(UploadRow) /\ Len(uploads) \in Nat
            /\ Len(uploads') # Len(uploads)
        BY <1>0, <2>2 DEF TypeOK
      <3>2. PICK r \in Req : CreateInsert(r)
        BY <1>0, <3>1, UploadsStep
      <3>3. /\ Len(uploads') = Len(uploads) + 1
            /\ uploads'[Len(uploads) + 1].isSaved = FALSE
        BY <3>1, <3>2 DEF CreateInsert, CreateMany
      <3>4. u = Len(uploads) + 1
        BY <2>2, <3>1, <3>3
      <3>5. QED BY <1>1, <3>3, <3>4
    <2>3. QED BY <2>1, <2>2
  <1>2. ASSUME NEW r \in Req, pc'[r] = "saveMark"
        PROVE  PersonsOf(Target(r))' # {}
    <2>1. Target(r)' = Target(r)
      BY <1>0, <1>2, ReachesMark
    <2>2. PICK u : u = Target(r)
      OBVIOUS
    <2>3. CASE pc[r] = "saveMark"
      <3>1. PersonsOf(u) # {}
        BY <1>0, <2>2, <2>3 DEF MarksFollow
      <3>2. PersonsOf(u)' # {}
        BY <1>0, <3>1, PersonsOfGrow
      <3>3. QED BY <2>1, <2>2, <3>2 DEF PersonsOf
    <2>4. CASE InsertsPersons(r)
      <3>1. /\ Len(persons) \in Nat /\ u \in 1..Len(uploads) /\ RowsOf(u) \in Seq(Keys)
            /\ Len(persons') = Len(persons) + Len(RowsOf(u))
            /\ \A k \in 1..Len(RowsOf(u)) : persons'[Len(persons) + k].upload = u
        <4>1. Len(persons) \in Nat
          BY <1>0 DEF TypeOK
        <4>2. QED BY <1>0, <2>2, <2>4, <4>1, InsertedRows
      <3>2. Len(RowsOf(u)) \in Nat \ {0}
        BY <1>0, <3>1 DEF FilesHaveRows
      <3>3. PICK p : p = Len(persons) + 1
        OBVIOUS
      <3>4. p \in 1..Len(persons') /\ persons'[p].upload = u
        BY <3>1, <3>2, <3>3
      <3>5. PersonsOf(u)' # {}
        BY <3>4 DEF PersonsOf
      <3>6. QED BY <2>1, <2>2, <3>5 DEF PersonsOf
    <2>5. QED BY <1>0, <1>2, <2>3, <2>4, ReachesMark
  <1>3. QED BY <1>1, <1>2 DEF MarksFollow

\* A request gets past the parse of createExecutiveUpload only with rows.
LEMMA ReachesCreate ==
    ASSUME TypeInv, [Next]_vars, NEW q \in Req, pc'[q] \in CreatePoints \ {"createParse"}
    PROVE  /\ call'[q] = call[q]
           /\ \/ pc[q] \in CreatePoints \ {"createParse"}
              \/ Content[call[q].file] # << >>
  <1>0. TypeOK
    BY DEF TypeInv
  <1> DEFINE Goal == /\ call'[q] = call[q]
                     /\ \/ pc[q] \in CreatePoints \ {"createParse"}
                        \/ Content[call[q].file] # << >>
  <1>1. CASE pc'[q] = pc[q] /\ call'[q] = call[q]
    BY <1>1
  <1>2. CASE Die
    BY <1>0, <1>2 DEF Die, TypeOK, Points, CreatePoints
  <1>3. ASSUME NEW r \in Req, Arrive(r) PROVE Goal
    <2>1. PICK c \in Calls, point \in FindPoints \cup {"createParse"} :
             call' = [call EXCEPT ![r] = c] /\ Goto(r, point)
      BY <1>3, ConstantsAssumption DEF Arrive, FindPoints, CreateCall, UploadCall
    <2>2. q # r
      BY <1>0, <2>1 DEF Goto, TypeOK, FindPoints, CreatePoints
    <2>3. QED BY <1>0, <1>1, <2>1, <2>2 DEF Goto, TypeOK
  <1>4. ASSUME NEW r \in Req, Handle(r) \/ RequestFails(r), ~Die PROVE Goal
    <2>1. call' = call
      BY <1>4
         DEF Handle, CreateSteps, DeleteSteps, SaveSteps, EnrichSteps, CreateParse,
             CreateDuplicates, CreateUser, CreateInsert, DeleteFind, DeleteUpdate, SaveFind,
             SaveParse, SaveParseMissing, SaveInsert, SaveMark, EnrichFind, EnrichUser,
             EnrichCompany, EnrichPersons, EnrichRaw, EnrichMark, RequestFails, RequestOnly
    <2>2. CASE q # r
      <3>1. pc'[q] = pc[q]
        BY <1>0, <1>4, <2>2
           DEF Handle, CreateSteps, DeleteSteps, SaveSteps, EnrichSteps, CreateParse,
               CreateDuplicates, CreateUser, CreateInsert, DeleteFind, DeleteUpdate, SaveFind,
               SaveParse, SaveParseMissing, SaveInsert, SaveMark, EnrichFind, EnrichUser,
               EnrichCompany, EnrichPersons, EnrichRaw, EnrichMark, RequestFails, Reject,
               Finish, Goto, TypeOK
      <3>2. QED BY <1>1, <2>1, <3>1
    <2>3. CASE q = r /\ CreateSteps(r)
      <3>1. CASE CreateParse(r)
        <4>1. ~Reject(r)
          BY <1>0, <2>3 DEF Reject, Goto, TypeOK, CreatePoints
        <4>2. QED BY <2>1, <2>3, <3>1, <4>1 DEF CreateParse
      <3>2. CASE ~CreateParse(r)
        BY <2>1, <2>3, <3>2
           DEF CreateSteps, CreateDuplicates, CreateUser, CreateInsert, CreatePoints
      <3>3. QED BY <3>1, <3>2
    <2>4. CASE q = r /\ ~CreateSteps(r)
      <3>1. pc'[r] \notin CreatePoints
        BY <1>0, <1>4, <2>4
           DEF Handle, DeleteSteps, SaveSteps, EnrichSteps, DeleteFind, DeleteUpdate,
               SaveFind, SaveParse, SaveParseMissing, SaveInsert, SaveMark, EnrichFind,
               EnrichUser, EnrichCompany, EnrichPersons, EnrichRaw, EnrichMark,
               RequestFails, Reject, Finish, Goto, TypeOK, CreatePoints
      <3>2. QED BY <2>4, <3>1
    <2>5. QED BY <2>2, <2>3, <2>4
  <1>5. ASSUME NEW j \in 1..Len(jobs), JobStep(j) \/ JobFails(j), ~Die PROVE Goal
    BY <1>1, <1>5 DEF JobStep, JobFails, JobOnly, Answered, CallFails, RecordResponse,
                      InsertEnrichments, CompleteFound, FailOthers, CatchRaw, CatchPersons,
                      ThenFails, CatchFails
  <1>6. CASE AdminEdit
    BY <1>1, <1>6 DEF AdminEdit, EditOnly, CreatePerson, SetStatus, Rekey, DeletePerson,
                      AssignCompany, DeleteCompany
  <1>7. CASE UNCHANGED vars
    BY <1>1, <1>7 DEF vars
  <1>8. QED BY <1>2, <1>3, <1>4, <1>5, <1>6, <1>7 DEF Next, Quiet, Crash

LEMMA FilesHaveRowsStep ==
    ASSUME SaveInv, [Next]_vars
    PROVE  FilesHaveRows'
  <1>0. TypeInv /\ TypeOK /\ FilesHaveRows
    BY DEF SaveInv, TypeInv
  <1>1. ASSUME NEW u \in 1..Len(uploads')
        PROVE  RowsOf(u)' # << >>
    <2>1. CASE u \in 1..Len(uploads)
      BY <1>0, <2>1, RowsOfKept DEF FilesHaveRows, RowsOf
    <2>2. CASE u \notin 1..Len(uploads)
      <3>1. /\ uploads \in Seq(UploadRow) /\ Len(uploads) \in Nat
            /\ Len(uploads') # Len(uploads)
        BY <1>0, <2>2 DEF TypeOK
      <3>2. PICK r \in Req : CreateInsert(r)
        BY <1>0, <3>1, UploadsStep
      <3>3. /\ Len(uploads') = Len(uploads) + 1
            /\ uploads'[Len(uploads) + 1].file = call[r].file
        BY <3>1, <3>2 DEF CreateInsert, CreateMany
      <3>4. u = Len(uploads) + 1
        BY <2>2, <3>1, <3>3
      <3>5. Content[call[r].file] # << >>
        BY <1>0, <3>2 DEF CreateInsert, FilesHaveRows, CreatePoints
      <3>6. QED BY <3>3, <3>4, <3>5 DEF RowsOf
    <2>3. QED BY <2>1, <2>2
  <1>2. ASSUME NEW r \in Req, pc'[r] \in CreatePoints \ {"createParse"}
        PROVE  Content[call'[r].file] # << >>
    BY <1>0, <1>2, ReachesCreate DEF FilesHaveRows
  <1>3. QED BY <1>1, <1>2 DEF FilesHaveRows
-----------------------------------------------------------------------------
LEMMA InitSaveInv == Init => SaveInv
  <1> SUFFICES ASSUME Init PROVE SaveInv
    OBVIOUS
  <1>1. TypeInv
    BY InitTypeInv
  <1>2. KeysUnique /\ RowsMatch /\ \A u : PersonsOf(u) = {}
    BY DEF Init, KeysUnique, RowsMatch, PersonsOf
  <1>3. AllOrNone
    BY <1>2 DEF AllOrNone
  <1>4. MarksFollow
    BY ConstantsAssumption DEF MarksFollow, Init, Idle
  <1>5. FilesHaveRows
    BY ConstantsAssumption DEF FilesHaveRows, RowsOf, Init, Idle, CreatePoints
  <1>6. QED BY <1>1, <1>2, <1>3, <1>4, <1>5 DEF SaveInv

LEMMA StepSaveInv ==
    ASSUME "rekey" \notin Edits
    PROVE  SaveInv /\ [Next]_vars => SaveInv'
  <1> SUFFICES ASSUME SaveInv, [Next]_vars PROVE SaveInv'
    OBVIOUS
  <1>1. TypeInv'
    BY StepTypeInv DEF SaveInv
  <1>2. KeysUnique' /\ RowsMatch' /\ AllOrNone' /\ MarksFollow' /\ FilesHaveRows'
    BY KeysUniqueStep, RowsMatchStep, AllOrNoneStep, MarksFollowStep, FilesHaveRowsStep
  <1>3. QED BY <1>1, <1>2 DEF SaveInv

LEMMA SpecSaveInv ==
    ASSUME "rekey" \notin Edits
    PROVE  Spec => []SaveInv
  <1>1. Init => SaveInv
    BY InitSaveInv
  <1>2. SaveInv /\ [Next]_vars => SaveInv'
    BY StepSaveInv
  <1>3. QED BY <1>1, <1>2, PTL DEF Spec

\* No csv row is ever inserted twice, however many requests save the upload at
\* once and however often it is retried, so long as no person is given another
\* key: the unique index does what the isSaved check does not.
THEOREM NoRowTwice ==
    ASSUME "rekey" \notin Edits
    PROVE  Spec => []RowsInsertedOnce
  <1>1. SaveInv => RowsInsertedOnce
    <2> SUFFICES ASSUME KeysUnique, RowsMatch,
                        NEW p \in 1..Len(persons), NEW q \in 1..Len(persons),
                        persons[p].upload # 0, persons[p].upload = persons[q].upload,
                        persons[p].row = persons[q].row
                 PROVE  p = q
      BY DEF SaveInv, RowsInsertedOnce
    <2>1. persons[p].key = persons[q].key /\ persons[p].company = persons[q].company
      BY DEF RowsMatch
    <2>2. QED BY <2>1 DEF KeysUnique
  <1>2. Spec => []SaveInv
    BY SpecSaveInv
  <1>3. QED BY <1>1, <1>2, PTL

\* An upload has all of its rows or none, and all of them once it is marked,
\* wherever its saves fail, crash or overlap.
THEOREM WholeUploads ==
    ASSUME "rekey" \notin Edits
    PROVE  Spec => []SavedCompletely
  <1>1. SaveInv => SavedCompletely
    <2> SUFFICES ASSUME SaveInv, NEW u \in 1..Len(uploads)
                 PROVE  LET inserted == {persons[p].row : p \in PersonsOf(u)}
                        IN /\ inserted \in {{}, 1..Len(RowsOf(u))}
                           /\ uploads[u].isSaved => inserted # {}
      BY DEF SavedCompletely, RowsOf
    <2> DEFINE inserted == {persons[p].row : p \in PersonsOf(u)}
    <2>1. u # 0
      BY DEF SaveInv, TypeInv, TypeOK
    <2>2. \A p \in PersonsOf(u) : persons[p].row \in 1..Len(RowsOf(u))
      BY <2>1 DEF SaveInv, RowsMatch, PersonsOf
    <2>3. PersonsOf(u) # {} =>
             \A i \in 1..Len(RowsOf(u)) : \E p \in PersonsOf(u) : persons[p].row = i
      BY DEF SaveInv, AllOrNone
    <2>4. inserted \in {{}, 1..Len(RowsOf(u))}
      BY <2>2, <2>3
    <2>5. uploads[u].isSaved => inserted # {}
      BY DEF SaveInv, MarksFollow
    <2>6. QED BY <2>4, <2>5
  <1>2. Spec => []SaveInv
    BY SpecSaveInv
  <1>3. QED BY <1>1, <1>2, PTL

\* An upload whose save failed between the insert and the mark stays unsaved for
\* ever: no later save of it can insert, and so none can reach the mark.
THEOREM HalfSavedForGood ==
    ASSUME "rekey" \notin Edits
    PROVE  Spec => HalfSavedIsFinal
  <1> DEFINE Stuck == \A u \in 1..Len(uploads) : HalfSaved(u) => HalfSaved(u)'
  <1>1. SaveInv /\ [Next]_vars => [Stuck]_vars
    <2> SUFFICES ASSUME SaveInv, [Next]_vars, NEW u \in 1..Len(uploads), HalfSaved(u)
                 PROVE  HalfSaved(u)'
      OBVIOUS
    <2>0. TypeInv
      BY DEF SaveInv
    <2>1. u \in 1..Len(uploads')
      BY <2>0, RowsOfKept
    <2>2. ~uploads'[u].isSaved
      BY <2>0, UploadsStep DEF HalfSaved, SaveMark
    <2>3. PersonsOf(u) # {} /\ PersonsOf(u)' # {}
      BY <2>0, PersonsOfGrow DEF HalfSaved
    <2>4. ~Insertable(u)
      <3>1. PICK p \in PersonsOf(u) : TRUE
        BY <2>3
      <3>2. u # 0
        BY <2>0 DEF TypeInv, TypeOK
      <3>3. /\ p \in 1..Len(persons) /\ persons[p].row \in 1..Len(RowsOf(u))
            /\ persons[p].key = RowsOf(u)[persons[p].row]
            /\ persons[p].company = uploads[u].company
        BY <3>1, <3>2 DEF SaveInv, RowsMatch, PersonsOf
      <3>4. KeyTaken(RowsOf(u)[persons[p].row], uploads[u].company)
        BY <3>3 DEF KeyTaken
      <3>5. QED BY <3>3, <3>4 DEF Insertable, RowsOf
    <2>5. ASSUME NEW r \in Req, pc'[r] = "saveMark" PROVE Target(r)' # u
      BY <2>0, <2>4, <2>5, ReachesMark DEF HalfSaved, InsertsPersons
    <2>6. QED BY <2>1, <2>2, <2>3, <2>5 DEF HalfSaved
  <1>2. Spec => []SaveInv
    BY SpecSaveInv
  <1>3. Spec => [][Stuck]_vars
    BY <1>1, <1>2, PTL DEF Spec
  <1>4. QED BY <1>3 DEF HalfSavedIsFinal
-----------------------------------------------------------------------------
(* Deleted rows.                                                              *)

Frozen(table, next) == \A id \in 1..Len(table) : table[id].deleted => next[id] = table[id]

LEMMA UpdateFreezes ==
    ASSUME NEW t, NEW where, NEW col, NEW v
    PROVE  Frozen(t, UpdateMany(t, where, col, v))
  BY DEF Frozen, UpdateMany, Live

LEMMA CreateFreezes ==
    ASSUME NEW S, NEW t \in Seq(S), NEW rows \in Seq(S)
    PROVE  Frozen(t, CreateMany(t, rows))
  BY CreateManyType DEF Frozen

LEMMA PersonsFrozen ==
    ASSUME TypeInv, [Next]_vars
    PROVE  Frozen(persons, persons')
  <1>0. TypeOK /\ persons \in Seq(PersonRow)
    BY DEF TypeInv, TypeOK
  <1>1. CASE UNCHANGED persons
    BY <1>1 DEF Frozen
  <1>2. ASSUME NEW where, NEW col, NEW v, persons' = UpdateMany(persons, where, col, v)
        PROVE  Frozen(persons, persons')
    BY <1>2, UpdateFreezes
  <1>3. ASSUME NEW r \in Req, SaveInsert(r) PROVE Frozen(persons, persons')
    <2>1. Target(r) \in 1..Len(uploads)
      BY <1>3 DEF SaveInsert, TypeInv, ControlOK, RequestControl, Points, CreatePoints,
                  FindPoints
    <2>2. PICK rows \in Seq(PersonRow) : rows = NewPersons(Target(r))
      BY <1>0, <2>1, NewPersonsType
    <2>3. CASE persons' = CreateMany(persons, NewPersons(Target(r)))
      <3>1. Frozen(persons, CreateMany(persons, rows))
        BY <1>0, CreateFreezes
      <3>2. QED BY <2>2, <2>3, <3>1
    <2>4. QED BY <1>1, <1>3, <2>3 DEF SaveInsert
  <1>4. CASE CreatePerson
    <2>1. PICK key \in Keys, c \in Companies, status \in Statuses :
             persons' = CreateMany(persons,
                << [key |-> key, company |-> c, upload |-> 0, row |-> 0,
                    status |-> status, deleted |-> FALSE] >>)
      BY <1>4 DEF CreatePerson
    <2>2. \A p \in 1..Len(persons) : persons'[p] = persons[p]
      BY <1>0, <2>1 DEF CreateMany
    <2>3. QED BY <2>2 DEF Frozen
  <1>5. CASE SetStatus \/ DeletePerson \/ Rekey
    <2>1. CASE SetStatus \/ DeletePerson
      BY <1>2, <2>1 DEF SetStatus, DeletePerson, DeleteMany
    <2>2. CASE Rekey
      <3>1. PICK p \in Live(persons), key \in Keys, c \in Companies :
               persons' = UpdateMany(UpdateMany(persons, {p}, "key", key), {p}, "company", c)
        BY <2>2 DEF Rekey
      <3>2. QED BY <3>1 DEF Frozen, UpdateMany, Live
    <2>3. QED BY <1>5, <2>1, <2>2
  <1>6. ASSUME NEW r \in Req, EnrichMark(r) PROVE Frozen(persons, persons')
    BY <1>2, <1>6 DEF EnrichMark
  <1>7. ASSUME NEW j \in 1..Len(jobs), CompleteFound(j) \/ FailOthers(j) \/ CatchPersons(j)
        PROVE  Frozen(persons, persons')
    BY <1>2, <1>7 DEF CompleteFound, FailOthers, CatchPersons
  <1>8. ASSUME NEW r \in Req, Arrive(r) \/ Handle(r) \/ RequestFails(r)
        PROVE  Frozen(persons, persons')
    BY <1>1, <1>3, <1>6, <1>8
       DEF Handle, CreateSteps, DeleteSteps, SaveSteps, EnrichSteps, Arrive, RequestFails,
           CreateParse, CreateDuplicates, CreateUser, CreateInsert, DeleteFind, DeleteUpdate,
           SaveFind, SaveParse, SaveParseMissing, SaveMark, EnrichFind, EnrichUser,
           EnrichCompany, EnrichPersons, EnrichRaw, Die, tables
  <1>9. ASSUME NEW j \in 1..Len(jobs), JobStep(j) \/ JobFails(j)
        PROVE  Frozen(persons, persons')
    BY <1>1, <1>7, <1>9
       DEF JobStep, JobFails, Answered, CallFails, RecordResponse, InsertEnrichments, CatchRaw,
           ThenFails, CatchFails, Die, tables
  <1>10. CASE AdminEdit
    BY <1>1, <1>4, <1>5, <1>10 DEF AdminEdit, AssignCompany, DeleteCompany
  <1>11. CASE Crash \/ UNCHANGED vars
    BY <1>1, <1>11 DEF Crash, Die, tables, vars
  <1>12. QED BY <1>8, <1>9, <1>10, <1>11 DEF Next, Quiet

LEMMA UploadsFrozen ==
    ASSUME TypeInv, [Next]_vars
    PROVE  Frozen(uploads, uploads')
  <1>0. uploads \in Seq(UploadRow)
    BY DEF TypeInv, TypeOK
  <1>1. CASE UNCHANGED uploads
    BY <1>1 DEF Frozen
  <1>2. ASSUME NEW r \in Req, CreateInsert(r) PROVE Frozen(uploads, uploads')
    <2>1. \A u \in 1..Len(uploads) : uploads'[u] = uploads[u]
      BY <1>0, <1>2 DEF CreateInsert, CreateMany
    <2>2. QED BY <2>1 DEF Frozen
  <1>3. ASSUME NEW r \in Req, DeleteUpdate(r) \/ SaveMark(r) PROVE Frozen(uploads, uploads')
    BY <1>3, UpdateFreezes DEF DeleteUpdate, DeleteMany, SaveMark
  <1>4. ASSUME NEW r \in Req, Arrive(r) \/ Handle(r) \/ RequestFails(r)
        PROVE  Frozen(uploads, uploads')
    BY <1>1, <1>2, <1>3, <1>4
       DEF Handle, CreateSteps, DeleteSteps, SaveSteps, EnrichSteps, Arrive, RequestFails,
           CreateParse, CreateDuplicates, CreateUser, DeleteFind,
           SaveFind, SaveParse, SaveParseMissing, SaveInsert, EnrichFind, EnrichUser,
           EnrichCompany, EnrichPersons, EnrichRaw, EnrichMark, Die, tables
  <1>5. ASSUME NEW j \in 1..Len(jobs), JobStep(j) \/ JobFails(j)
        PROVE  Frozen(uploads, uploads')
    BY <1>1, <1>5
       DEF JobStep, JobFails, JobOnly, Answered, CallFails, RecordResponse, InsertEnrichments,
           CompleteFound, FailOthers, CatchRaw, CatchPersons, ThenFails, CatchFails, Die, tables
  <1>6. CASE AdminEdit
    BY <1>1, <1>6 DEF AdminEdit, EditOnly, CreatePerson, SetStatus, Rekey, DeletePerson,
                      AssignCompany, DeleteCompany
  <1>7. CASE Crash \/ UNCHANGED vars
    BY <1>1, <1>7 DEF Crash, Die, tables, vars
  <1>8. QED BY <1>4, <1>5, <1>6, <1>7 DEF Next, Quiet

\* No statement of any handler, job or edit changes a deleted person or upload,
\* which is what lets the index keep a deleted person's key for ever.
THEOREM DeletedForGood == Spec => DeletedRowsAreFrozen
  <1> DEFINE Stay ==
        /\ \A p \in 1..Len(persons) : persons[p].deleted => persons'[p] = persons[p]
        /\ \A u \in 1..Len(uploads) : uploads[u].deleted => uploads'[u] = uploads[u]
  <1>1. TypeInv /\ [Next]_vars => [Stay]_vars
    BY PersonsFrozen, UploadsFrozen DEF Frozen
  <1>2. Spec => [][Stay]_vars
    BY <1>1, SpecTypeInv, PTL DEF Spec
  <1>3. QED BY <1>2 DEF DeletedRowsAreFrozen
=============================================================================
