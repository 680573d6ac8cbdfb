--------------------------- MODULE EnrichmentProofs ---------------------------
(* What enriching an upload guarantees, for any number of requests, promise   *)
(* chains, rows, failures and crashes, when no edit of the admin writes a     *)
(* status itself: "createPerson" and "setStatus" take it from the body.       *)
EXTENDS ExecutiveUploadProofs, FiniteSetTheorems

NoStatusEdits == Edits \cap {"createPerson", "setStatus"} = {}

\* A status that no step takes back to NoEnrichment.
Marked(p) == persons[p].deleted \/ persons[p].status # "NoEnrichment"

\* A chain asks for persons of its upload, marked before it starts; it writes
\* their statuses after their rows, and keeps the error it is caught with.
JobOK(j) ==
    /\ raws[j].request \subseteq PersonsOf(jobs[j].upload)
    /\ jobs[j].found \subseteq raws[j].request
    /\ jobs[j].point # "unstarted" => \A p \in raws[j].request : Marked(p)
    /\ jobs[j].point \in {"complete", "fail"} =>
          \A p \in raws[j].request :
             [job |-> j, person |-> p, found |-> p \in jobs[j].found] \in enrichments
    /\ jobs[j].point = "catchPersons" => raws[j].response = "error"
    /\ raws[j].response = "error" => jobs[j].point \in {"catchPersons", "done", "lost"}

\* An enrichment row is of a person that was marked.
RowsMarked == \A e \in enrichments : e.person \in 1..Len(persons) /\ Marked(e.person)

\* The persons a request has read are those of its upload, and the raw row it
\* has made is of a chain that has not started.
AskOK(r) ==
    /\ pc[r] = "enrichRaw" => loc[r].people \subseteq PersonsOf(Target(r))
    /\ pc[r] = "enrichMark" =>
          /\ raws[loc[r].raw].request \subseteq PersonsOf(Target(r))
          /\ jobs[loc[r].raw].point = "unstarted"
          /\ \A q \in Req : pc[q] = "enrichMark" /\ loc[q].raw = loc[r].raw => q = r

JobsOK == \A j \in 1..Len(jobs) : JobOK(j)
AsksOK == \A r \in Req : AskOK(r)
EnrichInv == TypeInv /\ JobsOK /\ RowsMarked /\ AsksOK /\ StatusJustified
-----------------------------------------------------------------------------
(* What one step can do to the persons, the chains and the requests.          *)

\* The steps that write what enriching is about, and the rest.
LEMMA Moves ==
    ASSUME [Next]_vars, NoStatusEdits
    PROVE  \/ UNCHANGED <<persons, enrichments, raws, jobs>>
           \/ \E r \in Req : InsertsPersons(r)
           \/ \E r \in Req : EnrichRaw(r) \/ EnrichMark(r)
           \/ \E j \in 1..Len(jobs) : JobStep(j) \/ ThenFails(j)
           \/ Die \/ Rekey \/ DeletePerson
  <1> DEFINE Still == UNCHANGED <<persons, enrichments, raws, jobs>>
  <1>1. ASSUME NEW r \in Req, Arrive(r) \/ Handle(r) \/ RequestFails(r)
        PROVE  Still \/ InsertsPersons(r) \/ EnrichRaw(r) \/ EnrichMark(r) \/ Die
    BY <1>1
       DEF Handle, CreateSteps, DeleteSteps, SaveSteps, EnrichSteps, Arrive, RequestFails,
           CreateParse, CreateDuplicates, CreateUser, CreateInsert, DeleteFind, DeleteUpdate,
           SaveFind, SaveParse, SaveParseMissing, SaveInsert, SaveMark, EnrichFind, EnrichUser,
           EnrichCompany, EnrichPersons, InsertsPersons, RequestOnly, tables
  <1>2. ASSUME NEW j \in 1..Len(jobs), JobStep(j) \/ JobFails(j)
        PROVE  JobStep(j) \/ ThenFails(j) \/ Die
    BY <1>2 DEF JobFails, CatchFails
  <1>3. CASE AdminEdit
    BY <1>3 DEF NoStatusEdits, AdminEdit, Edit, EditOnly, CreatePerson, SetStatus,
                AssignCompany, DeleteCompany
  <1>4. CASE Crash \/ UNCHANGED vars
    BY <1>4 DEF Crash, vars, tables
  <1>5. QED BY <1>1, <1>2, <1>3, <1>4 DEF Next, Quiet

\* A status that a step gives, and to whom.
StatusGiven(p) ==
    \/ \E r \in Req : /\ EnrichMark(r) /\ p \in PersonsOf(Target(r))
                      /\ persons'[p].status = "InProgress"
    \/ \E j \in 1..Len(jobs) : /\ CompleteFound(j) /\ p \in jobs[j].found
                               /\ persons'[p].status = "Completed"
    \/ \E j \in 1..Len(jobs) : /\ FailOthers(j) /\ p \in raws[j].request \ jobs[j].found
                               /\ persons'[p].status = "Failed"
    \/ \E j \in 1..Len(jobs) : /\ CatchPersons(j) /\ p \in PersonsOf(jobs[j].upload)
                               /\ persons'[p].status = "Failed"

PersonMove(p) ==
    /\ persons'[p].upload = persons[p].upload
    /\ Marked(p) => Marked(p)'
    /\ persons'[p].deleted = FALSE => persons[p].deleted = FALSE
    /\ persons'[p].status = persons[p].status \/ StatusGiven(p)

LEMMA PersonMoves ==
    ASSUME TypeInv, [Next]_vars, NoStatusEdits
    PROVE  Len(persons) <= Len(persons') /\ \A p \in 1..Len(persons) : PersonMove(p)
  <1>0. TypeOK /\ persons \in Seq(PersonRow) /\ Len(persons) \in Nat
    BY DEF TypeInv, TypeOK
  <1> DEFINE Goal == Len(persons) <= Len(persons') /\ \A p \in 1..Len(persons) : PersonMove(p)
  <1>1. CASE UNCHANGED persons
    BY <1>0, <1>1 DEF PersonMove, Marked
  <1>2. ASSUME NEW r \in Req, InsertsPersons(r) PROVE Goal
    <2>1. /\ Len(persons') = Len(persons) + Len(RowsOf(Target(r)))
          /\ RowsOf(Target(r)) \in Seq(Keys)
          /\ \A p \in 1..Len(persons) : persons'[p] = persons[p]
      BY <1>2, InsertedRows
    <2>2. Len(RowsOf(Target(r))) \in Nat
      BY <2>1
    <2>3. QED BY <1>0, <2>1, <2>2 DEF PersonMove, Marked
  <1>3. ASSUME NEW where, NEW col \in {"status", "deleted", "key", "company"}, NEW v,
               col = "status" => v # "NoEnrichment", col = "deleted" => v = TRUE,
               persons' = UpdateMany(persons, where, col, v),
               NEW p \in 1..Len(persons),
               col = "status" /\ p \in where /\ persons'[p].status = v => StatusGiven(p)
        PROVE  PersonMove(p)
    <2>1. persons[p] \in PersonRow
      BY <1>0
    <2>2. CASE p \in where /\ ~persons[p].deleted
      <3>1. persons'[p] = [persons[p] EXCEPT ![col] = v]
        BY <1>3, <2>2 DEF UpdateMany, Live
      <3>2. CASE col = "status"
        <4>1. persons'[p].status = v /\ v # "NoEnrichment"
          BY <1>3, <2>1, <3>1, <3>2 DEF PersonRow
        <4>2. StatusGiven(p)
          BY <1>3, <2>2, <3>2, <4>1
        <4>3. QED BY <2>1, <2>2, <3>1, <3>2, <4>1, <4>2 DEF PersonMove, PersonRow, Marked
      <3>3. CASE col = "deleted"
        BY <1>3, <2>1, <2>2, <3>1, <3>3 DEF PersonMove, PersonRow, Marked
      <3>4. CASE col \in {"key", "company"}
        BY <2>1, <2>2, <3>1, <3>4 DEF PersonMove, PersonRow, Marked
      <3>5. QED BY <1>3, <3>2, <3>3, <3>4
    <2>3. CASE p \notin where \/ persons[p].deleted
      <3>1. persons'[p] = persons[p]
        BY <1>3, <2>3 DEF UpdateMany, Live
      <3>2. QED BY <3>1 DEF PersonMove, Marked
    <2>4. QED BY <2>2, <2>3
  <1>4. ASSUME NEW where, NEW col, NEW v, persons' = UpdateMany(persons, where, col, v)
        PROVE  Len(persons) <= Len(persons')
    BY <1>0, <1>4 DEF UpdateMany
  <1>5. ASSUME NEW r \in Req, EnrichMark(r) PROVE Goal
    <2>1. persons' = UpdateMany(persons, PersonsOf(Target(r)), "status", "InProgress")
      BY <1>5 DEF EnrichMark
    <2>2. ASSUME NEW p \in 1..Len(persons) PROVE PersonMove(p)
      BY <1>3, <1>5, <2>1 DEF StatusGiven
    <2>3. QED BY <1>4, <2>1, <2>2
  <1>6. ASSUME NEW j \in 1..Len(jobs), CompleteFound(j) PROVE Goal
    <2>1. persons' = UpdateMany(persons, jobs[j].found, "status", "Completed")
      BY <1>6 DEF CompleteFound
    <2>2. ASSUME NEW p \in 1..Len(persons) PROVE PersonMove(p)
      BY <1>3, <1>6, <2>1 DEF StatusGiven
    <2>3. QED BY <1>4, <2>1, <2>2
  <1>7. ASSUME NEW j \in 1..Len(jobs), FailOthers(j) PROVE Goal
    <2>1. persons' = UpdateMany(persons, raws[j].request \ jobs[j].found, "status", "Failed")
      BY <1>7 DEF FailOthers
    <2>2. ASSUME NEW p \in 1..Len(persons) PROVE PersonMove(p)
      BY <1>3, <1>7, <2>1 DEF StatusGiven
    <2>3. QED BY <1>4, <2>1, <2>2
  <1>8. ASSUME NEW j \in 1..Len(jobs), CatchPersons(j) PROVE Goal
    <2>1. persons' = UpdateMany(persons, PersonsOf(jobs[j].upload), "status", "Failed")
      BY <1>8 DEF CatchPersons
    <2>2. ASSUME NEW p \in 1..Len(persons) PROVE PersonMove(p)
      BY <1>3, <1>8, <2>1 DEF StatusGiven
    <2>3. QED BY <1>4, <2>1, <2>2
  <1>9. CASE DeletePerson
    <2>1. PICK q : persons' = UpdateMany(persons, {q}, "deleted", TRUE)
      BY <1>9 DEF DeletePerson, DeleteMany
    <2>2. QED BY <1>3, <1>4, <2>1
  <1>10. CASE Rekey
    <2>1. PICK q \in Live(persons), key \in Keys, c \in Companies :
             persons' = UpdateMany(UpdateMany(persons, {q}, "key", key), {q}, "company", c)
      BY <1>10 DEF Rekey
    <2>2. Len(persons') = Len(persons)
      BY <1>0, <2>1 DEF UpdateMany
    <2>3. ASSUME NEW p \in 1..Len(persons)
          PROVE  persons'[p] \in {persons[p],
                    [[persons[p] EXCEPT !["key"] = key] EXCEPT !["company"] = c]}
      BY <2>1, <1>0 DEF UpdateMany, Live
    <2>4. ASSUME NEW p \in 1..Len(persons) PROVE PersonMove(p)
      <3>1. persons[p] \in PersonRow
        BY <1>0
      <3>2. QED BY <2>3, <3>1 DEF PersonMove, Marked, PersonRow
    <2>5. QED BY <1>0, <2>2, <2>4
  <1>11. ASSUME NEW r \in Req, EnrichRaw(r) \/ EnrichMark(r) PROVE Goal
    BY <1>1, <1>5, <1>11 DEF EnrichRaw
  <1>12. ASSUME NEW j \in 1..Len(jobs), JobStep(j) \/ ThenFails(j) PROVE Goal
    BY <1>1, <1>6, <1>7, <1>8, <1>12
       DEF JobStep, Answered, CallFails, RecordResponse, InsertEnrichments, CatchRaw,
           ThenFails, tables
  <1>13. CASE Die
    BY <1>1, <1>13 DEF Die, tables
  <1>14. QED
    BY <1>1, <1>2, <1>9, <1>10, <1>11, <1>12, <1>13, Moves

\* A person that is new was never enriched.
LEMMA NewPersonMoves ==
    ASSUME TypeInv, [Next]_vars, NoStatusEdits,
           NEW p \in 1..Len(persons'), p \notin 1..Len(persons)
    PROVE  persons'[p].status = "NoEnrichment"
  <1>0. TypeOK /\ persons \in Seq(PersonRow) /\ Len(persons) \in Nat
    BY DEF TypeInv, TypeOK
  <1>1. CASE Len(persons') = Len(persons)
    BY <1>1
  <1>2. ASSUME NEW r \in Req, InsertsPersons(r) PROVE persons'[p].status = "NoEnrichment"
    <2>1. Target(r) \in 1..Len(uploads)
      BY <1>2, InsertedRows
    <2>2. PICK rows \in Seq(PersonRow) : rows = NewPersons(Target(r))
      BY <1>0, <2>1, NewPersonsType
    <2>3. persons' = CreateMany(persons, rows)
      BY <1>2, <2>2 DEF InsertsPersons
    <2>4. /\ Len(persons') = Len(persons) + Len(rows) /\ Len(rows) \in Nat
          /\ \A i \in 1..Len(rows) : persons'[Len(persons) + i] = rows[i]
      <3>1. /\ Len(CreateMany(persons, rows)) = Len(persons) + Len(rows)
            /\ \A i \in 1..Len(rows) : CreateMany(persons, rows)[Len(persons) + i] = rows[i]
        BY <1>0, ConcatProperties DEF CreateMany
      <3>2. QED BY <2>3, <3>1
    <2>5. PICK i \in 1..Len(rows) : p = Len(persons) + i
      <3>1. p - Len(persons) \in 1..Len(rows) /\ p = Len(persons) + (p - Len(persons))
        BY <1>0, <2>4
      <3>2. QED BY <3>1
    <2>6. rows[i].status = "NoEnrichment"
      <3>1. Len(rows) = Len(Content[uploads[Target(r)].file])
        BY <1>0, <2>1, <2>2, NewPersonsType
      <3>2. QED BY <2>2, <3>1 DEF NewPersons
    <2>7. QED BY <2>4, <2>5, <2>6
  <1>3. ASSUME NEW where, NEW col, NEW v, persons' = UpdateMany(persons, where, col, v)
        PROVE  Len(persons') = Len(persons)
    BY <1>0, <1>3 DEF UpdateMany
  <1>4. ASSUME NEW r \in Req, EnrichRaw(r) \/ EnrichMark(r)
        PROVE  Len(persons') = Len(persons)
    BY <1>3, <1>4 DEF EnrichRaw, EnrichMark
  <1>5. ASSUME NEW j \in 1..Len(jobs), JobStep(j) \/ ThenFails(j)
        PROVE  Len(persons') = Len(persons)
    BY <1>3, <1>5
       DEF JobStep, Answered, CallFails, RecordResponse, InsertEnrichments, CatchRaw,
           CompleteFound, FailOthers, CatchPersons, ThenFails, tables
  <1>6. CASE DeletePerson
    BY <1>1, <1>3, <1>6 DEF DeletePerson, DeleteMany
  <1>7. CASE Rekey
    BY <1>0, <1>1, <1>7 DEF Rekey, UpdateMany
  <1>8. CASE Die
    BY <1>1, <1>8 DEF Die, tables
  <1>9. QED
    BY <1>1, <1>2, <1>4, <1>5, <1>6, <1>7, <1>8, Moves
\* How a chain moves: by a step of its own, when its request starts it, or when
\* the process dies.
JobMove(j) ==
    /\ raws'[j].request = raws[j].request /\ jobs'[j].upload = jobs[j].upload
    /\ \/ jobs'[j] = jobs[j] /\ raws'[j] = raws[j]
       \/ JobStep(j) \/ ThenFails(j)
       \/ \E r \in Req : /\ EnrichMark(r) /\ loc[r].raw = j /\ raws'[j] = raws[j]
                         /\ jobs'[j] = [jobs[j] EXCEPT !.point = "calling"]
       \/ /\ Die /\ jobs[j].point \in Running /\ raws'[j] = raws[j]
          /\ jobs'[j] = [jobs[j] EXCEPT !.point = "lost"]

\* The step of a chain moves only that chain.
LEMMA OwnJobMoves ==
    ASSUME TypeInv, NEW j \in 1..Len(jobs), JobStep(j) \/ ThenFails(j)
    PROVE  /\ Len(jobs') = Len(jobs) /\ enrichments \subseteq enrichments'
           /\ \A k \in 1..Len(jobs) : JobMove(k)
  <1>0. /\ TypeOK /\ jobs \in Seq(Job) /\ raws \in Seq(RawRow) /\ Len(jobs) = Len(raws)
        /\ Len(jobs) \in Nat /\ jobs[j] \in Job /\ raws[j] \in RawRow
    BY DEF TypeInv, TypeOK
  <1>1. enrichments \subseteq enrichments'
    BY DEF JobStep, Answered, CallFails, RecordResponse, InsertEnrichments, CatchRaw,
           CompleteFound, FailOthers, CatchPersons, ThenFails, tables
  <1>2. /\ Len(jobs') = Len(jobs) /\ jobs'[j].upload = jobs[j].upload
        /\ \A k \in 1..Len(jobs) : k # j => jobs'[k] = jobs[k]
    <2>1. ASSUME NEW point, Advance(j, point)
          PROVE  /\ Len(jobs') = Len(jobs) /\ jobs'[j].upload = jobs[j].upload
                 /\ \A k \in 1..Len(jobs) : k # j => jobs'[k] = jobs[k]
      BY <1>0, <2>1 DEF Advance, Job
    <2>2. ASSUME Answered(j)
          PROVE  /\ Len(jobs') = Len(jobs) /\ jobs'[j].upload = jobs[j].upload
                 /\ \A k \in 1..Len(jobs) : k # j => jobs'[k] = jobs[k]
      BY <1>0, <2>2 DEF Answered, Job
    <2>3. QED
      BY <2>1, <2>2 DEF JobStep, CallFails, RecordResponse, InsertEnrichments, CatchRaw,
           CompleteFound, FailOthers, CatchPersons, ThenFails
  <1>3. /\ raws'[j].request = raws[j].request
        /\ \A k \in 1..Len(jobs) : k # j => raws'[k] = raws[k]
    <2>1. CASE UNCHANGED raws
      BY <2>1
    <2>2. CASE \E response : raws' = [raws EXCEPT ![j].response = response]
      BY <1>0, <2>2 DEF RawRow
    <2>3. QED
      BY <2>1, <2>2 DEF JobStep, Answered, CallFails, RecordResponse, InsertEnrichments,
           CatchRaw, CompleteFound, FailOthers, CatchPersons, ThenFails, tables
  <1>4. QED BY <1>1, <1>2, <1>3 DEF JobMove

LEMMA JobMoves ==
    ASSUME TypeInv, [Next]_vars, NoStatusEdits
    PROVE  /\ enrichments \subseteq enrichments'
           /\ \A j \in 1..Len(jobs) : JobMove(j)
           /\ \/ Len(jobs') = Len(jobs)
              \/ \E r \in Req : EnrichRaw(r)
  <1>0. /\ TypeOK /\ jobs \in Seq(Job) /\ raws \in Seq(RawRow) /\ Len(jobs) = Len(raws)
        /\ Len(jobs) \in Nat
    BY DEF TypeInv, TypeOK
  <1> DEFINE Goal == /\ enrichments \subseteq enrichments'
                     /\ \A j \in 1..Len(jobs) : JobMove(j)
                     /\ \/ Len(jobs') = Len(jobs)
                        \/ \E r \in Req : EnrichRaw(r)
  <1>1. CASE UNCHANGED <<enrichments, raws, jobs>>
    BY <1>1 DEF JobMove
  <1>2. ASSUME NEW r \in Req, EnrichRaw(r) PROVE Goal
    <2>1. /\ enrichments' = enrichments
          /\ \A j \in 1..Len(jobs) : jobs'[j] = jobs[j] /\ raws'[j] = raws[j]
      BY <1>0, <1>2 DEF EnrichRaw, CreateMany
    <2>2. QED BY <1>2, <2>1 DEF JobMove
  <1>3. ASSUME NEW r \in Req, EnrichMark(r) PROVE Goal
    <2>1. loc[r].raw \in 1..Len(jobs)
      BY <1>3 DEF EnrichMark, TypeInv, ControlOK, RequestControl
    <2>2. CASE UNCHANGED jobs
      BY <1>1, <1>3, <2>2 DEF EnrichMark
    <2>3. CASE jobs' = [jobs EXCEPT ![loc[r].raw].point = "calling"]
      <3>1. \A j \in 1..Len(jobs) : j # loc[r].raw => jobs'[j] = jobs[j]
        BY <1>0, <2>1, <2>3
      <3>2. /\ jobs'[loc[r].raw] = [jobs[loc[r].raw] EXCEPT !.point = "calling"]
            /\ jobs'[loc[r].raw].upload = jobs[loc[r].raw].upload
        BY <1>0, <2>1, <2>3 DEF Job
      <3>3. Len(jobs') = Len(jobs)
        BY <1>0, <2>3
      <3>4. UNCHANGED <<raws, enrichments>>
        BY <1>3 DEF EnrichMark
      <3>5. QED BY <1>3, <3>1, <3>2, <3>3, <3>4 DEF JobMove
    <2>4. QED BY <1>3, <2>2, <2>3 DEF EnrichMark
  <1>4. ASSUME NEW j \in 1..Len(jobs), JobStep(j) \/ ThenFails(j) PROVE Goal
    BY <1>4, OwnJobMoves
  <1>5. CASE Die
    <2>1. UNCHANGED <<enrichments, raws>> /\ Len(jobs') = Len(jobs)
      BY <1>0, <1>5 DEF Die, tables
    <2>2. ASSUME NEW j \in 1..Len(jobs)
          PROVE  \/ jobs'[j] = jobs[j]
                 \/ /\ jobs[j].point \in Running
                    /\ jobs'[j] = [jobs[j] EXCEPT !.point = "lost"]
                    /\ jobs'[j].upload = jobs[j].upload
      <3>1. jobs[j] \in Job
        BY <1>0
      <3>2. jobs'[j] = IF jobs[j].point \in Running
                       THEN [jobs[j] EXCEPT !.point = "lost"] ELSE jobs[j]
        BY <1>5 DEF Die
      <3>3. QED BY <3>1, <3>2 DEF Job
    <2>3. QED BY <1>5, <2>1, <2>2 DEF JobMove
  <1>6. ASSUME NEW r \in Req, InsertsPersons(r) PROVE Goal
    BY <1>1, <1>6 DEF InsertsPersons, SaveInsert, RequestOnly
  <1>7. CASE Rekey \/ DeletePerson
    BY <1>1, <1>7 DEF Rekey, DeletePerson, EditOnly
  <1>8. QED
    BY <1>1, <1>2, <1>3, <1>4, <1>5, <1>6, <1>7, Moves
-----------------------------------------------------------------------------
(* Each part of EnrichInv is kept by every step.                              *)

LEMMA PersonsOfOnlyGrow ==
    ASSUME TypeInv, [Next]_vars, NoStatusEdits, NEW u
    PROVE  PersonsOf(u) \subseteq PersonsOf(u)' /\ PersonsOf(u) \subseteq 1..Len(persons)
  <1>1. Len(persons) \in Nat /\ Len(persons') \in Nat
    BY StepTypeInv DEF TypeInv, TypeOK
  <1>2. Len(persons) <= Len(persons') /\ \A p \in 1..Len(persons) : PersonMove(p)
    BY PersonMoves
  <1>3. \A p \in 1..Len(persons) : persons'[p].upload = persons[p].upload
    BY <1>2 DEF PersonMove
  <1>4. QED BY <1>1, <1>2, <1>3 DEF PersonsOf

LEMMA RowsMarkedStep ==
    ASSUME EnrichInv, [Next]_vars, NoStatusEdits
    PROVE  RowsMarked'
  <1>0. /\ TypeInv /\ JobsOK /\ RowsMarked
        /\ Len(persons) \in Nat /\ Len(persons') \in Nat /\ Len(persons) <= Len(persons')
    BY PersonMoves, StepTypeInv DEF EnrichInv, TypeInv, TypeOK
  <1>1. ASSUME NEW p \in 1..Len(persons), Marked(p)
        PROVE  p \in 1..Len(persons') /\ Marked(p)'
    <2>1. PersonMove(p)
      BY <1>0, PersonMoves
    <2>2. QED BY <1>0, <1>1, <2>1 DEF PersonMove
  <1>2. CASE enrichments' = enrichments
    BY <1>0, <1>1, <1>2 DEF RowsMarked
  <1>3. ASSUME NEW j \in 1..Len(jobs), InsertEnrichments(j)
        PROVE  RowsMarked'
    <2>1. \A p \in raws[j].request : p \in 1..Len(persons) /\ Marked(p)
      BY <1>0, <1>3, PersonsOfOnlyGrow DEF InsertEnrichments, At, JobsOK, JobOK
    <2>2. \A e \in enrichments' : e \in enrichments \/ e.person \in raws[j].request
      BY <1>3 DEF InsertEnrichments
    <2>3. QED BY <1>0, <1>1, <2>1, <2>2 DEF RowsMarked
  <1>4. ASSUME NEW j \in 1..Len(jobs), JobStep(j) \/ ThenFails(j)
        PROVE  RowsMarked'
    BY <1>2, <1>3, <1>4
       DEF JobStep, Answered, CallFails, RecordResponse, CatchRaw,
           CompleteFound, FailOthers, CatchPersons, ThenFails, tables
  <1>5. QED
    BY <1>2, <1>4, Moves DEF InsertsPersons, SaveInsert, EnrichRaw, EnrichMark, Die, tables,
       Rekey, DeletePerson, EditOnly
\* Nothing takes back what a chain that did not move relies on.
LEMMA JobFrame ==
    ASSUME TypeInv, [Next]_vars, NoStatusEdits, NEW j \in 1..Len(jobs), JobOK(j),
           raws'[j].request = raws[j].request, jobs'[j].upload = jobs[j].upload
    PROVE  /\ raws'[j].request \subseteq PersonsOf(jobs[j].upload)'
           /\ \A p \in raws[j].request : Marked(p) => Marked(p)'
           /\ enrichments \subseteq enrichments'
  <1>1. /\ PersonsOf(jobs[j].upload) \subseteq PersonsOf(jobs[j].upload)'
        /\ PersonsOf(jobs[j].upload) \subseteq 1..Len(persons)
    <2>1. PICK u : u = jobs[j].upload
      OBVIOUS
    <2>2. PersonsOf(u) \subseteq PersonsOf(u)' /\ PersonsOf(u) \subseteq 1..Len(persons)
      BY PersonsOfOnlyGrow
    <2>3. QED BY <2>1, <2>2 DEF PersonsOf
  <1>2. raws[j].request \subseteq PersonsOf(jobs[j].upload)
    BY DEF JobOK
  <1>3. ASSUME NEW p \in raws[j].request PROVE Marked(p) => Marked(p)'
    <2>1. PersonMove(p)
      BY <1>1, <1>2, PersonMoves
    <2>2. QED BY <2>1 DEF PersonMove
  <1>4. enrichments \subseteq enrichments'
    BY JobMoves
  <1>5. QED BY <1>1, <1>2, <1>3, <1>4

\* The step of a chain.
LEMMA OwnJobOK ==
    ASSUME TypeInv, [Next]_vars, NoStatusEdits, NEW j \in 1..Len(jobs), JobOK(j),
           JobStep(j) \/ ThenFails(j)
    PROVE  JobOK(j)'
  <1>0. /\ TypeOK /\ jobs \in Seq(Job) /\ raws \in Seq(RawRow) /\ Len(jobs) = Len(raws)
        /\ Len(jobs) \in Nat /\ jobs[j] \in Job /\ raws[j] \in RawRow
    BY DEF TypeInv, TypeOK
  <1>1. JobMove(j)
    BY JobMoves
  <1>2. raws'[j].request = raws[j].request /\ jobs'[j].upload = jobs[j].upload
    BY <1>1 DEF JobMove
  <1>3. /\ raws'[j].request \subseteq PersonsOf(jobs[j].upload)'
        /\ \A p \in raws[j].request : Marked(p) => Marked(p)'
        /\ enrichments \subseteq enrichments'
    BY <1>2, JobFrame
  <1>4. ASSUME NEW point, Advance(j, point)
        PROVE  jobs'[j].point = point /\ jobs'[j].found = jobs[j].found
    BY <1>0, <1>4 DEF Advance, Job
  <1> DEFINE Kept == /\ raws'[j].request \subseteq PersonsOf(jobs[j].upload)'
                     /\ jobs'[j].found \subseteq raws'[j].request
                     /\ \A p \in raws'[j].request : Marked(p)'
  <1>5. ASSUME jobs[j].point # "unstarted", jobs'[j].found = jobs[j].found
        PROVE  Kept
    BY <1>2, <1>3, <1>5 DEF JobOK
  <1>6. CASE Answered(j)
    <2>1. PICK found \in SUBSET raws[j].request :
             jobs' = [jobs EXCEPT ![j].point = "record", ![j].found = found]
      BY <1>6 DEF Answered
    <2>2. jobs'[j].point = "record" /\ jobs'[j].found = found
      BY <1>0, <2>1 DEF Job
    <2>3. raws' = raws /\ jobs[j].point = "calling"
      BY <1>6 DEF Answered, At, tables
    <2>4. QED BY <1>2, <1>3, <2>2, <2>3 DEF JobOK
  <1>7. CASE CallFails(j)
    BY <1>4, <1>5, <1>7 DEF CallFails, At, JobOK, tables
  <1>8. CASE RecordResponse(j)
    <2>1. raws'[j].response = "items"
      BY <1>0, <1>8 DEF RecordResponse, RawRow
    <2>2. QED BY <1>4, <1>5, <1>8, <2>1 DEF RecordResponse, At, JobOK
  <1>9. CASE InsertEnrichments(j)
    <2>1. /\ jobs'[j].point = "complete" /\ jobs'[j].found = jobs[j].found /\ raws' = raws
          /\ jobs[j].point = "insert"
      BY <1>4, <1>9 DEF InsertEnrichments, At
    <2>2. \A p \in raws[j].request :
             [job |-> j, person |-> p, found |-> p \in jobs[j].found] \in enrichments'
      BY <1>9 DEF InsertEnrichments
    <2>3. QED BY <1>5, <2>1, <2>2 DEF JobOK
  <1>10. CASE CompleteFound(j)
    <2>1. /\ jobs'[j].point = "fail" /\ jobs'[j].found = jobs[j].found /\ raws' = raws
          /\ jobs[j].point = "complete" /\ enrichments' = enrichments
      BY <1>4, <1>10 DEF CompleteFound, At
    <2>2. QED BY <1>5, <2>1 DEF JobOK
  <1>11. CASE FailOthers(j) \/ ThenFails(j)
    <2>1. /\ jobs'[j].point \in {"done", "catchRaw"} /\ jobs'[j].found = jobs[j].found
          /\ raws' = raws /\ jobs[j].point \in ThenPoints
      BY <1>4, <1>11 DEF FailOthers, ThenFails, At, ThenPoints, tables
    <2>2. QED BY <1>5, <2>1 DEF JobOK, ThenPoints
  <1>12. CASE CatchRaw(j)
    <2>1. raws'[j].response = "error"
      BY <1>0, <1>12 DEF CatchRaw, RawRow
    <2>2. QED BY <1>4, <1>5, <1>12, <2>1 DEF CatchRaw, At, JobOK
  <1>13. CASE CatchPersons(j)
    BY <1>4, <1>5, <1>13 DEF CatchPersons, At, JobOK
  <1>14. QED
    BY <1>6, <1>7, <1>8, <1>9, <1>10, <1>11, <1>12, <1>13 DEF JobStep

\* The persons that a request marks as it starts its chain.
LEMMA MarkMarks ==
    ASSUME TypeInv, NEW r \in Req, EnrichMark(r), NEW p \in PersonsOf(Target(r))
    PROVE  Marked(p)'
  <1>1. p \in 1..Len(persons) /\ persons[p] \in PersonRow
    BY DEF PersonsOf, TypeInv, TypeOK
  <1>2. persons'[p] = IF persons[p].deleted THEN persons[p]
                      ELSE [persons[p] EXCEPT !["status"] = "InProgress"]
    BY <1>1 DEF EnrichMark, UpdateMany, Live
  <1>3. QED BY <1>1, <1>2 DEF Marked, PersonRow

LEMMA JobsOKStep ==
    ASSUME EnrichInv, [Next]_vars, NoStatusEdits
    PROVE  JobsOK'
  <1>0. /\ TypeInv /\ TypeOK /\ JobsOK /\ AsksOK
        /\ Len(jobs) \in Nat /\ Len(jobs) = Len(raws)
        /\ jobs \in Seq(Job) /\ raws \in Seq(RawRow)
    BY DEF EnrichInv, TypeInv, TypeOK
  <1>1. ASSUME NEW j \in 1..Len(jobs) PROVE JobOK(j)'
    <2>0. JobOK(j) /\ JobMove(j) /\ jobs[j] \in Job
      BY <1>0, JobMoves DEF JobsOK
    <2>1. raws'[j].request = raws[j].request /\ jobs'[j].upload = jobs[j].upload
      BY <2>0 DEF JobMove
    <2>2. /\ raws'[j].request \subseteq PersonsOf(jobs[j].upload)'
          /\ \A p \in raws[j].request : Marked(p) => Marked(p)'
          /\ enrichments \subseteq enrichments'
      BY <1>0, <2>0, <2>1, JobFrame
    <2>3. CASE jobs'[j] = jobs[j] /\ raws'[j] = raws[j]
      BY <2>0, <2>2, <2>3 DEF JobOK
    <2>4. CASE JobStep(j) \/ ThenFails(j)
      BY <1>0, <2>0, <2>4, OwnJobOK
    <2>5. ASSUME NEW r \in Req, EnrichMark(r), loc[r].raw = j, raws'[j] = raws[j],
                 jobs'[j] = [jobs[j] EXCEPT !.point = "calling"]
          PROVE  JobOK(j)'
      <3>1. raws[j].request \subseteq PersonsOf(Target(r)) /\ jobs[j].point = "unstarted"
        BY <1>0, <2>5 DEF AsksOK, AskOK, EnrichMark
      <3>2. \A p \in raws[j].request : Marked(p)'
        BY <1>0, <2>5, <3>1, MarkMarks
      <3>3. jobs'[j].point = "calling" /\ jobs'[j].found = jobs[j].found
        BY <2>0, <2>5 DEF Job
      <3>4. QED BY <2>0, <2>1, <2>2, <2>5, <3>1, <3>2, <3>3 DEF JobOK
    <2>6. CASE /\ jobs[j].point \in Running /\ raws'[j] = raws[j]
               /\ jobs'[j] = [jobs[j] EXCEPT !.point = "lost"]
      <3>1. jobs'[j].point = "lost" /\ jobs'[j].found = jobs[j].found
        BY <2>0, <2>6 DEF Job
      <3>2. jobs[j].point # "unstarted"
        BY <2>6 DEF Running, ThenPoints, CatchPoints
      <3>3. QED BY <2>0, <2>1, <2>2, <2>6, <3>1, <3>2 DEF JobOK
    <2>7. QED BY <2>0, <2>3, <2>4, <2>5, <2>6 DEF JobMove
  <1>2. CASE Len(jobs') = Len(jobs)
    BY <1>1, <1>2 DEF JobsOK
  <1>3. ASSUME NEW r \in Req, EnrichRaw(r) PROVE JobsOK'
    <2>1. /\ Len(jobs') = Len(jobs) + 1
          /\ jobs'[Len(jobs) + 1] = [point |-> "unstarted", upload |-> Target(r), found |-> {}]
          /\ raws'[Len(jobs) + 1] = [request |-> loc[r].people, response |-> "none"]
      BY <1>0, <1>3 DEF EnrichRaw, CreateMany
    <2>2. loc[r].people \subseteq PersonsOf(Target(r))'
      <3>1. loc[r].people \subseteq PersonsOf(Target(r))
        BY <1>0, <1>3 DEF AsksOK, AskOK, EnrichRaw
      <3>2. UNCHANGED <<persons, call>>
        BY <1>3 DEF EnrichRaw
      <3>3. QED BY <3>1, <3>2 DEF PersonsOf, Target
    <2>3. Target(r)' = Target(r)
      BY <1>3 DEF EnrichRaw, Target
    <2>4. ASSUME NEW j, j = Len(jobs) + 1 PROVE JobOK(j)'
      BY <2>1, <2>2, <2>3, <2>4 DEF JobOK, PersonsOf
    <2>5. QED BY <1>0, <1>1, <2>1, <2>4 DEF JobsOK
  <1>4. QED BY <1>0, <1>2, <1>3, JobMoves

\* How a request comes to an await of enrichExecutiveUpload.
EnrichPoints == {"enrichUser", "enrichCompany", "enrichPersons", "enrichRaw", "enrichMark"}

LEMMA ReachesEnrich ==
    ASSUME TypeInv, [Next]_vars, NEW q \in Req, pc'[q] \in EnrichPoints
    PROVE  /\ call'[q] = call[q]
           /\ \/ pc'[q] = pc[q] /\ loc'[q] = loc[q] /\ ~EnrichMark(q)
              \/ EnrichFind(q) \/ EnrichUser(q) \/ EnrichCompany(q) \/ SaveMark(q)
              \/ EnrichPersons(q) \/ EnrichRaw(q)
  <1>0. TypeOK
    BY DEF TypeInv
  <1> DEFINE Goal == /\ call'[q] = call[q]
                     /\ \/ pc'[q] = pc[q] /\ loc'[q] = loc[q] /\ ~EnrichMark(q)
                        \/ EnrichFind(q) \/ EnrichUser(q) \/ EnrichCompany(q) \/ SaveMark(q)
                        \/ EnrichPersons(q) \/ EnrichRaw(q)
  <1>1. CASE pc'[q] = pc[q] /\ loc'[q] = loc[q] /\ call'[q] = call[q]
    BY <1>0, <1>1 DEF EnrichMark, Goto, EnrichPoints, TypeOK
  <1>2. CASE Die
    BY <1>0, <1>2 DEF Die, TypeOK, Points, EnrichPoints
  <1>3. ASSUME NEW r \in Req, Arrive(r) PROVE Goal
    <2>1. PICK c \in Calls, point \in FindPoints \cup {"createParse"} :
             call' = [call EXCEPT ![r] = c] /\ Goto(r, point)
      BY <1>3, ConstantsAssumption DEF Arrive, FindPoints, CreateCall, UploadCall
    <2>2. q # r
      BY <1>0, <2>1 DEF Goto, TypeOK, FindPoints, EnrichPoints
    <2>3. loc' = loc
      BY <1>3 DEF Arrive
    <2>4. QED BY <1>0, <1>1, <2>1, <2>2, <2>3 DEF Goto, TypeOK
  <1>4. ASSUME NEW r \in Req, Handle(r) \/ RequestFails(r), ~Die PROVE Goal
    <2>1. call' = call
      BY <1>4
         DEF Handle, CreateSteps, DeleteSteps, SaveSteps, EnrichSteps, CreateParse,
             CreateDuplicates, CreateUser, CreateInsert, DeleteFind, DeleteUpdate, SaveFind,
             SaveParse, SaveParseMissing, SaveInsert, SaveMark, EnrichFind, EnrichUser,
             EnrichCompany, EnrichPersons, EnrichRaw, EnrichMark, RequestFails, RequestOnly
    <2>2. CASE q # r
      <3>1. pc'[q] = pc[q] /\ loc'[q] = loc[q]
        BY <1>0, <1>4, <2>2
           DEF Handle, CreateSteps, DeleteSteps, SaveSteps, EnrichSteps, CreateParse,
               CreateDuplicates, CreateUser, CreateInsert, DeleteFind, DeleteUpdate, SaveFind,
               SaveParse, SaveParseMissing, SaveInsert, SaveMark, EnrichFind, EnrichUser,
               EnrichCompany, EnrichPersons, EnrichRaw, EnrichMark, RequestFails, Reject,
               Finish, Goto, Keep, TypeOK
      <3>2. QED BY <1>1, <2>1, <3>1
    <2>3. CASE q = r
      <3>1. EnrichFind(q) \/ EnrichUser(q) \/ EnrichCompany(q) \/ SaveMark(q)
               \/ EnrichPersons(q) \/ EnrichRaw(q)
        BY <1>0, <1>4, <2>3
           DEF Handle, CreateSteps, DeleteSteps, SaveSteps, EnrichSteps, CreateParse,
               CreateDuplicates, CreateUser, CreateInsert, DeleteFind, DeleteUpdate, SaveFind,
               SaveParse, SaveParseMissing, SaveInsert, EnrichMark, RequestFails, Reject,
               Finish, Goto, TypeOK, EnrichPoints
      <3>2. QED BY <2>1, <3>1
    <2>4. QED BY <2>2, <2>3
  <1>5. ASSUME NEW j \in 1..Len(jobs), JobStep(j) \/ JobFails(j), ~Die PROVE Goal
    BY <1>1, <1>5 DEF JobStep, JobFails, JobOnly, Answered, CallFails, RecordResponse,
                      InsertEnrichments, CompleteFound, FailOthers, CatchRaw, CatchPersons,
                      ThenFails, CatchFails
  <1>6. CASE AdminEdit
    BY <1>1, <1>6 DEF AdminEdit, EditOnly, CreatePerson, SetStatus, Rekey, DeletePerson,
                      AssignCompany, DeleteCompany
  <1>7. CASE UNCHANGED vars
    BY <1>1, <1>7 DEF vars
  <1>8. QED BY <1>2, <1>3, <1>4, <1>5, <1>6, <1>7 DEF Next, Quiet, Crash

\* A request at one of the two last awaits was there, or has just read what it
\* keeps.
LEMMA ReachesRaw ==
    ASSUME TypeInv, [Next]_vars, NEW q \in Req, pc'[q] \in {"enrichRaw", "enrichMark"}
    PROVE  /\ Target(q)' = Target(q)
           /\ \/ pc'[q] = pc[q] /\ loc'[q] = loc[q] /\ ~EnrichMark(q)
              \/ /\ EnrichPersons(q) /\ pc'[q] = "enrichRaw" /\ UNCHANGED persons
                 /\ loc'[q].people = PersonsOf(Target(q)) \cap Live(persons)
              \/ /\ EnrichRaw(q) /\ pc'[q] = "enrichMark" /\ UNCHANGED persons
                 /\ loc'[q].raw = Len(jobs) + 1 /\ Len(jobs') = Len(jobs) + 1
                 /\ raws'[Len(jobs) + 1].request = loc[q].people
                 /\ jobs'[Len(jobs) + 1].point = "unstarted"
  <1>0. /\ TypeOK /\ Len(jobs) = Len(raws) /\ jobs \in Seq(Job) /\ raws \in Seq(RawRow)
        /\ loc[q] \in Locals /\ loc \in [Req -> Locals] /\ pc'[q] \in EnrichPoints
    BY DEF TypeInv, TypeOK, EnrichPoints
  <1>1. Target(q)' = Target(q)
    BY <1>0, ReachesEnrich DEF Target
  <1>2. CASE EnrichFind(q) \/ EnrichUser(q) \/ EnrichCompany(q) \/ SaveMark(q)
    BY <1>0, <1>2
       DEF EnrichFind, EnrichUser, EnrichCompany, SaveMark, Reject, Finish, Goto, TypeOK
  <1>3. CASE EnrichPersons(q)
    BY <1>0, <1>1, <1>3 DEF EnrichPersons, Keep, Goto, Locals, TypeOK, tables
  <1>4. CASE EnrichRaw(q)
    BY <1>0, <1>1, <1>4 DEF EnrichRaw, CreateMany, Keep, Goto, Locals, TypeOK
  <1>5. QED BY <1>0, <1>1, <1>2, <1>3, <1>4, ReachesEnrich

LEMMA AsksOKStep ==
    ASSUME EnrichInv, [Next]_vars, NoStatusEdits
    PROVE  AsksOK'
  <1>0. TypeInv /\ AsksOK /\ Len(jobs) \in Nat
    BY DEF EnrichInv, TypeInv, TypeOK
  <1>1. ASSUME NEW r \in Req, pc'[r] = "enrichRaw"
        PROVE  loc'[r].people \subseteq PersonsOf(Target(r))'
    <2>1. PICK u : u = Target(r)
      OBVIOUS
    <2>2. PersonsOf(u) \subseteq PersonsOf(u)'
      BY <1>0, PersonsOfOnlyGrow
    <2>3. Target(r)' = u
      BY <1>0, <1>1, <2>1, ReachesRaw
    <2>4. CASE pc'[r] = pc[r] /\ loc'[r] = loc[r]
      BY <1>0, <1>1, <2>1, <2>2, <2>3, <2>4 DEF AsksOK, AskOK, PersonsOf
    <2>5. CASE loc'[r].people = PersonsOf(Target(r)) \cap Live(persons)
      BY <2>1, <2>2, <2>3, <2>5 DEF PersonsOf
    <2>6. QED BY <1>0, <1>1, <2>4, <2>5, ReachesRaw
  <1>2. ASSUME NEW r \in Req, pc'[r] = "enrichMark"
        PROVE  /\ raws'[loc'[r].raw].request \subseteq PersonsOf(Target(r))'
               /\ jobs'[loc'[r].raw].point = "unstarted"
               /\ \/ pc[r] = "enrichMark" /\ loc'[r] = loc[r] /\ loc[r].raw \in 1..Len(jobs)
                  \/ EnrichRaw(r) /\ loc'[r].raw = Len(jobs) + 1
    <2>1. PICK u : u = Target(r)
      OBVIOUS
    <2>2. PersonsOf(u) \subseteq PersonsOf(u)'
      BY <1>0, PersonsOfOnlyGrow
    <2>3. Target(r)' = u
      BY <1>0, <1>2, <2>1, ReachesRaw
    <2>4. CASE pc'[r] = pc[r] /\ loc'[r] = loc[r] /\ ~EnrichMark(r)
      <3>1. PICK j : j = loc[r].raw
        OBVIOUS
      <3>2. /\ j \in 1..Len(jobs) /\ jobs[j].point = "unstarted"
            /\ raws[j].request \subseteq PersonsOf(u)
            /\ \A q \in Req : pc[q] = "enrichMark" /\ loc[q].raw = j => q = r
        BY <1>0, <1>2, <2>1, <2>4, <3>1
           DEF AsksOK, AskOK, TypeInv, ControlOK, RequestControl
      <3>3. JobMove(j)
        BY <1>0, <3>2, JobMoves
      <3>4. ~(JobStep(j) \/ ThenFails(j))
        BY <3>2 DEF JobStep, Answered, CallFails, RecordResponse, InsertEnrichments, CatchRaw,
                    CompleteFound, FailOthers, CatchPersons, ThenFails, At, ThenPoints
      <3>5. ~ \E q \in Req : EnrichMark(q) /\ loc[q].raw = j
        BY <2>4, <3>2 DEF EnrichMark
      <3>6. jobs[j].point \notin Running
        BY <3>2 DEF Running, ThenPoints, CatchPoints
      <3>7. jobs'[j] = jobs[j] /\ raws'[j] = raws[j]
        BY <3>3, <3>4, <3>5, <3>6 DEF JobMove
      <3>8. QED BY <1>2, <2>2, <2>3, <2>4, <3>1, <3>2, <3>7 DEF PersonsOf
    <2>5. CASE /\ EnrichRaw(r) /\ UNCHANGED persons
               /\ loc'[r].raw = Len(jobs) + 1
               /\ raws'[Len(jobs) + 1].request = loc[r].people
               /\ jobs'[Len(jobs) + 1].point = "unstarted"
      <3>1. loc[r].people \subseteq PersonsOf(u)
        BY <1>0, <2>1, <2>5 DEF AsksOK, AskOK, EnrichRaw
      <3>2. QED BY <2>2, <2>3, <2>5, <3>1 DEF PersonsOf
    <2>6. QED BY <1>0, <1>2, <2>4, <2>5, ReachesRaw
  <1>3. ASSUME NEW r \in Req, NEW q \in Req, pc'[r] = "enrichMark", pc'[q] = "enrichMark",
               loc'[q].raw = loc'[r].raw
        PROVE  q = r
    <2>1. ASSUME NEW s \in Req, NEW t \in Req, EnrichRaw(s), s # t,
                 pc'[s] = "enrichMark", pc'[t] = "enrichMark"
          PROVE  loc'[t].raw # loc'[s].raw
      <3>1. pc'[t] = pc[t] /\ loc'[t] = loc[t] /\ pc[s] = "enrichRaw"
        BY <1>0, <2>1 DEF EnrichRaw, Goto, Keep, TypeInv, TypeOK
      <3>2. ~EnrichRaw(t)
        BY <2>1, <3>1 DEF EnrichRaw
      <3>3. loc'[t] = loc[t] /\ loc[t].raw \in 1..Len(jobs)
        BY <1>2, <2>1, <3>2
      <3>4. pc[s] # "enrichMark"
        BY <3>1
      <3>5. loc'[s].raw = Len(jobs) + 1
        BY <1>2, <2>1, <3>4
      <3>6. QED BY <1>0, <3>3, <3>5
    <2>2. CASE pc[r] = "enrichMark" /\ loc'[r] = loc[r] /\ pc[q] = "enrichMark" /\ loc'[q] = loc[q]
      BY <1>0, <1>3, <2>2 DEF AsksOK, AskOK
    <2>3. CASE EnrichRaw(r)
      BY <1>3, <2>1, <2>3
    <2>4. CASE EnrichRaw(q)
      BY <1>3, <2>1, <2>4
    <2>5. QED BY <1>2, <1>3, <2>2, <2>3, <2>4
  <1>4. ASSUME NEW r \in Req PROVE AskOK(r)'
    BY <1>1, <1>2, <1>3 DEF AskOK
  <1>5. QED BY <1>4 DEF AsksOK

LEMMA StatusJustifiedStep ==
    ASSUME EnrichInv, [Next]_vars, NoStatusEdits
    PROVE  StatusJustified'
  <1>0. /\ TypeInv /\ JobsOK /\ StatusJustified /\ RowsMarked' /\ enrichments \subseteq enrichments'
        /\ Len(persons) \in Nat /\ Len(jobs) \in Nat /\ Len(jobs') \in Nat
        /\ Len(jobs) <= Len(jobs') /\ persons' \in Seq(PersonRow)
    <2>1. TypeInv /\ TypeInv'
      BY StepTypeInv DEF EnrichInv
    <2>2. /\ enrichments \subseteq enrichments' /\ Len(jobs) \in Nat /\ Len(jobs') \in Nat
          /\ Len(jobs') = Len(jobs) \/ \E r \in Req : EnrichRaw(r)
      BY <2>1, JobMoves DEF TypeInv, TypeOK
    <2>3. Len(jobs) <= Len(jobs')
      <3>1. jobs \in Seq(Job)
        BY <2>1 DEF TypeInv, TypeOK
      <3>2. ASSUME NEW r \in Req, EnrichRaw(r) PROVE Len(jobs') = Len(jobs) + 1
        BY <3>1, <3>2 DEF EnrichRaw
      <3>3. QED BY <2>2, <3>2
    <2>4. QED BY <2>1, <2>2, <2>3, RowsMarkedStep DEF EnrichInv, TypeInv, TypeOK
  <1> SUFFICES ASSUME NEW p \in 1..Len(persons')
               PROVE  LET rows == {e \in enrichments' : e.person = p}
                          status == persons'[p].status
                      IN /\ status = "NoEnrichment" => persons'[p].deleted \/ rows = {}
                         /\ status = "Completed" => \E e \in rows : e.found
                         /\ status = "Failed" =>
                               \/ \E e \in rows : ~e.found
                               \/ \E j \in 1..Len(jobs') :
                                     /\ jobs'[j].upload = persons'[p].upload
                                     /\ raws'[j].response = "error"
    BY DEF StatusJustified
  <1> DEFINE rows == {e \in enrichments' : e.person = p}
  <1>1. persons'[p].status = "NoEnrichment" => persons'[p].deleted \/ rows = {}
    BY <1>0 DEF RowsMarked, Marked
  <1>2. CASE p \notin 1..Len(persons)
    <2>1. persons'[p].status = "NoEnrichment"
      BY <1>0, <1>2, NewPersonMoves
    <2>2. QED BY <1>1, <2>1
  <1>3. CASE p \in 1..Len(persons)
    <2>1. PersonMove(p)
      BY <1>0, <1>3, PersonMoves
    <2>2. ASSUME NEW j \in 1..Len(jobs), raws[j].response = "error"
          PROVE  raws'[j].response = "error" /\ jobs'[j].upload = jobs[j].upload
      <3>1. JobMove(j) /\ JobOK(j) /\ raws[j] \in RawRow /\ raws \in Seq(RawRow)
        BY <1>0, JobMoves DEF JobsOK, TypeInv, TypeOK
      <3>2. jobs[j].point # "record"
        BY <2>2, <3>1 DEF JobOK
      <3>3. CASE JobStep(j) \/ ThenFails(j)
        <4>1. ~RecordResponse(j)
          BY <3>2 DEF RecordResponse, At
        <4>2. CASE CatchRaw(j)
          <5>1. raws' = [raws EXCEPT ![j].response = "error"] /\ j \in 1..Len(raws)
            BY <1>0, <4>2 DEF CatchRaw, TypeInv, TypeOK
          <5>2. raws'[j].response = "error"
            BY <3>1, <5>1 DEF RawRow
          <5>3. QED BY <3>1, <5>2 DEF JobMove
        <4>3. CASE ~CatchRaw(j)
          <5>1. raws' = raws
            BY <3>3, <4>1, <4>3
               DEF JobStep, Answered, CallFails, InsertEnrichments, CompleteFound,
                   FailOthers, CatchPersons, ThenFails, tables
          <5>2. QED BY <2>2, <3>1, <5>1 DEF JobMove
        <4>4. QED BY <4>2, <4>3
      <3>4. QED BY <2>2, <3>1, <3>3 DEF JobMove
    <2>3. CASE persons'[p].status = persons[p].status
      <3>1. persons[p].status = "Completed" => \E e \in rows : e.found
        BY <1>0, <1>3 DEF StatusJustified
      <3>2. ASSUME persons[p].status = "Failed"
            PROVE  \/ \E e \in rows : ~e.found
                   \/ \E j \in 1..Len(jobs') : /\ jobs'[j].upload = persons'[p].upload
                                               /\ raws'[j].response = "error"
        <4>1. \/ \E e \in enrichments : e.person = p /\ ~e.found
              \/ \E j \in 1..Len(jobs) : /\ jobs[j].upload = persons[p].upload
                                         /\ raws[j].response = "error"
          BY <1>0, <1>3, <3>2 DEF StatusJustified
        <4>2. ASSUME NEW j \in 1..Len(jobs), jobs[j].upload = persons[p].upload,
                     raws[j].response = "error"
              PROVE  /\ j \in 1..Len(jobs') /\ jobs'[j].upload = persons'[p].upload
                     /\ raws'[j].response = "error"
          BY <1>0, <2>1, <2>2, <4>2 DEF PersonMove
        <4>3. QED BY <1>0, <4>1, <4>2
      <3>3. QED BY <1>1, <2>3, <3>1, <3>2
    <2>4. CASE StatusGiven(p)
      <3>1. ASSUME NEW j \in 1..Len(jobs), CompleteFound(j), p \in jobs[j].found,
                   persons'[p].status = "Completed"
            PROVE  \E e \in rows : e.found
        <4>1. [job |-> j, person |-> p, found |-> p \in jobs[j].found] \in enrichments
          BY <1>0, <3>1 DEF JobsOK, JobOK, CompleteFound, At
        <4>2. PICK e \in enrichments' :
                 e = [job |-> j, person |-> p, found |-> p \in jobs[j].found]
          BY <1>0, <4>1
        <4>3. e.person = p /\ e.found
          BY <3>1, <4>2
        <4>4. QED BY <4>3
      <3>2. ASSUME NEW j \in 1..Len(jobs), FailOthers(j), p \in raws[j].request \ jobs[j].found,
                   persons'[p].status = "Failed"
            PROVE  \E e \in rows : ~e.found
        <4>1. [job |-> j, person |-> p, found |-> p \in jobs[j].found] \in enrichments
          BY <1>0, <3>2 DEF JobsOK, JobOK, FailOthers, At
        <4>2. PICK e \in enrichments' :
                 e = [job |-> j, person |-> p, found |-> p \in jobs[j].found]
          BY <1>0, <4>1
        <4>3. e.person = p /\ ~e.found
          BY <3>2, <4>2
        <4>4. QED BY <4>3
      <3>3. ASSUME NEW j \in 1..Len(jobs), CatchPersons(j), p \in PersonsOf(jobs[j].upload)
            PROVE  \E k \in 1..Len(jobs') : /\ jobs'[k].upload = persons'[p].upload
                                            /\ raws'[k].response = "error"
        <4>1. raws[j].response = "error"
          BY <1>0, <3>3 DEF JobsOK, JobOK, CatchPersons, At
        <4>2. QED BY <1>0, <2>1, <2>2, <3>3, <4>1 DEF PersonMove, PersonsOf
      <3>4. QED BY <1>1, <2>4, <3>1, <3>2, <3>3 DEF StatusGiven
    <2>5. QED BY <2>1, <2>3, <2>4 DEF PersonMove
  <1>4. QED BY <1>2, <1>3
-----------------------------------------------------------------------------
LEMMA InitEnrichInv == Init => EnrichInv
  <1> SUFFICES ASSUME Init PROVE EnrichInv
    OBVIOUS
  <1>1. TypeInv
    BY InitTypeInv
  <1>2. JobsOK /\ RowsMarked /\ StatusJustified
    BY DEF Init, JobsOK, RowsMarked, StatusJustified
  <1>3. AsksOK
    BY DEF Init, AsksOK, AskOK, Idle
  <1>4. QED BY <1>1, <1>2, <1>3 DEF EnrichInv

LEMMA StepEnrichInv ==
    ASSUME NoStatusEdits
    PROVE  EnrichInv /\ [Next]_vars => EnrichInv'
  <1> SUFFICES ASSUME EnrichInv, [Next]_vars PROVE EnrichInv'
    OBVIOUS
  <1>1. TypeInv'
    BY StepTypeInv DEF EnrichInv
  <1>2. JobsOK' /\ RowsMarked' /\ AsksOK' /\ StatusJustified'
    BY JobsOKStep, RowsMarkedStep, AsksOKStep, StatusJustifiedStep
  <1>3. QED BY <1>1, <1>2 DEF EnrichInv

LEMMA SpecEnrichInv ==
    ASSUME NoStatusEdits
    PROVE  Spec => []EnrichInv
  <1>1. Init => EnrichInv
    BY InitEnrichInv
  <1>2. EnrichInv /\ [Next]_vars => EnrichInv'
    BY StepEnrichInv
  <1>3. QED BY <1>1, <1>2, PTL DEF Spec

\* What a person's status says did happen, whatever jobs of the upload overlap,
\* fail half-way or are lost, so long as no admin writes the status.
THEOREM StatusHasCause ==
    ASSUME NoStatusEdits
    PROVE  Spec => []StatusJustified
  <1>1. EnrichInv => StatusJustified
    BY DEF EnrichInv
  <1>2. Spec => []EnrichInv
    BY SpecEnrichInv
  <1>3. QED BY <1>1, <1>2, PTL
-----------------------------------------------------------------------------
(* Who is InProgress is owed by a chain, if the persons of an upload are      *)
(* those of its one save, which "rekey" can undo.                             *)

\* A request about to enrich knows a saved upload, whose persons alive are among
\* those it has read.
ReadyOK(r) ==
    /\ pc[r] \in {"enrichUser", "enrichCompany"} /\ loc[r].wasSaved
          => PersonsOf(Target(r)) # {}
    /\ pc[r] \in {"enrichPersons", "enrichRaw", "enrichMark"} => PersonsOf(Target(r)) # {}
    /\ pc[r] = "enrichRaw" => PersonsOf(Target(r)) \cap Live(persons) \subseteq loc[r].people
    /\ pc[r] = "enrichMark" =>
          PersonsOf(Target(r)) \cap Live(persons) \subseteq raws[loc[r].raw].request

RequestsReady == \A r \in Req : ReadyOK(r)
OwedInv == SaveInv /\ EnrichInv /\ RequestsReady /\ InProgressIsOwed

\* An upload that has persons gets no others, and none comes back to life.
LEMMA PersonsOfStay ==
    ASSUME SaveInv, [Next]_vars, NoStatusEdits, "rekey" \notin Edits,
           NEW u \in 1..Len(uploads), PersonsOf(u) # {}
    PROVE  /\ PersonsOf(u)' # {}
           /\ PersonsOf(u)' \cap Live(persons)' \subseteq PersonsOf(u) \cap Live(persons)
  <1>0. /\ TypeInv /\ RowsMatch /\ u # 0 /\ persons' \in Seq(PersonRow)
        /\ persons \in Seq(PersonRow)
    BY StepTypeInv DEF SaveInv, TypeInv, TypeOK
  <1>1. ~Insertable(u)
    <2>1. PICK p \in PersonsOf(u) : TRUE
      OBVIOUS
    <2>2. /\ p \in 1..Len(persons) /\ persons[p].row \in 1..Len(RowsOf(u))
          /\ persons[p].key = RowsOf(u)[persons[p].row]
          /\ persons[p].company = uploads[u].company
      BY <1>0, <2>1 DEF RowsMatch, PersonsOf
    <2>3. KeyTaken(RowsOf(u)[persons[p].row], uploads[u].company)
      BY <2>2 DEF KeyTaken
    <2>4. QED BY <2>2, <2>3 DEF Insertable, RowsOf
  <1>2. ASSUME NEW p \in PersonsOf(u)', p \notin PersonsOf(u) PROVE FALSE
    <2>1. PICK r \in Req : InsertsPersons(r) /\ Target(r) = u
      BY <1>0, <1>2, NewPersonOfSave
    <2>2. QED BY <1>1, <2>1 DEF InsertsPersons
  <1>3. ASSUME NEW p \in PersonsOf(u)' \cap Live(persons)'
        PROVE  p \in PersonsOf(u) \cap Live(persons)
    <2>1. p \in PersonsOf(u) /\ p \in 1..Len(persons)
      BY <1>2, <1>3 DEF PersonsOf
    <2>2. PersonMove(p)
      BY <1>0, <2>1, PersonMoves
    <2>3. persons'[p].deleted = FALSE
      BY <1>0, <1>3 DEF Live, PersonRow
    <2>4. QED BY <2>1, <2>2, <2>3 DEF PersonMove, Live
  <1>4. PersonsOf(u)' # {}
    BY <1>0, PersonsOfOnlyGrow
  <1>5. QED BY <1>3, <1>4

LEMMA RequestsReadyStep ==
    ASSUME OwedInv, [Next]_vars, NoStatusEdits, "rekey" \notin Edits
    PROVE  RequestsReady'
  <1>0. /\ SaveInv /\ EnrichInv /\ TypeInv /\ TypeOK /\ MarksFollow /\ RequestsReady
        /\ Len(jobs) \in Nat
    BY DEF OwedInv, SaveInv, TypeInv, TypeOK
  <1> SUFFICES ASSUME NEW r \in Req, pc'[r] \in EnrichPoints
               PROVE  ReadyOK(r)'
    BY DEF RequestsReady, ReadyOK, EnrichPoints
  <1>1. PICK u : u = Target(r)
    OBVIOUS
  <1>2. Target(r)' = u
    BY <1>0, <1>1, ReachesEnrich DEF Target
  <1>3. ReadyOK(r) /\ loc[r] \in Locals /\ RequestControl(r)
    BY <1>0 DEF RequestsReady, TypeInv, TypeOK, ControlOK
  <1>4. pc[r] \in EnrichPoints \cup {"saveMark"} => u \in 1..Len(uploads)
    BY <1>1, <1>3 DEF RequestControl, EnrichPoints, Points, CreatePoints, FindPoints
  <1>5. ASSUME u \in 1..Len(uploads), PersonsOf(u) # {}
        PROVE  /\ PersonsOf(u)' # {}
               /\ PersonsOf(u)' \cap Live(persons)' \subseteq PersonsOf(u) \cap Live(persons)
    BY <1>0, <1>5, PersonsOfStay
  <1> DEFINE people == PersonsOf(u) \cap Live(persons)
             Ready == /\ pc'[r] \in {"enrichUser", "enrichCompany"} /\ loc'[r].wasSaved
                            => PersonsOf(u)' # {}
                      /\ pc'[r] \in {"enrichPersons", "enrichRaw", "enrichMark"}
                            => PersonsOf(u)' # {}
                      /\ pc'[r] = "enrichRaw" => people' \subseteq loc'[r].people
                      /\ pc'[r] = "enrichMark" => people' \subseteq raws'[loc'[r].raw].request
  <1>6. Ready => ReadyOK(r)'
    BY <1>2 DEF ReadyOK, PersonsOf
  <1>7. CASE pc'[r] = pc[r] /\ loc'[r] = loc[r] /\ ~EnrichMark(r)
    <2>1. ASSUME pc[r] = "enrichMark"
          PROVE  raws'[loc'[r].raw].request = raws[loc[r].raw].request
      <3>1. loc[r].raw \in 1..Len(jobs)
        BY <1>3, <2>1 DEF RequestControl
      <3>2. JobMove(loc[r].raw)
        BY <1>0, <3>1, JobMoves
      <3>3. QED BY <1>7, <3>2 DEF JobMove
    <2>2. CASE PersonsOf(u) = {}
      BY <1>1, <1>3, <1>7, <2>2 DEF ReadyOK, EnrichPoints, Ready, people
    <2>3. CASE PersonsOf(u) # {}
      <3>1. u \in 1..Len(uploads)
        BY <1>4, <1>7
      <3>2. Ready
        BY <1>1, <1>3, <1>5, <1>7, <2>1, <2>3, <3>1 DEF ReadyOK
      <3>3. QED BY <1>6, <3>2
    <2>4. QED BY <1>6, <2>2, <2>3
  <1>8. CASE EnrichFind(r)
    <2>1. Target(r) \in Live(uploads) /\ pc'[r] = "enrichUser"
      BY <1>0, <1>8 DEF EnrichFind, Reject, Goto, TypeOK, EnrichPoints
    <2>2. loc'[r].wasSaved = uploads[u].isSaved
      BY <1>0, <1>1, <1>3, <1>8, <2>1 DEF EnrichFind, TypeOK, Locals
    <2>3. u \in 1..Len(uploads)
      BY <1>1, <2>1 DEF Live
    <2>4. uploads[u].isSaved => PersonsOf(u) # {}
      BY <1>0, <2>3 DEF MarksFollow
    <2>5. QED BY <1>5, <1>6, <2>1, <2>2, <2>3, <2>4
  <1>9. CASE EnrichUser(r)
    <2>1. pc'[r] = "enrichCompany" /\ loc' = loc /\ pc[r] = "enrichUser"
      BY <1>0, <1>9 DEF EnrichUser, Goto, TypeOK
    <2>2. loc[r].wasSaved => PersonsOf(u) # {} /\ u \in 1..Len(uploads)
      BY <1>1, <1>3, <1>4, <2>1 DEF ReadyOK, EnrichPoints
    <2>3. QED BY <1>5, <1>6, <2>1, <2>2
  <1>10. CASE EnrichCompany(r)
    <2>1. /\ pc'[r] = "enrichPersons" /\ loc[r].wasSaved /\ pc[r] = "enrichCompany"
      BY <1>0, <1>10 DEF EnrichCompany, Reject, Goto, TypeOK, EnrichPoints
    <2>2. PersonsOf(u) # {} /\ u \in 1..Len(uploads)
      BY <1>1, <1>3, <1>4, <2>1 DEF ReadyOK, EnrichPoints
    <2>3. QED BY <1>5, <1>6, <2>1, <2>2
  <1>11. CASE SaveMark(r)
    <2>1. pc'[r] = "enrichPersons" /\ pc[r] = "saveMark"
      BY <1>0, <1>11 DEF SaveMark, Reject, Finish, Goto, TypeOK, EnrichPoints
    <2>2. PersonsOf(u) # {} /\ u \in 1..Len(uploads)
      BY <1>0, <1>1, <1>4, <2>1 DEF MarksFollow
    <2>3. QED BY <1>5, <1>6, <2>1, <2>2
  <1>12. CASE EnrichPersons(r)
    <2>1. pc'[r] = "enrichRaw" /\ pc[r] = "enrichPersons" /\ persons' = persons
      BY <1>0, <1>12 DEF EnrichPersons, Goto, TypeOK, tables
    <2>2. loc'[r].people = people
      BY <1>0, <1>1, <1>3, <1>12 DEF EnrichPersons, Keep, TypeOK, Locals
    <2>3. PersonsOf(u) # {} /\ people' = people /\ PersonsOf(u)' = PersonsOf(u)
      BY <1>1, <1>3, <2>1 DEF ReadyOK, PersonsOf, Live
    <2>4. QED BY <1>6, <2>1, <2>2, <2>3
  <1>13. CASE EnrichRaw(r)
    <2>1. /\ pc'[r] = "enrichMark" /\ pc[r] = "enrichRaw" /\ persons' = persons
          /\ raws'[loc'[r].raw].request = loc[r].people
      BY <1>0, <1>3, <1>13 DEF EnrichRaw, CreateMany, Keep, Goto, TypeOK, Locals
    <2>2. PersonsOf(u) # {} /\ people \subseteq loc[r].people
      BY <1>1, <1>3, <2>1 DEF ReadyOK
    <2>3. people' = people /\ PersonsOf(u)' = PersonsOf(u)
      BY <2>1 DEF PersonsOf, Live
    <2>4. QED BY <1>6, <2>1, <2>2, <2>3
  <1>14. QED
    BY <1>0, <1>7, <1>8, <1>9, <1>10, <1>11, <1>12, <1>13, ReachesEnrich

\* A step of a chain leaves it owing, or settles.
LEMMA OwesStep ==
    ASSUME TypeInv, [Next]_vars, NoStatusEdits, NEW j \in 1..Len(jobs), JobOK(j),
           JobStep(j) \/ ThenFails(j), NEW p \in Live(persons), Owes(j, p),
           persons'[p].status = "InProgress"
    PROVE  Owes(j, p)'
  <1>0. /\ TypeOK /\ jobs \in Seq(Job) /\ jobs[j] \in Job
        /\ p \in 1..Len(persons) /\ persons[p] \in PersonRow
    BY DEF TypeInv, TypeOK, Live
  <1>1. JobMove(j)
    BY JobMoves
  <1>2. p \in raws'[j].request
    BY <1>1 DEF JobMove, Owes
  <1>3. ASSUME NEW point, Advance(j, point)
        PROVE  jobs'[j].point = point /\ jobs'[j].found = jobs[j].found
    BY <1>0, <1>3 DEF Advance, Job
  <1>4. ASSUME NEW where, NEW v, persons' = UpdateMany(persons, where, "status", v),
               v # "InProgress"
        PROVE  p \notin where
    BY <1>0, <1>4 DEF UpdateMany, PersonRow
  <1>5. CASE jobs'[j].point \in Running \ {"fail"}
    BY <1>2, <1>5 DEF Owes
  <1>6. CASE Answered(j)
    <2>1. jobs'[j].point = "record"
      BY <1>0, <1>6 DEF Answered, Job
    <2>2. QED BY <1>5, <2>1 DEF Running, ThenPoints
  <1>7. CASE CallFails(j) \/ RecordResponse(j) \/ InsertEnrichments(j) \/ CatchRaw(j)
               \/ ThenFails(j)
    <2>1. jobs'[j].point \in {"catchRaw", "insert", "complete", "catchPersons"}
      BY <1>3, <1>7 DEF CallFails, RecordResponse, InsertEnrichments, CatchRaw, ThenFails
    <2>2. QED BY <1>5, <2>1 DEF Running, ThenPoints, CatchPoints
  <1>8. CASE CompleteFound(j)
    <2>1. jobs'[j].point = "fail" /\ jobs'[j].found = jobs[j].found /\ p \notin jobs[j].found
      BY <1>3, <1>4, <1>8 DEF CompleteFound
    <2>2. QED BY <1>2, <2>1 DEF Owes
  <1>9. CASE FailOthers(j)
    <2>1. p \notin raws[j].request \ jobs[j].found /\ jobs[j].point = "fail"
      BY <1>4, <1>9 DEF FailOthers, At
    <2>2. QED BY <2>1 DEF Owes
  <1>10. CASE CatchPersons(j)
    <2>1. p \notin PersonsOf(jobs[j].upload)
      BY <1>4, <1>10 DEF CatchPersons
    <2>2. QED BY <2>1 DEF Owes, JobOK
  <1>11. QED BY <1>6, <1>7, <1>8, <1>9, <1>10 DEF JobStep

LEMMA InProgressIsOwedStep ==
    ASSUME OwedInv, [Next]_vars, NoStatusEdits
    PROVE  InProgressIsOwed'
  <1>0. /\ EnrichInv /\ TypeInv /\ TypeOK /\ JobsOK /\ AsksOK /\ RequestsReady
        /\ InProgressIsOwed /\ Len(jobs) \in Nat /\ persons' \in Seq(PersonRow)
        /\ jobs \in Seq(Job)
    BY StepTypeInv DEF OwedInv, EnrichInv, TypeInv, TypeOK
  <1>1. abrupt => abrupt'
    <2>1. ASSUME NEW r \in Req, Arrive(r) \/ Handle(r) \/ RequestFails(r)
          PROVE  abrupt => abrupt'
      BY <2>1
         DEF Handle, CreateSteps, DeleteSteps, SaveSteps, EnrichSteps, Arrive, RequestFails,
             CreateParse, CreateDuplicates, CreateUser, CreateInsert, DeleteFind,
             DeleteUpdate, SaveFind, SaveParse, SaveParseMissing, SaveInsert, SaveMark,
             EnrichFind, EnrichUser, EnrichCompany, EnrichPersons, EnrichRaw, EnrichMark,
             RequestOnly, Die
    <2>2. ASSUME NEW j \in 1..Len(jobs), JobStep(j) \/ JobFails(j)
          PROVE  abrupt => abrupt'
      BY <2>2
         DEF JobStep, JobFails, JobOnly, Answered, CallFails, RecordResponse,
             InsertEnrichments, CompleteFound, FailOthers, CatchRaw, CatchPersons, ThenFails,
             CatchFails, Die
    <2>3. CASE AdminEdit
      BY <2>3 DEF AdminEdit, EditOnly, CreatePerson, SetStatus, Rekey, DeletePerson,
                  AssignCompany, DeleteCompany
    <2>4. QED BY <2>1, <2>2, <2>3 DEF Next, Crash, Die, Quiet, vars
  <1> SUFFICES ASSUME ~abrupt', NEW p \in Live(persons)', persons'[p].status = "InProgress"
               PROVE  \E j \in 1..Len(jobs') : Owes(j, p)'
    BY DEF InProgressIsOwed
  <1>2. ~abrupt /\ ~Die
    BY <1>1 DEF Die
  <1>3. p \in 1..Len(persons') /\ persons'[p].deleted = FALSE
    BY <1>0 DEF Live, PersonRow
  <1>4. p \in 1..Len(persons)
    BY <1>0, <1>3, NewPersonMoves
  <1>5. PersonMove(p) /\ p \in Live(persons)
    <2>1. PersonMove(p)
      BY <1>0, <1>4, PersonMoves
    <2>2. QED BY <1>3, <1>4, <2>1 DEF PersonMove, Live
  <1>6. \A j \in 1..Len(jobs) : j \in 1..Len(jobs') /\ JobMove(j)
    <2>1. Len(jobs') = Len(jobs) \/ \E r \in Req : EnrichRaw(r)
      BY <1>0, JobMoves
    <2>2. ASSUME NEW r \in Req, EnrichRaw(r) PROVE Len(jobs') = Len(jobs) + 1
      BY <1>0, <2>2 DEF EnrichRaw
    <2>3. \A j \in 1..Len(jobs) : JobMove(j)
      BY <1>0, JobMoves
    <2>4. QED BY <1>0, <2>1, <2>2, <2>3
  <1>7. CASE persons'[p].status = persons[p].status
    <2>1. PICK j \in 1..Len(jobs) : Owes(j, p)
      BY <1>0, <1>2, <1>5, <1>7 DEF InProgressIsOwed
    <2>2. JobMove(j) /\ JobOK(j) /\ j \in 1..Len(jobs')
      BY <1>0, <1>6 DEF JobsOK
    <2>3. CASE jobs'[j] = jobs[j] /\ raws'[j] = raws[j]
      BY <2>1, <2>2, <2>3 DEF Owes
    <2>4. CASE JobStep(j) \/ ThenFails(j)
      BY <1>0, <1>5, <2>1, <2>2, <2>4, OwesStep
    <2>5. ASSUME NEW r \in Req, EnrichMark(r), loc[r].raw = j PROVE FALSE
      <3>1. jobs[j].point = "unstarted"
        BY <1>0, <2>5 DEF AsksOK, AskOK, EnrichMark
      <3>2. QED BY <2>1, <3>1 DEF Owes, Running, ThenPoints, CatchPoints
    <2>6. QED BY <1>2, <2>2, <2>3, <2>4, <2>5 DEF JobMove
  <1>8. ASSUME NEW r \in Req, EnrichMark(r), p \in PersonsOf(Target(r))
        PROVE  \E j \in 1..Len(jobs') : Owes(j, p)'
    <2>1. PICK j \in 1..Len(jobs) : j = loc[r].raw
      BY <1>0, <1>8 DEF EnrichMark, TypeInv, ControlOK, RequestControl
    <2>2. p \in raws[j].request
      BY <1>0, <1>5, <1>8, <2>1 DEF RequestsReady, ReadyOK, EnrichMark
    <2>3. jobs' = [jobs EXCEPT ![j].point = "calling"] /\ raws' = raws
      BY <1>2, <1>8, <2>1 DEF EnrichMark
    <2>4. jobs'[j].point = "calling"
      BY <1>0, <2>3 DEF Job
    <2>5. QED BY <1>6, <2>2, <2>3, <2>4 DEF Owes, Running
  <1>9. CASE StatusGiven(p)
    BY <1>8, <1>9 DEF StatusGiven
  <1>10. QED BY <1>5, <1>7, <1>9 DEF PersonMove

\* Short of a crash or a lost reply, nobody is left InProgress without a chain
\* that will settle it, whatever other chains of the upload do, so long as no
\* admin writes a status or a key.
THEOREM InProgressHasJob ==
    ASSUME NoStatusEdits, "rekey" \notin Edits
    PROVE  Spec => []InProgressIsOwed
  <1>1. Init => OwedInv
    <2> SUFFICES ASSUME Init PROVE OwedInv
      OBVIOUS
    <2>1. RequestsReady /\ InProgressIsOwed
      BY DEF Init, RequestsReady, ReadyOK, InProgressIsOwed, Live, Idle
    <2>2. QED BY <2>1, InitSaveInv, InitEnrichInv DEF OwedInv
  <1>2. OwedInv /\ [Next]_vars => OwedInv'
    <2> SUFFICES ASSUME OwedInv, [Next]_vars PROVE OwedInv'
      OBVIOUS
    <2>1. SaveInv' /\ EnrichInv'
      BY StepSaveInv, StepEnrichInv DEF OwedInv
    <2>2. RequestsReady' /\ InProgressIsOwed'
      BY RequestsReadyStep, InProgressIsOwedStep
    <2>3. QED BY <2>1, <2>2 DEF OwedInv
  <1>3. OwedInv => InProgressIsOwed
    BY DEF OwedInv
  <1>4. QED BY <1>1, <1>2, <1>3, PTL DEF Spec
-----------------------------------------------------------------------------
(* ExecutiveUpload implements UploadLifecycle, for any number of requests,    *)
(* uploads, rows, chains, failures and crashes, so long as no admin writes a  *)
(* person's key.                                                              *)

\* The stages, as the invariant of saving leaves them: none is corrupt.
StageIs(u) ==
    /\ u > Len(uploads) => StageOf(u) = "absent" /\ PersonsOf(u) = {}
    /\ ~(u > Len(uploads)) =>
          /\ u \in 1..Len(uploads)
          /\ PersonsOf(u) = {} => StageOf(u) = "created" /\ ~uploads[u].isSaved
          /\ PersonsOf(u) # {} =>
                StageOf(u) = IF uploads[u].isSaved THEN "saved" ELSE "inserted"
StagesAre == \A u \in Nat \ {0} : StageIs(u)

LEMMA Stages == SaveInv => StagesAre
  <1> SUFFICES ASSUME SaveInv, NEW u \in Nat \ {0} PROVE StageIs(u)
    BY DEF StagesAre
  <1>0. /\ TypeInv /\ Len(uploads) \in Nat /\ KeysUnique /\ RowsMatch /\ AllOrNone
        /\ MarksFollow
    BY DEF SaveInv, TypeInv, TypeOK
  <1>1. CASE u > Len(uploads)
    <2>1. PersonsOf(u) = {}
      BY <1>0, <1>1 DEF RowsMatch, PersonsOf
    <2>2. StageOf(u) = "absent"
      BY <1>1 DEF StageOf
    <2>3. QED BY <1>1, <2>1, <2>2 DEF StageIs
  <1>2. CASE ~(u > Len(uploads))
    <2>1. u \in 1..Len(uploads)
      BY <1>0, <1>2
    <2>2. PersonsOf(u) = {} => ~uploads[u].isSaved
      BY <1>0, <2>1 DEF MarksFollow
    <2>3. ASSUME PersonsOf(u) # {}, NEW i \in 1..Len(RowsOf(u))
          PROVE  Cardinality({p \in PersonsOf(u) : persons[p].row = i}) = 1
      <3>1. PICK p \in PersonsOf(u) : persons[p].row = i
        BY <1>0, <2>1, <2>3 DEF AllOrNone
      <3>2. ASSUME NEW q \in PersonsOf(u), persons[q].row = i PROVE q = p
        <4>1. /\ p \in 1..Len(persons) /\ q \in 1..Len(persons)
              /\ persons[p].upload = u /\ persons[q].upload = u /\ u # 0
          BY DEF PersonsOf
        <4>2. /\ persons[p].key = RowsOf(u)[i] /\ persons[p].company = uploads[u].company
              /\ persons[q].key = RowsOf(u)[i] /\ persons[q].company = uploads[u].company
          BY <1>0, <3>1, <3>2, <4>1 DEF RowsMatch
        <4>3. QED BY <1>0, <4>1, <4>2 DEF KeysUnique
      <3>3. {q \in PersonsOf(u) : persons[q].row = i} = {p}
        BY <3>1, <3>2
      <3>4. QED BY <3>3, FS_Singleton
    <2>4. CASE PersonsOf(u) = {}
      BY <1>2, <2>1, <2>2, <2>4 DEF StageOf, StageIs
    <2>5. CASE PersonsOf(u) # {}
      <3>1. StageOf(u) = IF uploads[u].isSaved THEN "saved" ELSE "inserted"
        BY <1>2, <2>3, <2>5 DEF StageOf, RowsOf
      <3>2. QED BY <1>2, <2>1, <2>5, <3>1 DEF StageIs
    <2>6. QED BY <2>4, <2>5
  <1>3. QED BY <1>1, <1>2

LEMMA NextStages == SaveInv' => StagesAre'
  BY Stages, PTL

\* No upload is unmarked again.
LEMMA SavedStays ==
    ASSUME TypeInv, [Next]_vars, NEW u \in 1..Len(uploads), uploads[u].isSaved
    PROVE  uploads'[u].isSaved
  <1>0. uploads \in Seq(UploadRow) /\ uploads[u] \in UploadRow /\ Len(uploads) \in Nat
    BY DEF TypeInv, TypeOK
  <1>1. CASE UNCHANGED uploads
    BY <1>1
  <1>2. ASSUME NEW r \in Req, CreateInsert(r) PROVE uploads'[u].isSaved
    BY <1>0, <1>2 DEF CreateInsert, CreateMany
  <1>3. ASSUME NEW where, NEW col \in {"isSaved", "deleted"},
               uploads' = UpdateMany(uploads, where, col, TRUE)
        PROVE  uploads'[u].isSaved
    <2>1. uploads'[u] \in {uploads[u], [uploads[u] EXCEPT ![col] = TRUE]}
      BY <1>3 DEF UpdateMany
    <2>2. QED BY <1>0, <1>3, <2>1 DEF UploadRow
  <1>4. ASSUME NEW r \in Req, DeleteUpdate(r) \/ SaveMark(r) PROVE uploads'[u].isSaved
    BY <1>3, <1>4 DEF DeleteUpdate, DeleteMany, SaveMark
  <1>5. ASSUME NEW r \in Req, Arrive(r) \/ Handle(r) \/ RequestFails(r)
        PROVE  uploads'[u].isSaved
    BY <1>1, <1>2, <1>4, <1>5
       DEF Handle, CreateSteps, DeleteSteps, SaveSteps, EnrichSteps, Arrive, RequestFails,
           CreateParse, CreateDuplicates, CreateUser, DeleteFind, SaveFind, SaveParse,
           SaveParseMissing, SaveInsert, EnrichFind, EnrichUser, EnrichCompany,
           EnrichPersons, EnrichRaw, EnrichMark, Die, tables
  <1>6. ASSUME NEW j \in 1..Len(jobs), JobStep(j) \/ JobFails(j)
        PROVE  uploads'[u].isSaved
    BY <1>1, <1>6
       DEF JobStep, JobFails, Answered, CallFails, RecordResponse, InsertEnrichments,
           CompleteFound, FailOthers, CatchRaw, CatchPersons, ThenFails, CatchFails, Die,
           tables
  <1>7. CASE AdminEdit
    BY <1>1, <1>7 DEF AdminEdit, EditOnly, CreatePerson, SetStatus, Rekey, DeletePerson,
                      AssignCompany, DeleteCompany
  <1>8. CASE Crash \/ UNCHANGED vars
    BY <1>1, <1>8 DEF Crash, Die, tables, vars
  <1>9. QED BY <1>5, <1>6, <1>7, <1>8 DEF Next, Quiet
-----------------------------------------------------------------------------
(* Which uploads may be enriched.                                             *)

\* A chain is of a saved upload, and so is a request that may come to make one.
SavedReady ==
    /\ \A j \in 1..Len(jobs) : /\ jobs[j].upload \in 1..Len(uploads)
                               /\ uploads[jobs[j].upload].isSaved
    /\ \A r \in Req :
          /\ pc[r] \in {"enrichPersons", "enrichRaw"} => uploads[Target(r)].isSaved
          /\ pc[r] \in {"enrichUser", "enrichCompany"} /\ loc[r].wasSaved
                => uploads[Target(r)].isSaved

LifecycleInv == SaveInv /\ SavedReady

\* The steps that write the chains.
LEMMA ChainSteps ==
    ASSUME [Next]_vars
    PROVE  \/ UNCHANGED jobs
           \/ \E r \in Req : EnrichRaw(r) \/ EnrichMark(r)
           \/ \E j \in 1..Len(jobs) : JobStep(j) \/ ThenFails(j)
           \/ Die
  <1>1. ASSUME NEW r \in Req, Arrive(r) \/ Handle(r) \/ RequestFails(r)
        PROVE  UNCHANGED jobs \/ EnrichRaw(r) \/ EnrichMark(r) \/ Die
    BY <1>1
       DEF Handle, CreateSteps, DeleteSteps, SaveSteps, EnrichSteps, Arrive, RequestFails,
           CreateParse, CreateDuplicates, CreateUser, CreateInsert, DeleteFind, DeleteUpdate,
           SaveFind, SaveParse, SaveParseMissing, SaveInsert, SaveMark, EnrichFind, EnrichUser,
           EnrichCompany, EnrichPersons, RequestOnly
  <1>2. ASSUME NEW j \in 1..Len(jobs), JobStep(j) \/ JobFails(j)
        PROVE  JobStep(j) \/ ThenFails(j) \/ Die
    BY <1>2 DEF JobFails, CatchFails
  <1>3. CASE AdminEdit
    BY <1>3 DEF AdminEdit, EditOnly, CreatePerson, SetStatus, Rekey, DeletePerson,
                AssignCompany, DeleteCompany
  <1>4. CASE Crash \/ UNCHANGED vars
    BY <1>4 DEF Crash, vars
  <1>5. QED BY <1>1, <1>2, <1>3, <1>4 DEF Next, Quiet

\* A chain stays with its upload, and only enriching makes one.
LEMMA ChainsStay ==
    ASSUME TypeInv, [Next]_vars
    PROVE  /\ \A j \in 1..Len(jobs) : jobs'[j].upload = jobs[j].upload
           /\ Len(jobs') = Len(jobs) \/ \E r \in Req : EnrichRaw(r)
  <1>0. jobs \in Seq(Job) /\ Len(jobs) \in Nat /\ Len(jobs) = Len(raws)
    BY DEF TypeInv, TypeOK
  <1>1. ASSUME NEW r \in Req, EnrichRaw(r)
        PROVE  \A j \in 1..Len(jobs) : jobs'[j].upload = jobs[j].upload
    BY <1>0, <1>1 DEF EnrichRaw
  <1>2. ASSUME NEW r \in Req, EnrichMark(r)
        PROVE  /\ Len(jobs') = Len(jobs)
               /\ \A j \in 1..Len(jobs) : jobs'[j].upload = jobs[j].upload
    <2>1. loc[r].raw \in 1..Len(jobs)
      BY <1>2 DEF EnrichMark, TypeInv, ControlOK, RequestControl
    <2>2. UNCHANGED jobs \/ jobs' = [jobs EXCEPT ![loc[r].raw].point = "calling"]
      BY <1>2 DEF EnrichMark
    <2>3. ASSUME jobs' = [jobs EXCEPT ![loc[r].raw].point = "calling"]
          PROVE  /\ Len(jobs') = Len(jobs)
                 /\ \A j \in 1..Len(jobs) : jobs'[j].upload = jobs[j].upload
      <3>1. \A j \in 1..Len(jobs) : j # loc[r].raw => jobs'[j] = jobs[j]
        BY <1>0, <2>1, <2>3
      <3>2. jobs'[loc[r].raw] = [jobs[loc[r].raw] EXCEPT !.point = "calling"]
        BY <1>0, <2>1, <2>3
      <3>3. jobs'[loc[r].raw].upload = jobs[loc[r].raw].upload
        BY <1>0, <2>1, <3>2 DEF Job
      <3>4. Len(jobs') = Len(jobs)
        BY <1>0, <2>3
      <3>5. QED BY <3>1, <3>3, <3>4
    <2>4. QED BY <2>2, <2>3
  <1>3. ASSUME NEW k \in 1..Len(jobs), JobStep(k) \/ ThenFails(k)
        PROVE  /\ Len(jobs') = Len(jobs)
               /\ \A j \in 1..Len(jobs) : jobs'[j].upload = jobs[j].upload
    BY <1>3, OwnJobMoves DEF JobMove
  <1>4. CASE Die
    <2>1. Len(jobs') = Len(jobs)
      BY <1>0, <1>4 DEF Die
    <2>2. ASSUME NEW j \in 1..Len(jobs) PROVE jobs'[j].upload = jobs[j].upload
      <3>1. jobs[j] \in Job
        BY <1>0
      <3>2. jobs'[j] = IF jobs[j].point \in Running
                       THEN [jobs[j] EXCEPT !.point = "lost"] ELSE jobs[j]
        BY <1>4 DEF Die
      <3>3. QED BY <3>1, <3>2 DEF Job
    <2>3. QED BY <2>1, <2>2
  <1>5. QED BY <1>0, <1>1, <1>2, <1>3, <1>4, ChainSteps

LEMMA SavedReadyStep ==
    ASSUME LifecycleInv, [Next]_vars, "rekey" \notin Edits
    PROVE  SavedReady'
  <1>0. /\ SaveInv /\ TypeInv /\ TypeOK /\ SavedReady /\ SaveInv' /\ TypeInv' /\ TypeOK'
        /\ Len(uploads) \in Nat /\ Len(uploads') \in Nat /\ Len(uploads) <= Len(uploads')
        /\ Len(jobs) \in Nat /\ Len(jobs') \in Nat /\ jobs \in Seq(Job) /\ Len(jobs) = Len(raws)
    <2>1. SaveInv /\ TypeInv /\ TypeOK /\ SavedReady
      BY DEF LifecycleInv, SaveInv, TypeInv
    <2>2. SaveInv' /\ TypeInv' /\ TypeOK'
      BY <2>1, StepSaveInv DEF SaveInv, TypeInv
    <2>3. Len(uploads) <= Len(uploads')
      BY <2>1, UploadsStep DEF UploadRowsKept
    <2>4. QED BY <2>1, <2>2, <2>3 DEF TypeOK
  <1>1. ASSUME NEW u \in 1..Len(uploads), uploads[u].isSaved
        PROVE  u \in 1..Len(uploads') /\ uploads'[u].isSaved
    BY <1>0, <1>1, SavedStays
  <1>2. ASSUME NEW j \in 1..Len(jobs')
        PROVE  jobs'[j].upload \in 1..Len(uploads') /\ uploads'[jobs'[j].upload].isSaved
    <2>1. CASE j \in 1..Len(jobs)
      <3>1. jobs'[j].upload = jobs[j].upload
        BY <1>0, <2>1, ChainsStay
      <3>2. jobs[j].upload \in 1..Len(uploads) /\ uploads[jobs[j].upload].isSaved
        BY <1>0, <2>1 DEF SavedReady
      <3>3. QED BY <1>1, <3>1, <3>2
    <2>2. CASE j \notin 1..Len(jobs)
      <3>1. PICK r \in Req : EnrichRaw(r)
        BY <1>0, <2>2, ChainsStay
      <3>2. Len(jobs') = Len(jobs) + 1 /\ jobs'[Len(jobs) + 1].upload = Target(r)
        BY <1>0, <3>1 DEF EnrichRaw
      <3>3. Target(r) \in 1..Len(uploads)
        BY <1>0, <3>1 DEF EnrichRaw, TypeInv, ControlOK, RequestControl, Points,
                          CreatePoints, FindPoints
      <3>4. uploads[Target(r)].isSaved
        BY <1>0, <3>1 DEF EnrichRaw, SavedReady
      <3>5. QED BY <1>0, <1>1, <2>2, <3>2, <3>3, <3>4
    <2>3. QED BY <2>1, <2>2
  <1>3. ASSUME NEW r \in Req,
               \/ pc'[r] \in {"enrichPersons", "enrichRaw"}
               \/ pc'[r] \in {"enrichUser", "enrichCompany"} /\ loc'[r].wasSaved
        PROVE  uploads'[Target(r)'].isSaved
    <2>1. pc'[r] \in EnrichPoints
      BY <1>3 DEF EnrichPoints
    <2>2. Target(r)' = Target(r)
      BY <1>0, <2>1, ReachesEnrich DEF Target
    <2>3. RequestControl(r) /\ loc[r] \in Locals
      BY <1>0 DEF TypeInv, TypeOK, ControlOK
    <2>4. /\ pc[r] \in {"enrichPersons", "enrichRaw"} => uploads[Target(r)].isSaved
          /\ pc[r] \in {"enrichUser", "enrichCompany"} /\ loc[r].wasSaved
                => uploads[Target(r)].isSaved
      BY <1>0 DEF SavedReady
    <2>5. pc[r] \in EnrichPoints \cup {"saveMark"} => Target(r) \in 1..Len(uploads)
      BY <2>3 DEF RequestControl, EnrichPoints, Points, CreatePoints, FindPoints
    <2>6. Target(r) \in 1..Len(uploads) /\ uploads[Target(r)].isSaved
             => uploads'[Target(r)'].isSaved
      BY <1>1, <2>2
    <2>7. CASE pc'[r] = pc[r] /\ loc'[r] = loc[r]
      BY <1>3, <2>4, <2>5, <2>6, <2>7 DEF EnrichPoints
    <2>8. CASE EnrichFind(r)
      <3>1. Target(r) \in Live(uploads) /\ pc'[r] = "enrichUser"
        BY <1>0, <2>1, <2>8 DEF EnrichFind, Reject, Goto, TypeOK, EnrichPoints
      <3>2. loc'[r].wasSaved = uploads[Target(r)].isSaved
        BY <1>0, <2>3, <2>8, <3>1 DEF EnrichFind, TypeOK, Locals
      <3>3. Target(r) \in 1..Len(uploads)
        BY <3>1 DEF Live
      <3>4. QED BY <1>3, <2>6, <3>1, <3>2, <3>3
    <2>9. CASE EnrichUser(r)
      <3>1. pc'[r] = "enrichCompany" /\ loc' = loc /\ pc[r] = "enrichUser"
        BY <1>0, <2>9 DEF EnrichUser, Goto, TypeOK
      <3>2. QED BY <1>3, <2>4, <2>5, <2>6, <3>1 DEF EnrichPoints
    <2>10. CASE EnrichCompany(r)
      <3>1. loc[r].wasSaved /\ pc[r] = "enrichCompany"
        BY <1>0, <2>1, <2>10 DEF EnrichCompany, Reject, Goto, TypeOK, EnrichPoints
      <3>2. QED BY <2>4, <2>5, <2>6, <3>1 DEF EnrichPoints
    <2>11. CASE SaveMark(r)
      <3>1. Target(r) \in Live(uploads)
        BY <1>0, <2>1, <2>11 DEF SaveMark, Reject, Goto, TypeOK, EnrichPoints
      <3>2. uploads[Target(r)] \in UploadRow
        BY <1>0, <3>1 DEF Live, TypeOK
      <3>3. uploads'[Target(r)] = [uploads[Target(r)] EXCEPT !["isSaved"] = TRUE]
        BY <2>11, <3>1 DEF SaveMark, UpdateMany, Live
      <3>4. QED BY <2>2, <3>2, <3>3 DEF UploadRow
    <2>12. CASE EnrichPersons(r)
      <3>1. pc[r] = "enrichPersons"
        BY <2>12 DEF EnrichPersons
      <3>2. QED BY <2>4, <2>5, <2>6, <3>1 DEF EnrichPoints
    <2>13. CASE EnrichRaw(r)
      <3>1. pc[r] = "enrichRaw"
        BY <2>13 DEF EnrichRaw
      <3>2. QED BY <2>4, <2>5, <2>6, <3>1 DEF EnrichPoints
    <2>14. QED
      BY <1>0, <2>1, <2>7, <2>8, <2>9, <2>10, <2>11, <2>12, <2>13, ReachesEnrich
  <1>4. QED BY <1>2, <1>3 DEF SavedReady

LEMMA SpecLifecycleInv ==
    ASSUME "rekey" \notin Edits
    PROVE  Spec => []LifecycleInv
  <1>1. Init => LifecycleInv
    BY InitSaveInv DEF LifecycleInv, SavedReady, Init, Idle
  <1>2. LifecycleInv /\ [Next]_vars => LifecycleInv'
    BY StepSaveInv, SavedReadyStep DEF LifecycleInv
  <1>3. QED BY <1>1, <1>2, PTL DEF Spec
-----------------------------------------------------------------------------
(* How the stages move.                                                       *)

\* A step that leaves what a stage is read from leaves the stage.
LEMMA StageStays ==
    ASSUME StagesAre, StagesAre', NEW u \in Nat \ {0}, Len(uploads') = Len(uploads),
           (PersonsOf(u)' = {}) <=> (PersonsOf(u) = {}),
           u \in 1..Len(uploads) => uploads'[u].isSaved = uploads[u].isSaved
    PROVE  StageOf(u)' = StageOf(u)
  <1>1. StageIs(u) /\ StageIs(u)'
    BY DEF StagesAre
  <1>2. QED BY <1>1 DEF StageIs

\* A stage, read off the tables before and after a step.
LEMMA StageReads ==
    ASSUME StagesAre, NEW u \in Nat \ {0}
    PROVE  /\ u > Len(uploads) => StageOf(u) = "absent"
           /\ ~(u > Len(uploads)) /\ PersonsOf(u) = {} => StageOf(u) = "created"
           /\ ~(u > Len(uploads)) /\ PersonsOf(u) # {} /\ uploads[u].isSaved = FALSE
                 => StageOf(u) = "inserted"
           /\ ~(u > Len(uploads)) /\ PersonsOf(u) # {} /\ uploads[u].isSaved = TRUE
                 => StageOf(u) = "saved"
  BY DEF StagesAre, StageIs

LEMMA NextStageReads ==
    ASSUME StagesAre', NEW u \in Nat \ {0}
    PROVE  /\ u > Len(uploads') => StageOf(u)' = "absent"
           /\ ~(u > Len(uploads')) /\ PersonsOf(u)' = {} => StageOf(u)' = "created"
           /\ ~(u > Len(uploads')) /\ PersonsOf(u)' # {} /\ uploads'[u].isSaved = FALSE
                 => StageOf(u)' = "inserted"
           /\ ~(u > Len(uploads')) /\ PersonsOf(u)' # {} /\ uploads'[u].isSaved = TRUE
                 => StageOf(u)' = "saved"
  BY DEF StagesAre, StageIs

StagesStay == \A u \in Nat \ {0} : StageOf(u)' = StageOf(u)
OnlyMoves(u, from, to) ==
    /\ StageOf(u) = from /\ StageOf(u)' = to
    /\ \A v \in Nat \ {0} : v # u => StageOf(v)' = StageOf(v)

LEMMA CreateMoves ==
    ASSUME SaveInv, SaveInv', NEW r \in Req, CreateInsert(r)
    PROVE  /\ UNCHANGED jobs
           /\ \E u \in Nat \ {0} : OnlyMoves(u, "absent", "created")
  <1>0. /\ TypeOK /\ uploads \in Seq(UploadRow) /\ Len(uploads) \in Nat
        /\ StagesAre /\ StagesAre'
    BY Stages, NextStages DEF SaveInv, TypeInv, TypeOK
  <1>1. /\ Len(uploads') = Len(uploads) + 1 /\ persons' = persons /\ jobs' = jobs
        /\ \A u \in 1..Len(uploads) : uploads'[u] = uploads[u]
    BY <1>0 DEF CreateInsert, CreateMany, RequestOnly
  <1>2. ASSUME NEW u \in Nat \ {0} PROVE StageIs(u) /\ StageIs(u)' /\ PersonsOf(u)' = PersonsOf(u)
    BY <1>0, <1>1 DEF StagesAre, PersonsOf
  <1>3. ASSUME NEW u \in Nat \ {0}, u # Len(uploads) + 1
        PROVE  StageOf(u)' = StageOf(u)
    BY <1>0, <1>1, <1>2, <1>3 DEF StageIs
  <1>4. PICK u \in Nat \ {0} : u = Len(uploads) + 1
    BY <1>0
  <1>5. StageOf(u) = "absent" /\ StageOf(u)' = "created"
    <2>1. u > Len(uploads) /\ ~(u > Len(uploads'))
      BY <1>0, <1>1, <1>4
    <2>2. PersonsOf(u) = {} /\ PersonsOf(u)' = {}
      BY <1>2, <2>1 DEF StageIs
    <2>3. QED BY <1>0, <2>1, <2>2, StageReads, NextStageReads
  <1>6. OnlyMoves(u, "absent", "created")
    BY <1>3, <1>4, <1>5 DEF OnlyMoves
  <1>7. QED BY <1>1, <1>6

\* Rows that can be inserted are not there yet.
LEMMA InsertableHasNone ==
    ASSUME SaveInv, NEW u \in 1..Len(uploads), Insertable(u)
    PROVE  PersonsOf(u) = {}
  <1>1. ASSUME NEW p \in PersonsOf(u) PROVE FALSE
    <2>1. u # 0 /\ RowsMatch
      BY DEF SaveInv, TypeInv, TypeOK
    <2>2. /\ p \in 1..Len(persons) /\ persons[p].row \in 1..Len(RowsOf(u))
          /\ persons[p].key = RowsOf(u)[persons[p].row]
          /\ persons[p].company = uploads[u].company
      BY <2>1 DEF RowsMatch, PersonsOf
    <2>3. KeyTaken(RowsOf(u)[persons[p].row], uploads[u].company)
      BY <2>2 DEF KeyTaken
    <2>4. QED BY <2>2, <2>3 DEF Insertable, RowsOf
  <1>2. QED BY <1>1

LEMMA InsertMoves ==
    ASSUME SaveInv, SaveInv', [Next]_vars, "rekey" \notin Edits, NEW r \in Req, InsertsPersons(r)
    PROVE  /\ UNCHANGED jobs
           /\ \E u \in Nat \ {0} : OnlyMoves(u, "created", "inserted")
  <1>0. /\ TypeInv /\ TypeOK /\ persons \in Seq(PersonRow) /\ Len(persons) \in Nat
        /\ StagesAre /\ StagesAre' /\ Len(uploads) \in Nat /\ FilesHaveRows
        /\ uploads \in Seq(UploadRow)
    <2>1. /\ TypeInv /\ TypeOK /\ persons \in Seq(PersonRow) /\ uploads \in Seq(UploadRow)
          /\ FilesHaveRows
      BY DEF SaveInv, TypeInv, TypeOK
    <2>2. StagesAre /\ StagesAre'
      BY Stages, NextStages
    <2>3. QED BY <2>1, <2>2
  <1>1. /\ Target(r) \in 1..Len(uploads) /\ uploads' = uploads /\ jobs' = jobs
        /\ Insertable(Target(r))
    BY <1>0, InsertedRows DEF InsertsPersons, SaveInsert, RequestOnly
  <1>2. PICK u \in 1..Len(uploads) : u = Target(r)
    BY <1>1
  <1>3. PersonsOf(u) = {}
    BY <1>1, <1>2, InsertableHasNone
  <1>4. PersonsOf(u)' # {}
    <2>1. /\ RowsOf(u) \in Seq(Keys) /\ Len(persons') = Len(persons) + Len(RowsOf(u))
      BY <1>0, <1>2, InsertedRows
    <2>2. Len(RowsOf(u)) \in Nat /\ Len(RowsOf(u)) > 0
      BY <1>0, <2>1 DEF FilesHaveRows
    <2>3. 1 \in 1..Len(RowsOf(u))
      BY <2>2
    <2>4. persons'[Len(persons) + 1].upload = u
      <3>1. persons' = persons \o NewPersons(u)
        BY <1>2 DEF InsertsPersons, CreateMany
      <3>2. NewPersons(u) \in Seq(PersonRow) /\ Len(NewPersons(u)) = Len(RowsOf(u))
        BY <1>0, NewPersonsType DEF RowsOf
      <3>3. persons'[Len(persons) + 1] = NewPersons(u)[1]
        BY <1>0, <2>2, <3>1, <3>2
      <3>4. NewPersons(u)[1].upload = u
        BY <2>3 DEF NewPersons, RowsOf
      <3>5. QED BY <3>3, <3>4
    <2>5. Len(persons) + 1 \in 1..Len(persons')
      BY <1>0, <2>1, <2>2
    <2>6. QED BY <2>4, <2>5 DEF PersonsOf
  <1>5. ASSUME NEW v \in Nat \ {0}, v # u PROVE StageOf(v)' = StageOf(v)
    <2>1. PersonsOf(v) \subseteq PersonsOf(v)'
      BY <1>0, PersonsOfGrow
    <2>2. PersonsOf(v)' \subseteq PersonsOf(v)
      <3>1. ASSUME NEW p \in 1..Len(persons'), p \notin 1..Len(persons)
            PROVE  persons'[p].upload = u
        <4>1. persons' = persons \o NewPersons(u)
          BY <1>2 DEF InsertsPersons, CreateMany
        <4>2. NewPersons(u) \in Seq(PersonRow) /\ Len(NewPersons(u)) = Len(RowsOf(u))
          BY <1>0, NewPersonsType DEF RowsOf
        <4>3. p - Len(persons) \in 1..Len(RowsOf(u)) /\ persons'[p] = NewPersons(u)[p - Len(persons)]
          BY <1>0, <3>1, <4>1, <4>2
        <4>4. QED BY <4>3 DEF NewPersons, RowsOf
      <3>2. \A p \in 1..Len(persons) : persons'[p] = persons[p]
        BY <1>0, InsertedRows
      <3>3. QED BY <1>5, <3>1, <3>2 DEF PersonsOf
    <2>3. QED BY <1>0, <1>1, <2>1, <2>2, StageStays
  <1>6. StageOf(u) = "created" /\ StageOf(u)' = "inserted"
    <2>1. u \in Nat \ {0} /\ ~(u > Len(uploads))
      BY <1>0
    <2>2. uploads[u].isSaved = FALSE /\ ~(u > Len(uploads')) /\ uploads'[u].isSaved = FALSE
      <3>1. ~uploads[u].isSaved
        BY <1>0, <1>3, <2>1 DEF StagesAre, StageIs
      <3>2. uploads[u] \in UploadRow
        BY <1>0
      <3>3. QED BY <1>1, <2>1, <3>1, <3>2 DEF UploadRow
    <2>3. QED BY <1>0, <1>3, <1>4, <2>1, <2>2, StageReads, NextStageReads
  <1>7. OnlyMoves(u, "created", "inserted")
    BY <1>5, <1>6 DEF OnlyMoves
  <1>8. u \in Nat \ {0}
    BY <1>0
  <1>9. QED BY <1>1, <1>7, <1>8

LEMMA MarkMoves ==
    ASSUME SaveInv, SaveInv', NEW r \in Req, SaveMark(r)
    PROVE  /\ UNCHANGED jobs
           /\ StagesStay \/ \E u \in Nat \ {0} : OnlyMoves(u, "inserted", "saved")
  <1>0. /\ TypeInv /\ TypeOK /\ uploads \in Seq(UploadRow) /\ Len(uploads) \in Nat
        /\ StagesAre /\ StagesAre' /\ MarksFollow
    <2>1. TypeInv /\ MarksFollow
      BY DEF SaveInv
    <2>2. TypeOK
      BY <2>1 DEF TypeInv
    <2>3. uploads \in Seq(UploadRow)
      BY <2>2 DEF TypeOK
    <2>4. StagesAre /\ StagesAre'
      BY Stages, NextStages
    <2>5. QED BY <2>1, <2>2, <2>3, <2>4
  <1>1. /\ Target(r) \in 1..Len(uploads) /\ pc[r] = "saveMark"
        /\ persons' = persons /\ jobs' = jobs
        /\ uploads' = UpdateMany(uploads, {Target(r)}, "isSaved", TRUE)
    BY <1>0 DEF SaveMark, TypeInv, ControlOK, RequestControl, Points, CreatePoints,
                FindPoints, RequestOnly
  <1>2. PICK u \in 1..Len(uploads) : u = Target(r)
    BY <1>1
  <1>3. /\ Len(uploads') = Len(uploads)
        /\ \A v \in 1..Len(uploads) : v # u => uploads'[v] = uploads[v]
        /\ uploads'[u] \in {uploads[u], [uploads[u] EXCEPT !["isSaved"] = TRUE]}
    BY <1>0, <1>1, <1>2 DEF UpdateMany
  <1>4. \A v \in Nat \ {0} : PersonsOf(v)' = PersonsOf(v)
    BY <1>1 DEF PersonsOf
  <1>5. ASSUME NEW v \in Nat \ {0}, v # u PROVE StageOf(v)' = StageOf(v)
    BY <1>0, <1>3, <1>4, <1>5, StageStays
  <1>6. u \in Nat \ {0} /\ ~(u > Len(uploads)) /\ PersonsOf(u) # {}
    BY <1>0, <1>1, <1>2 DEF MarksFollow
  <1>7. CASE uploads'[u].isSaved = uploads[u].isSaved
    <2>1. StageOf(u)' = StageOf(u)
      BY <1>0, <1>3, <1>4, <1>6, <1>7, StageStays
    <2>2. QED BY <1>1, <1>2, <1>5, <1>6, <2>1 DEF StagesStay
  <1>8. CASE uploads'[u].isSaved # uploads[u].isSaved
    <2>1. uploads[u] \in UploadRow
      BY <1>0
    <2>2. uploads'[u].isSaved = TRUE /\ uploads[u].isSaved = FALSE
      BY <1>3, <1>8, <2>1 DEF UploadRow
    <2>3. ~(u > Len(uploads')) /\ PersonsOf(u)' # {}
      BY <1>3, <1>4, <1>6
    <2>4. StageOf(u) = "inserted" /\ StageOf(u)' = "saved"
      BY <1>0, <1>6, <2>2, <2>3, StageReads, NextStageReads
    <2>5. OnlyMoves(u, "inserted", "saved")
      BY <1>5, <2>4 DEF OnlyMoves
    <2>6. QED BY <1>1, <1>6, <2>5
  <1>9. QED BY <1>7, <1>8

\* Nothing else moves a stage.
LEMMA OthersStay ==
    ASSUME SaveInv, SaveInv', [Next]_vars, "rekey" \notin Edits,
           \A r \in Req : ~CreateInsert(r) /\ ~InsertsPersons(r) /\ ~SaveMark(r)
    PROVE  StagesStay
  <1>0. TypeInv /\ StagesAre /\ StagesAre' /\ Len(uploads') = Len(uploads)
    BY UploadsStep, Stages, NextStages DEF SaveInv
  <1> SUFFICES ASSUME NEW u \in Nat \ {0} PROVE StageOf(u)' = StageOf(u)
    BY DEF StagesStay
  <1>1. PersonsOf(u) \subseteq PersonsOf(u)'
    BY <1>0, PersonsOfGrow
  <1>2. ASSUME NEW p \in PersonsOf(u)', p \notin PersonsOf(u) PROVE FALSE
    BY <1>0, <1>2, NewPersonOfSave
  <1>3. u \in 1..Len(uploads) => uploads'[u].isSaved = uploads[u].isSaved
    <2>1. ASSUME u \in 1..Len(uploads) PROVE uploads[u].isSaved \in BOOLEAN /\ uploads'[u].isSaved \in BOOLEAN
      <3>1. uploads \in Seq(UploadRow) /\ uploads' \in Seq(UploadRow)
        BY DEF SaveInv, TypeInv, TypeOK
      <3>2. uploads[u] \in UploadRow /\ uploads'[u] \in UploadRow
        BY <1>0, <2>1, <3>1
      <3>3. QED BY <3>2 DEF UploadRow
    <2>2. ASSUME u \in 1..Len(uploads) PROVE uploads'[u].isSaved <=> uploads[u].isSaved
      BY <1>0, <2>2, UploadsStep, SavedStays
    <2>3. QED BY <2>1, <2>2
  <1>4. QED BY <1>0, <1>1, <1>2, <1>3, StageStays
-----------------------------------------------------------------------------
(* How the chains move.                                                       *)

RunningSet(u) == {j \in 1..Len(jobs) : jobs[j].upload = u /\ jobs[j].point \in Running}

LEMMA RunningIsFinite ==
    ASSUME TypeInv, NEW u
    PROVE  IsFiniteSet(RunningSet(u)) /\ RunningJobs(u) = Cardinality(RunningSet(u))
  <1>1. Len(jobs) \in Nat
    BY DEF TypeInv, TypeOK
  <1>2. IsFiniteSet(1..Len(jobs))
    BY <1>1, FS_Interval
  <1>3. RunningSet(u) \subseteq 1..Len(jobs)
    BY DEF RunningSet
  <1>4. IsFiniteSet(RunningSet(u))
    BY <1>2, <1>3, FS_Subset
  <1>5. QED BY <1>4 DEF RunningJobs, RunningSet

\* The chains of an upload that run: as many, one more of upload u, one less.
CountsStay == \A u \in UploadIds : RunningJobs(u)' = RunningJobs(u)
Starts(u) ==
    /\ RunningJobs(u)' = RunningJobs(u) + 1
    /\ \A v \in UploadIds : v # u => RunningJobs(v)' = RunningJobs(v)
Ends(u) ==
    /\ RunningJobs(u) > 0 /\ RunningJobs(u)' = RunningJobs(u) - 1
    /\ \A v \in UploadIds : v # u => RunningJobs(v)' = RunningJobs(v)

\* When one chain moves.
LEMMA OneChain ==
    ASSUME TypeInv, TypeInv', NEW j \in 1..Len(jobs), NEW u, jobs[j].upload = u,
           Len(jobs') = Len(jobs), jobs'[j].upload = u,
           \A k \in 1..Len(jobs) : k # j => jobs'[k] = jobs[k]
    PROVE  /\ (jobs[j].point \in Running <=> jobs'[j].point \in Running) => CountsStay
           /\ jobs[j].point \notin Running /\ jobs'[j].point \in Running => Starts(u)
           /\ jobs[j].point \in Running /\ jobs'[j].point \notin Running => Ends(u)
  <1>1. ASSUME NEW v
        PROVE  /\ IsFiniteSet(RunningSet(v)) /\ RunningJobs(v) = Cardinality(RunningSet(v))
               /\ RunningJobs(v)' = Cardinality(RunningSet(v)')
    BY RunningIsFinite DEF RunningJobs, RunningSet
  <1>2. ASSUME NEW v, v # u PROVE RunningJobs(v)' = RunningJobs(v)
    <2>1. RunningSet(v)' = RunningSet(v)
      BY <1>2 DEF RunningSet
    <2>2. QED BY <1>1, <2>1
  <1>3. ASSUME jobs[j].point \in Running <=> jobs'[j].point \in Running PROVE CountsStay
    <2>1. RunningSet(u)' = RunningSet(u)
      BY <1>3 DEF RunningSet
    <2>2. RunningJobs(u)' = RunningJobs(u)
      BY <1>1, <2>1
    <2>3. QED BY <1>2, <2>2 DEF CountsStay
  <1>4. ASSUME jobs[j].point \notin Running, jobs'[j].point \in Running PROVE Starts(u)
    <2>1. RunningSet(u)' = RunningSet(u) \cup {j} /\ j \notin RunningSet(u)
      BY <1>4 DEF RunningSet
    <2>2. Cardinality(RunningSet(u)') = Cardinality(RunningSet(u)) + 1
      BY <1>1, <2>1, FS_AddElement
    <2>3. RunningJobs(u)' = RunningJobs(u) + 1
      BY <1>1, <2>2
    <2>4. QED BY <1>2, <2>3 DEF Starts
  <1>5. ASSUME jobs[j].point \in Running, jobs'[j].point \notin Running PROVE Ends(u)
    <2>1. RunningSet(u)' = RunningSet(u) \ {j} /\ j \in RunningSet(u)
      BY <1>5 DEF RunningSet
    <2>2. Cardinality(RunningSet(u)') = Cardinality(RunningSet(u)) - 1
      BY <1>1, <2>1, FS_RemoveElement
    <2>3. Cardinality(RunningSet(u)) \in Nat /\ Cardinality(RunningSet(u)) # 0
      BY <1>1, <2>1, FS_CardinalityType, FS_EmptySet
    <2>4. RunningJobs(u)' = RunningJobs(u) - 1 /\ RunningJobs(u) > 0
      BY <1>1, <2>2, <2>3
    <2>5. QED BY <1>2, <2>4 DEF Ends
  <1>6. QED BY <1>3, <1>4, <1>5

\* A chain starts only for a saved upload.
LEMMA ChainsMove ==
    ASSUME LifecycleInv, [Next]_vars, "rekey" \notin Edits
    PROVE  \/ CountsStay
           \/ \E u \in 1..Len(uploads) : uploads[u].isSaved /\ Starts(u)
           \/ \E u \in 1..Len(uploads) : Ends(u)
           \/ \A u \in UploadIds : RunningJobs(u)' = 0
  <1>0. /\ TypeInv /\ TypeInv' /\ jobs \in Seq(Job) /\ Len(jobs) = Len(raws)
        /\ Len(jobs) \in Nat /\ SavedReady
    BY StepTypeInv DEF LifecycleInv, SaveInv, TypeInv, TypeOK
  <1> DEFINE Goal == \/ CountsStay
                     \/ \E u \in 1..Len(uploads) : uploads[u].isSaved /\ Starts(u)
                     \/ \E u \in 1..Len(uploads) : Ends(u)
                     \/ \A u \in UploadIds : RunningJobs(u)' = 0
  <1>1. CASE UNCHANGED jobs
    BY <1>1 DEF CountsStay, RunningJobs
  <1>2. ASSUME NEW j \in 1..Len(jobs), Len(jobs') = Len(jobs), jobs'[j].upload = jobs[j].upload,
               \A k \in 1..Len(jobs) : k # j => jobs'[k] = jobs[k]
        PROVE  Goal
    <2>1. jobs[j].upload \in 1..Len(uploads) /\ uploads[jobs[j].upload].isSaved
      BY <1>0 DEF SavedReady
    <2>2. PICK u \in 1..Len(uploads) : u = jobs[j].upload /\ uploads[u].isSaved
      BY <2>1
    <2>3. CountsStay \/ Starts(u) \/ Ends(u)
      BY <1>0, <1>2, <2>2, OneChain
    <2>4. QED BY <2>2, <2>3
  <1>3. ASSUME NEW j \in 1..Len(jobs), JobStep(j) \/ ThenFails(j) PROVE Goal
    <2>1. \A point : Advance(j, point) =>
             /\ Len(jobs') = Len(jobs) /\ jobs'[j].upload = jobs[j].upload
             /\ \A k \in 1..Len(jobs) : k # j => jobs'[k] = jobs[k]
      BY <1>0 DEF Advance, Job
    <2>2. Answered(j) =>
             /\ Len(jobs') = Len(jobs) /\ jobs'[j].upload = jobs[j].upload
             /\ \A k \in 1..Len(jobs) : k # j => jobs'[k] = jobs[k]
      BY <1>0 DEF Answered, Job
    <2>3. /\ Len(jobs') = Len(jobs) /\ jobs'[j].upload = jobs[j].upload
          /\ \A k \in 1..Len(jobs) : k # j => jobs'[k] = jobs[k]
      BY <1>3, <2>1, <2>2
         DEF JobStep, CallFails, RecordResponse, InsertEnrichments, CatchRaw, CompleteFound,
             FailOthers, CatchPersons, ThenFails
    <2>4. QED BY <1>2, <2>3
  <1>4. ASSUME NEW r \in Req, EnrichRaw(r) PROVE Goal
    <2>1. /\ Len(jobs') = Len(jobs) + 1 /\ jobs'[Len(jobs) + 1].point = "unstarted"
          /\ \A k \in 1..Len(jobs) : jobs'[k] = jobs[k]
      BY <1>0, <1>4 DEF EnrichRaw
    <2>2. "unstarted" \notin Running
      BY DEF Running, ThenPoints, CatchPoints
    <2>3. ASSUME NEW u \in UploadIds PROVE RunningSet(u)' = RunningSet(u)
      BY <1>0, <2>1, <2>2 DEF RunningSet
    <2>4. \A u \in UploadIds : RunningJobs(u)' = RunningJobs(u)
      BY <2>3 DEF RunningJobs, RunningSet
    <2>5. QED BY <2>4 DEF CountsStay
  <1>5. ASSUME NEW r \in Req, EnrichMark(r) PROVE Goal
    <2>1. loc[r].raw \in 1..Len(jobs)
      BY <1>0, <1>5 DEF EnrichMark, TypeInv, ControlOK, RequestControl
    <2>2. PICK j \in 1..Len(jobs) : j = loc[r].raw
      BY <2>1
    <2>3. CASE jobs' = [jobs EXCEPT ![loc[r].raw].point = "calling"]
      <3>1. /\ Len(jobs') = Len(jobs) /\ jobs'[j].upload = jobs[j].upload
            /\ \A k \in 1..Len(jobs) : k # j => jobs'[k] = jobs[k]
        BY <1>0, <2>2, <2>3 DEF Job
      <3>2. QED BY <1>2, <3>1
    <2>4. QED BY <1>1, <1>5, <2>3 DEF EnrichMark
  <1>6. CASE Die
    <2>1. \A j \in 1..Len(jobs') : jobs'[j].point \notin Running
      <3>1. SUFFICES ASSUME NEW j \in 1..Len(jobs) PROVE jobs'[j].point \notin Running
        BY <1>0, <1>6 DEF Die
      <3>2. jobs[j] \in Job
        BY <1>0
      <3>3. jobs'[j] = IF jobs[j].point \in Running
                       THEN [jobs[j] EXCEPT !.point = "lost"] ELSE jobs[j]
        BY <1>6 DEF Die
      <3>4. "lost" \notin Running
        BY DEF Running, ThenPoints, CatchPoints
      <3>5. QED BY <3>2, <3>3, <3>4 DEF Job
    <2>2. ASSUME NEW u \in UploadIds PROVE RunningJobs(u)' = 0
      <3>1. RunningSet(u)' = {}
        BY <2>1 DEF RunningSet
      <3>2. QED BY <3>1, FS_EmptySet DEF RunningJobs, RunningSet
    <2>3. QED BY <2>2
  <1>7. QED BY <1>1, <1>3, <1>4, <1>5, <1>6, ChainSteps
-----------------------------------------------------------------------------
(* The refinement.                                                            *)

LEMMA InitLifecycle == Init => Lifecycle!Init
  <1> SUFFICES ASSUME Init PROVE Lifecycle!Init
    OBVIOUS
  <1>1. SaveInv /\ StagesAre /\ TypeInv /\ uploads = InitUploads
    BY InitSaveInv, Stages DEF SaveInv, Init
  <1>2. ASSUME NEW u \in UploadIds, u \in Nat \ {0}
        PROVE  StageOf(u) \in {"absent", "created"} /\ RunningJobs(u) = 0
    <2>1. PersonsOf(u) = {} /\ RunningSet(u) = {}
      BY DEF Init, PersonsOf, RunningSet
    <2>2. RunningJobs(u) = 0
      BY <1>1, <2>1, RunningIsFinite, FS_EmptySet
    <2>3. QED BY <1>1, <1>2, <2>1, <2>2, StageReads
  <1>3. UploadIds \subseteq Nat \ {0}
    BY DEF UploadIds
  <1>4. QED BY <1>2, <1>3 DEF Lifecycle!Init

LEMMA NextLifecycle ==
    ASSUME LifecycleInv, [Next]_vars, "rekey" \notin Edits
    PROVE  [Lifecycle!Next]_Lifecycle!vars
  <1> DEFINE stage == [u \in UploadIds |-> StageOf(u)]
             running == [u \in UploadIds |-> RunningJobs(u)]
             Goal == [Lifecycle!Next]_Lifecycle!vars
  <1>0. /\ SaveInv /\ SaveInv' /\ TypeInv /\ StagesAre /\ Len(uploads) \in Nat
    BY StepSaveInv, Stages DEF LifecycleInv, SaveInv, TypeInv, TypeOK
  <1>1. UploadIds \subseteq Nat \ {0}
    BY DEF UploadIds
  <1>2. UNCHANGED jobs => running' = running
    BY DEF RunningJobs
  <1>3. StagesStay => stage' = stage
    BY <1>1 DEF StagesStay
  <1>4. ASSUME NEW u \in Nat \ {0}, NEW from, NEW to, OnlyMoves(u, from, to), UNCHANGED jobs,
               <<from, to>> \in {<<"absent", "created">>, <<"created", "inserted">>,
                                <<"inserted", "saved">>}
        PROVE  Goal
    <2>1. CASE u \in UploadIds
      <3>1. stage[u] = from /\ stage' = [stage EXCEPT ![u] = to] /\ running' = running
        BY <1>1, <1>2, <1>4, <2>1 DEF OnlyMoves
      <3>2. Lifecycle!Create(u) \/ Lifecycle!Insert(u) \/ Lifecycle!MarkSaved(u)
        BY <1>4, <3>1
           DEF Lifecycle!Create, Lifecycle!Insert, Lifecycle!MarkSaved, Lifecycle!Become
      <3>3. QED BY <2>1, <3>2 DEF Lifecycle!Next
    <2>2. CASE u \notin UploadIds
      <3>1. stage' = stage /\ running' = running
        BY <1>1, <1>2, <1>4, <2>2 DEF OnlyMoves
      <3>2. QED BY <3>1 DEF Lifecycle!vars
    <2>3. QED BY <2>1, <2>2
  <1>5. ASSUME NEW r \in Req, CreateInsert(r) \/ InsertsPersons(r) \/ SaveMark(r) PROVE Goal
    <2>1. UNCHANGED jobs
      BY <1>0, <1>5, CreateMoves, InsertMoves, MarkMoves
    <2>2. CASE \E u \in Nat \ {0} : \/ OnlyMoves(u, "absent", "created")
                                    \/ OnlyMoves(u, "created", "inserted")
                                    \/ OnlyMoves(u, "inserted", "saved")
      BY <1>4, <2>1, <2>2
    <2>3. CASE StagesStay
      BY <1>2, <1>3, <2>1, <2>3 DEF Lifecycle!vars
    <2>4. QED BY <1>0, <1>5, <2>2, <2>3, CreateMoves, InsertMoves, MarkMoves
  <1>6. ASSUME StagesStay PROVE Goal
    <2>1. stage' = stage
      BY <1>3, <1>6
    <2>2. CASE CountsStay
      BY <2>1, <2>2 DEF CountsStay, Lifecycle!vars
    <2>3. ASSUME NEW u \in 1..Len(uploads), uploads[u].isSaved, Starts(u) PROVE Goal
      <3>1. CASE u \in UploadIds
        <4>1. PersonsOf(u) # {} /\ ~(u > Len(uploads)) /\ u \in Nat \ {0}
          BY <1>0, <2>3 DEF SaveInv, MarksFollow
        <4>2. stage[u] = "saved"
          BY <1>0, <2>3, <3>1, <4>1 DEF StagesAre, StageIs
        <4>3. running' = [running EXCEPT ![u] = running[u] + 1]
          BY <2>3, <3>1 DEF Starts
        <4>4. Lifecycle!StartJob(u)
          BY <2>1, <4>2, <4>3 DEF Lifecycle!StartJob
        <4>5. QED BY <3>1, <4>4 DEF Lifecycle!Next
      <3>2. CASE u \notin UploadIds
        BY <2>1, <2>3, <3>2 DEF Starts, Lifecycle!vars
      <3>3. QED BY <3>1, <3>2
    <2>4. ASSUME NEW u \in 1..Len(uploads), Ends(u) PROVE Goal
      <3>1. CASE u \in UploadIds
        <4>1. running[u] > 0 /\ running' = [running EXCEPT ![u] = running[u] - 1]
          BY <2>4, <3>1 DEF Ends
        <4>2. Lifecycle!EndJob(u)
          BY <2>1, <4>1 DEF Lifecycle!EndJob
        <4>3. QED BY <3>1, <4>2 DEF Lifecycle!Next
      <3>2. CASE u \notin UploadIds
        BY <2>1, <2>4, <3>2 DEF Ends, Lifecycle!vars
      <3>3. QED BY <3>1, <3>2
    <2>5. CASE \A u \in UploadIds : RunningJobs(u)' = 0
      BY <2>1, <2>5 DEF Lifecycle!Crash, Lifecycle!Next
    <2>6. QED BY <2>2, <2>3, <2>4, <2>5, ChainsMove
  <1>7. QED BY <1>0, <1>5, <1>6, OthersStay

\* The service implements the lifecycle: rows go in once and together, the mark
\* comes after them and is never taken back, and only a saved upload is enriched,
\* however requests and chains interleave, fail and die.
THEOREM ServiceImplementsLifecycle ==
    ASSUME "rekey" \notin Edits
    PROVE  Spec => ImplementsLifecycle
  <1>1. Init => Lifecycle!Init
    BY InitLifecycle
  <1>2. LifecycleInv /\ [Next]_vars => [Lifecycle!Next]_Lifecycle!vars
    BY NextLifecycle
  <1>3. Spec => []LifecycleInv
    BY SpecLifecycleInv
  <1>4. QED BY <1>1, <1>2, <1>3, PTL DEF Spec, ImplementsLifecycle, Lifecycle!Spec
=============================================================================
