--------------------------- MODULE ResourcesProofs ---------------------------
(* What find-then-write requests keep, for any number of requests and rows.   *)
EXTENDS Resources, TLAPS

Ops == {"create", "detail", "update", "delete"}
Statuses == {0, 200, 201, 204, 404, 409, 500}
ReqType == [pc : {"find", "write", "replied"}, op : Ops, id : Nat, row : RowType,
            status : Statuses]

\* What a request has learnt: it has no answer before it has replied, it asks
\* for an undeleted row, and an answered delete has deleted its row.
RequestOK(r) ==
    /\ ~At(r, "replied") => req[r].status = 0
    /\ ~req[r].row.deleted
    /\ req[r].op = "delete" /\ req[r].status = 204 =>
         req[r].id \in DOMAIN rows /\ rows[req[r].id].deleted

IInv == TypeOK /\ KeysAreUnique /\ DeletedOnce /\ \A r \in Req : RequestOK(r)
-----------------------------------------------------------------------------
\* An update writes live rows only and keeps the number of rows.
LEMMA UpdateManyRows ==
    ASSUME NEW t \in Seq(RowType), NEW where, NEW col, NEW v
    PROVE  /\ DOMAIN UpdateMany(t, where, col, v) = DOMAIN t
           /\ \A i \in DOMAIN t : t[i].deleted => UpdateMany(t, where, col, v)[i] = t[i]
  BY DEF UpdateMany, Live

\* A delete of one live row marks that row and leaves the others.
LEMMA DeleteOne ==
    ASSUME NEW t \in Seq(RowType), NEW id \in Live(t)
    PROVE  /\ DeleteMany(t, {id}) = [t EXCEPT ![id] = [@ EXCEPT !.deleted = TRUE]]
           /\ DeleteMany(t, {id}) \in Seq(RowType)
           /\ Live(DeleteMany(t, {id})) = Live(t) \ {id}
  <1>1. id \in DOMAIN t /\ t[id] \in RowType /\ DOMAIN t = 1..Len(t)
    BY DEF Live
  <1> DEFINE row == [t[id] EXCEPT !.deleted = TRUE]
  <1>2. row \in RowType /\ row.deleted
    BY <1>1 DEF RowType
  <1>3. DeleteMany(t, {id}) = [t EXCEPT ![id] = row]
    BY <1>1 DEF DeleteMany, UpdateMany, Live
  <1>4. [t EXCEPT ![id] = row] \in Seq(RowType) /\ Len([t EXCEPT ![id] = row]) = Len(t)
    BY <1>1, <1>2
  <1>5. QED BY <1>1, <1>2, <1>3, <1>4 DEF Live

\* An insert appends its row.
LEMMA InsertOne ==
    ASSUME NEW t \in Seq(RowType), NEW row \in RowType
    PROVE  CreateMany(t, <<row>>) = Append(t, row)
  BY DEF CreateMany

\* Writing the columns of a body gives a row of the same table, deleted or not
\* as it was.
LEMMA UpdatedRow ==
    ASSUME NEW row \in RowType, NEW body \in RowType
    PROVE  /\ Updated(row, body) \in RowType
           /\ Updated(row, body).deleted = row.deleted
           /\ Updated(row, body).kind = row.kind
  BY DEF RowType, Updated

LEMMA SameKeySymmetric ==
    ASSUME NEW a \in RowType, NEW b \in RowType, SameKey(a, b)
    PROVE  SameKey(b, a)
  BY DEF SameKey
-----------------------------------------------------------------------------
LEMMA InitIInv == Init => IInv
  <1> SUFFICES ASSUME Init PROVE IInv
    OBVIOUS
  <1>1. \A r \in Req : \E a \in Asked : req[r] = Start(a)
    BY DEF Init
  <1>2. \A a \in Asked : /\ Start(a) \in ReqType /\ ~Start(a).row.deleted
                         /\ Start(a).status = 0
    BY InputsAreTyped DEF Start, ReqType, AskType, Ops, Statuses
  <1>3. req \in [Req -> ReqType]
    <2>1. req = [r \in Req |-> req[r]]
      BY DEF Init
    <2>2. QED BY <1>1, <1>2, <2>1
  <1>4. TypeOK
    BY <1>3, InputsAreTyped DEF Init, TypeOK, ReqType, Ops, Statuses
  <1>5. KeysAreUnique
    BY InitKeysAreUnique DEF Init, KeysAreUnique
  <1>6. \A r \in Req : req[r].status = 0 /\ ~req[r].row.deleted
    BY <1>1, <1>2
  <1>7. QED BY <1>4, <1>5, <1>6 DEF IInv, DeletedOnce, RequestOK

LEMMA ReqTyped == TypeOK <=> rows \in Seq(RowType) /\ req \in [Req -> ReqType] /\ faults \in Nat
  BY DEF TypeOK, ReqType, Ops, Statuses

\* A request goes on, or is answered.
Moves(r) ==
    \/ At(r, "find") /\ Goto(r, "write")
    \/ \E status \in Statuses : Reply(r, status)

\* A request that moves stays of its type and keeps what it asks; the others
\* are left alone.
LEMMA MovedRequests ==
    ASSUME TypeOK, NEW r \in Req, Moves(r)
    PROVE  /\ req' \in [Req -> ReqType]
           /\ \A s \in Req \ {r} : req'[s] = req[s]
           /\ \A s \in Req : /\ req'[s].op = req[s].op /\ req'[s].id = req[s].id
                             /\ req'[s].row = req[s].row
  <1>1. req \in [Req -> ReqType]
    BY ReqTyped
  <1>2. CASE At(r, "find") /\ Goto(r, "write")
    <2> DEFINE moved == [req[r] EXCEPT !.pc = "write"]
    <2>1. moved \in ReqType /\ moved.op = req[r].op /\ moved.id = req[r].id
          /\ moved.row = req[r].row
      BY <1>1 DEF ReqType
    <2>2. req' = [req EXCEPT ![r] = moved]
      BY <1>1, <1>2 DEF Goto
    <2>3. QED BY <1>1, <2>1, <2>2
  <1>3. ASSUME NEW status \in Statuses, Reply(r, status)
        PROVE  /\ req' \in [Req -> ReqType]
               /\ \A s \in Req \ {r} : req'[s] = req[s]
               /\ \A s \in Req : /\ req'[s].op = req[s].op /\ req'[s].id = req[s].id
                                 /\ req'[s].row = req[s].row
    <2> DEFINE moved == [req[r] EXCEPT !.pc = "replied", !.status = status]
    <2>1. moved \in ReqType /\ moved.op = req[r].op /\ moved.id = req[r].id
          /\ moved.row = req[r].row
      BY <1>1 DEF ReqType
    <2>2. req' = [req EXCEPT ![r] = moved]
      BY <1>1, <1>3 DEF Reply
    <2>3. QED BY <1>1, <2>1, <2>2
  <1>4. QED BY <1>2, <1>3 DEF Moves

\* The status of the request that moves.
LEMMA MovedStatus ==
    ASSUME TypeOK, NEW r \in Req
    PROVE  /\ Goto(r, "write") => req'[r].status = req[r].status /\ req'[r].pc = "write"
           /\ \A status \in Statuses :
                Reply(r, status) => req'[r].status = status /\ req'[r].pc = "replied"
  BY ReqTyped DEF Goto, Reply, ReqType

\* A step that leaves the rows alone and answers with no 204 keeps the invariant.
LEMMA QuietStep ==
    ASSUME IInv, NEW r \in Req, UNCHANGED rows, faults' \in Nat,
           \/ At(r, "find") /\ Goto(r, "write")
           \/ \E status \in Statuses \ {204} : Reply(r, status)
    PROVE  IInv'
  <1>1. TypeOK /\ Moves(r)
    BY DEF IInv, Moves
  <1>2. req' \in [Req -> ReqType] /\ \A s \in Req \ {r} : req'[s] = req[s]
    BY <1>1, MovedRequests
  <1>3. \A s \in Req : req'[s].op = req[s].op /\ req'[s].id = req[s].id
                       /\ req'[s].row = req[s].row
    BY <1>1, MovedRequests
  <1>4. \A s \in Req : req'[s].status = 204 => req[s].status = 204
    BY <1>1, <1>2, MovedStatus
  <1>5. \A s \in Req : req'[s].pc # "replied" => req'[s].status = 0
    BY <1>1, <1>2, MovedStatus DEF IInv, RequestOK, At
  <1>6. TypeOK'
    BY <1>1, <1>2, ReqTyped DEF TypeOK, ReqType, Ops, Statuses
  <1>7. KeysAreUnique' /\ DeletedOnce'
    BY <1>3, <1>4 DEF IInv, KeysAreUnique, DeletedOnce
  <1>8. \A s \in Req : RequestOK(s)'
    BY <1>3, <1>4, <1>5 DEF IInv, RequestOK, At
  <1>9. QED BY <1>6, <1>7, <1>8 DEF IInv
-----------------------------------------------------------------------------
LEMMA FindEmailStep == ASSUME IInv, NEW r \in Req, FindEmail(r) PROVE IInv'
  <1>1. faults' \in Nat /\ UNCHANGED rows /\ At(r, "find")
    BY DEF FindEmail, IInv, TypeOK
  <1>2. Reply(r, 409) \/ Goto(r, "write")
    BY DEF FindEmail
  <1>3. 409 \in Statuses \ {204}
    BY DEF Statuses
  <1>4. QED BY <1>1, <1>2, <1>3, QuietStep

LEMMA FindRowStep == ASSUME IInv, NEW r \in Req, FindRow(r) PROVE IInv'
  <1>1. faults' \in Nat /\ UNCHANGED rows /\ At(r, "find")
    BY DEF FindRow, IInv, TypeOK
  <1>2. Reply(r, 404) \/ Reply(r, 200) \/ Goto(r, "write")
    BY DEF FindRow
  <1>3. {200, 404} \subseteq Statuses \ {204}
    BY DEF Statuses
  <1>4. QED BY <1>1, <1>2, <1>3, QuietStep

LEMMA DetailReplyStep == ASSUME IInv, NEW r \in Req, DetailReply(r) PROVE IInv'
  <1>1. faults' \in Nat /\ UNCHANGED rows /\ Reply(r, 200)
    BY DEF DetailReply, IInv, TypeOK
  <1>2. 200 \in Statuses \ {204}
    BY DEF Statuses
  <1>3. QED BY <1>1, <1>2, QuietStep

LEMMA FailStep == ASSUME IInv, NEW r \in Req, Fail(r) PROVE IInv'
  <1>1. faults' \in Nat /\ UNCHANGED rows /\ Reply(r, 500)
    BY DEF Fail, IInv, TypeOK
  <1>2. 500 \in Statuses \ {204}
    BY DEF Statuses
  <1>3. QED BY <1>1, <1>2, QuietStep

\* A step of r that writes the rows: what is left to show of it is that it
\* keeps the keys unique and the deleted rows deleted.
LEMMA WriteStep ==
    ASSUME IInv, NEW r \in Req, UNCHANGED faults,
           NEW status \in Statuses \ {0, 204}, Reply(r, status),
           rows' \in Seq(RowType), KeysAreUnique',
           \A i \in DOMAIN rows : rows[i].deleted => i \in DOMAIN rows' /\ rows'[i].deleted
    PROVE  IInv'
  <1>1. TypeOK /\ Moves(r)
    BY DEF IInv, Moves
  <1>2. req' \in [Req -> ReqType] /\ \A s \in Req \ {r} : req'[s] = req[s]
    BY <1>1, MovedRequests
  <1>3. \A s \in Req : req'[s].op = req[s].op /\ req'[s].id = req[s].id
                       /\ req'[s].row = req[s].row
    BY <1>1, MovedRequests
  <1>4. req'[r].status = status /\ req'[r].pc = "replied"
    BY <1>1, MovedStatus
  <1>5. TypeOK'
    BY <1>1, <1>2, ReqTyped DEF TypeOK, ReqType, Ops, Statuses
  <1>6. DeletedOnce'
    BY <1>2, <1>3, <1>4 DEF IInv, DeletedOnce
  <1>7. \A s \in Req : RequestOK(s)'
    BY <1>2, <1>3, <1>4 DEF IInv, RequestOK, At
  <1>8. QED BY <1>5, <1>6, <1>7 DEF IInv

LEMMA InsertStep == ASSUME IInv, NEW r \in Req, Insert(r) PROVE IInv'
  <1> DEFINE row == req[r].row
  <1>1. rows \in Seq(RowType) /\ row \in RowType /\ KeysAreUnique
    BY ReqTyped DEF IInv, ReqType
  <1>2. {201, 500} \subseteq Statuses \ {0, 204}
    BY DEF Statuses
  <1>3. CASE rows' = CreateMany(rows, <<row>>) /\ Free(0, row) /\ Reply(r, 201)
    <2>1. rows' = Append(rows, row)
      BY <1>1, <1>3, InsertOne
    <2>2. /\ rows' \in Seq(RowType) /\ DOMAIN rows' = DOMAIN rows \cup {Len(rows) + 1}
          /\ rows'[Len(rows) + 1] = row /\ \A i \in DOMAIN rows : rows'[i] = rows[i]
      BY <1>1, <2>1
    <2>3. \A i \in DOMAIN rows : ~SameKey(rows[i], row) /\ ~SameKey(row, rows[i])
      BY <1>1, <1>3, SameKeySymmetric DEF Free
    <2>4. KeysAreUnique'
      BY <1>1, <2>2, <2>3 DEF KeysAreUnique
    <2>5. UNCHANGED faults
      BY DEF Insert
    <2>6. QED BY <1>2, <1>3, <2>2, <2>4, <2>5, WriteStep
  <1>4. CASE UNCHANGED rows /\ Reply(r, 500)
    BY <1>2, <1>4, QuietStep DEF Insert, IInv, TypeOK
  <1>5. QED BY <1>3, <1>4 DEF Insert

LEMMA UpdateStep == ASSUME IInv, NEW r \in Req, Update(r) PROVE IInv'
  <1> DEFINE id == req[r].id
             new == Updated(rows[id], req[r].row)
  <1>1. rows \in Seq(RowType) /\ req[r].row \in RowType /\ KeysAreUnique
    BY ReqTyped DEF IInv, ReqType
  <1>2. {200, 500} \subseteq Statuses \ {0, 204}
    BY DEF Statuses
  <1>3. CASE /\ Sees(r) /\ Free(id, new) /\ rows' = [rows EXCEPT ![id] = new]
             /\ Reply(r, 200)
    <2>1. id \in DOMAIN rows /\ rows[id] \in RowType /\ ~rows[id].deleted
      BY <1>1, <1>3 DEF Sees, Live
    <2>2. new \in RowType
      BY <1>1, <2>1, UpdatedRow
    <2>3. /\ rows' \in Seq(RowType) /\ DOMAIN rows' = DOMAIN rows
          /\ rows'[id] = new /\ \A i \in DOMAIN rows \ {id} : rows'[i] = rows[i]
      BY <1>1, <1>3, <2>1, <2>2
    <2>4. \A i \in DOMAIN rows \ {id} : ~SameKey(rows[i], new) /\ ~SameKey(new, rows[i])
      BY <1>1, <1>3, <2>2, SameKeySymmetric DEF Free
    <2>5. KeysAreUnique'
      BY <1>1, <2>3, <2>4 DEF KeysAreUnique
    <2>6. UNCHANGED faults
      BY DEF Update
    <2>7. QED BY <1>2, <1>3, <2>1, <2>3, <2>5, <2>6, WriteStep
  <1>4. CASE UNCHANGED rows /\ Reply(r, 500)
    BY <1>2, <1>4, QuietStep DEF Update, IInv, TypeOK
  <1>5. QED BY <1>3, <1>4 DEF Update

LEMMA DeleteStep == ASSUME IInv, NEW r \in Req, Delete(r) PROVE IInv'
  <1> DEFINE id == req[r].id
  <1>1. TypeOK /\ rows \in Seq(RowType) /\ req \in [Req -> ReqType] /\ UNCHANGED faults
        /\ req[r].op = "delete"
    BY ReqTyped DEF IInv, Delete
  <1>2. 500 \in Statuses \ {0, 204} /\ 204 \in Statuses
    BY DEF Statuses
  <1>3. CASE Sees(r) /\ rows' = DeleteMany(rows, {id}) /\ Reply(r, 204)
    <2>1. id \in Live(rows) /\ id \in DOMAIN rows /\ rows[id] \in RowType /\ ~rows[id].deleted
      BY <1>1, <1>3 DEF Sees, Live
    <2>2. /\ rows' = [rows EXCEPT ![id] = [@ EXCEPT !.deleted = TRUE]]
          /\ rows' \in Seq(RowType)
      BY <1>1, <1>3, <2>1, DeleteOne
    <2>3. /\ DOMAIN rows' = DOMAIN rows /\ rows'[id].deleted
          /\ \A i \in DOMAIN rows \ {id} : rows'[i] = rows[i]
          /\ \A i \in DOMAIN rows : /\ rows'[i].kind = rows[i].kind
                                    /\ rows'[i].email = rows[i].email
                                    /\ rows'[i].fullName = rows[i].fullName
                                    /\ rows'[i].parent = rows[i].parent
      BY <1>1, <2>1, <2>2 DEF RowType
    <2>4. KeysAreUnique'
      BY <2>3 DEF IInv, KeysAreUnique, SameKey
    <2>5. Moves(r)
      BY <1>2, <1>3 DEF Moves
    <2>6. req' \in [Req -> ReqType] /\ \A s \in Req \ {r} : req'[s] = req[s]
      BY <1>1, <2>5, MovedRequests
    <2>7. \A s \in Req : req'[s].op = req[s].op /\ req'[s].id = req[s].id
                         /\ req'[s].row = req[s].row
      BY <1>1, <2>5, MovedRequests
    <2>8. req'[r].status = 204 /\ req'[r].pc = "replied"
      BY <1>1, <1>2, <1>3, MovedStatus
    <2>9. TypeOK'
      BY <1>1, <2>2, <2>6, ReqTyped DEF TypeOK, ReqType, Ops, Statuses
    \* Another delete of the row that was answered 204 would have deleted it.
    <2>10. \A s \in Req \ {r} : req[s].op = "delete" /\ req[s].status = 204 => req[s].id # id
      BY <2>1 DEF IInv, RequestOK
    <2>11. DeletedOnce'
      BY <2>6, <2>7, <2>10 DEF IInv, DeletedOnce
    <2>12. \A s \in Req : RequestOK(s)'
      BY <1>1, <2>1, <2>3, <2>6, <2>7, <2>8 DEF IInv, RequestOK, At
    <2>13. QED BY <2>4, <2>9, <2>11, <2>12 DEF IInv
  <1>4. CASE UNCHANGED rows /\ Reply(r, 500)
    BY <1>1, <1>2, <1>4, QuietStep DEF TypeOK
  <1>5. QED BY <1>3, <1>4 DEF Delete

LEMMA NextIInv == IInv /\ [Next]_vars => IInv'
  <1> SUFFICES ASSUME IInv, [Next]_vars PROVE IInv'
    OBVIOUS
  <1>1. CASE UNCHANGED vars
    BY <1>1 DEF vars, IInv, TypeOK, KeysAreUnique, DeletedOnce, RequestOK, At
  <1>2. CASE Done
    BY <1>1, <1>2 DEF Done
  <1>3. ASSUME NEW r \in Req,
               \/ FindEmail(r) \/ FindRow(r) \/ DetailReply(r)
               \/ Insert(r) \/ Update(r) \/ Delete(r) \/ Fail(r)
        PROVE  IInv'
    BY <1>3, FindEmailStep, FindRowStep, DetailReplyStep, InsertStep, UpdateStep,
       DeleteStep, FailStep
  <1>4. QED BY <1>1, <1>2, <1>3 DEF Next

LEMMA SpecIInv == Spec => []IInv
  BY InitIInv, NextIInv, PTL DEF Spec
-----------------------------------------------------------------------------
\* Rows, requests and statuses keep their types.
THEOREM ResourcesTyped == Spec => []TypeOK
  BY SpecIInv, PTL DEF IInv

\* Two deletes of one row never both report success, for any number of requests
\* between whose finds and writes others come.
THEOREM ReportedOnce == Spec => []DeletedOnce
  BY SpecIInv, PTL DEF IInv

\* No two users share an email and no two persons their key, deleted ones
\* included, whatever is created, updated and deleted at the same time.
THEOREM UniqueForGood == Spec => []KeysAreUnique
  BY SpecIInv, PTL DEF IInv

LEMMA FrozenStep ==
    ASSUME IInv, [Next]_vars
    PROVE  \A id \in DOMAIN rows : rows[id].deleted => rows'[id] = rows[id]
  <1> SUFFICES ASSUME NEW id \in DOMAIN rows, rows[id].deleted PROVE rows'[id] = rows[id]
    OBVIOUS
  <1>1. rows \in Seq(RowType) /\ req \in [Req -> ReqType]
    BY ReqTyped DEF IInv
  <1>2. ASSUME NEW r \in Req, Insert(r) PROVE rows'[id] = rows[id]
    <2>1. req[r].row \in RowType
      BY <1>1 DEF ReqType
    <2>2. rows' = Append(rows, req[r].row) \/ UNCHANGED rows
      BY <1>1, <1>2, <2>1, InsertOne DEF Insert
    <2>3. QED BY <1>1, <2>2
  <1>3. ASSUME NEW r \in Req, Update(r) PROVE rows'[id] = rows[id]
    <2>1. Sees(r) => req[r].id # id
      BY DEF Sees, Live
    <2>2. QED BY <1>1, <1>3, <2>1 DEF Update
  <1>4. ASSUME NEW r \in Req, Delete(r) PROVE rows'[id] = rows[id]
    <2>1. CASE Sees(r) /\ rows' = DeleteMany(rows, {req[r].id})
      <3>1. req[r].id \in Live(rows) /\ req[r].id # id
        BY <2>1 DEF Sees, Live
      <3>2. rows' = [rows EXCEPT ![req[r].id] = [@ EXCEPT !.deleted = TRUE]]
        BY <1>1, <2>1, <3>1, DeleteOne
      <3>3. QED BY <1>1, <3>1, <3>2
    <2>2. QED BY <1>4, <2>1 DEF Delete
  <1>5. QED BY <1>2, <1>3, <1>4 DEF Next, FindEmail, FindRow, DetailReply, Fail, Done, vars

\* No step writes a deleted row, for any number of requests.
THEOREM ResourcesDeletedForGood == Spec => DeletedIsFrozen
  <1>1. IInv /\ [Next]_vars
          => [\A id \in DOMAIN rows : rows[id].deleted => rows'[id] = rows[id]]_vars
    BY FrozenStep
  <1>2. QED BY <1>1, SpecIInv, PTL DEF Spec, DeletedIsFrozen
-----------------------------------------------------------------------------
\* The refinement: the state of the store that the tables stand for.
value == [id \in DOMAIN rows |-> Data(rows[id])]
live == Live(rows)
answer == [r \in Req |-> req[r].status]
Rows == [kind : Kinds, email : Emails, name : Names, fullName : Names, parent : Parents]

LEMMA DataTyped == ASSUME NEW row \in RowType PROVE Data(row) \in Rows
  BY DEF RowType, Data, Rows

LEMMA DataKeys ==
    ASSUME NEW a \in RowType, NEW b \in RowType
    PROVE  SameKey(Data(a), Data(b)) <=> SameKey(a, b)
  BY DEF SameKey, Data

LEMMA ValueTyped ==
    ASSUME rows \in Seq(RowType)
    PROVE  /\ value \in Seq(Rows) /\ DOMAIN value = DOMAIN rows /\ Len(value) = Len(rows)
           /\ \A i \in DOMAIN rows : value[i] = Data(rows[i]) /\ value[i] \in Rows
           /\ live \subseteq DOMAIN value
  <1>1. DOMAIN rows = 1..Len(rows) /\ Len(rows) \in Nat
        /\ \A i \in DOMAIN rows : rows[i] \in RowType
    OBVIOUS
  <1>2. \A i \in DOMAIN rows : value[i] = Data(rows[i]) /\ value[i] \in Rows
    BY <1>1, DataTyped DEF value
  <1>3. value \in [1..Len(rows) -> Rows]
    BY <1>1, <1>2 DEF value
  <1>4. value \in Seq(Rows) /\ Len(value) = Len(rows)
    BY <1>1, <1>3
  <1>5. QED BY <1>1, <1>2, <1>3, <1>4 DEF live, Live

\* A reply is the answer of a request that had none.
LEMMA ReplyAnswers ==
    ASSUME IInv, NEW r \in Req, ~At(r, "replied"), NEW status \in Statuses, Reply(r, status)
    PROVE  answer[r] = 0 /\ answer' = [answer EXCEPT ![r] = status]
  <1>1. TypeOK /\ Moves(r)
    BY DEF IInv, Moves
  <1>2. \A s \in Req \ {r} : req'[s] = req[s]
    BY <1>1, MovedRequests
  <1>3. req'[r].status = status
    BY <1>1, MovedStatus
  <1>4. req[r].status = 0
    BY DEF IInv, RequestOK
  <1>5. QED BY <1>2, <1>3, <1>4 DEF answer

LEMMA StoreInit == Init => Store!Init
  <1> SUFFICES ASSUME Init PROVE Store!Init
    OBVIOUS
  <1>1. rows \in Seq(RowType)
    BY InputsAreTyped DEF Init
  <1>2. \A r \in Req : req[r].status = 0
    <2>1. \A r \in Req : \E a \in Asked : req[r] = Start(a)
      BY DEF Init
    <2>2. \A a \in Asked : Start(a).status = 0
      BY DEF Start
    <2>3. QED BY <2>1, <2>2
  <1>3. QED BY <1>1, <1>2, ValueTyped DEF Store!Init, value, live, answer, Rows

\* Steps that write nothing stutter, answer a read or refuse.
LEMMA StoreQuiet ==
    ASSUME IInv, NEW r \in Req, UNCHANGED rows, ~At(r, "replied"),
           Goto(r, "write") \/ \E status \in {200, 404, 409, 500} : Reply(r, status)
    PROVE  [Store!Next]_Store!vars
  <1>1. UNCHANGED <<value, live>>
    BY DEF value, live, Live
  <1>2. CASE Goto(r, "write")
    <2>1. \A s \in Req : req'[s].status = req[s].status
      BY <1>2, ReqTyped DEF IInv, Goto, ReqType
    <2>2. UNCHANGED answer
      BY <2>1 DEF answer
    <2>3. QED BY <1>1, <2>2 DEF Store!vars, value, live, answer
  <1>3. ASSUME NEW status \in {200, 404, 409, 500}, Reply(r, status)
        PROVE  Store!Next
    <2>1. status \in Statuses
      BY DEF Statuses
    <2>2. answer[r] = 0 /\ answer' = [answer EXCEPT ![r] = status]
      BY <1>3, <2>1, ReplyAnswers
    <2>3. Store!Answer(r, status)
      BY <2>2 DEF Store!Answer, answer
    <2>4. Store!Read(r) \/ Store!Refuse(r)
      BY <1>1, <2>3 DEF Store!Read, Store!Refuse, value, live
    <2>5. QED BY <2>4 DEF Store!Next
  <1>4. QED BY <1>2, <1>3

LEMMA StoreInsert ==
    ASSUME IInv, NEW r \in Req, Insert(r)
    PROVE  [Store!Next]_Store!vars
  <1> DEFINE row == req[r].row
             id == Len(rows) + 1
  <1>1. rows \in Seq(RowType) /\ row \in RowType /\ ~row.deleted /\ ~At(r, "replied")
    BY ReqTyped DEF IInv, ReqType, RequestOK, Insert, At
  <1>2. CASE rows' = CreateMany(rows, <<row>>) /\ Free(0, row) /\ Reply(r, 201)
    <2>1. rows' = Append(rows, row)
      BY <1>1, <1>2, InsertOne
    <2>2. /\ rows' \in Seq(RowType) /\ DOMAIN rows' = DOMAIN rows \cup {id}
          /\ rows'[id] = row /\ \A i \in DOMAIN rows : rows'[i] = rows[i]
          /\ id \notin DOMAIN rows /\ Len(rows) \in Nat /\ DOMAIN rows = 1..Len(rows)
      BY <1>1, <2>1
    <2>3. value' = Append(value, Data(row)) /\ value'[id] = Data(row) /\ id \in DOMAIN value'
      <3>1. Append(value, Data(row)) = [i \in 1..(Len(rows) + 1) |->
                                          IF i = id THEN Data(row) ELSE value[i]]
        BY <1>1, <2>2, ValueTyped
      <3>2. value' = [i \in 1..(Len(rows) + 1) |-> Data(rows'[i])]
        BY <2>2 DEF value
      <3>3. QED BY <2>2, <3>1, <3>2 DEF value
    <2>4. live' = live \cup {id}
      <3>1. Len(rows') = id /\ id \in Nat
        BY <1>1, <2>1
      <3>2. \A i : i \in live' <=> i \in 1..id /\ ~rows'[i].deleted
        BY <3>1 DEF live, Live
      <3>3. \A i : i \in live <=> i \in 1..Len(rows) /\ ~rows[i].deleted
        BY DEF live, Live
      <3>4. 1..id = 1..Len(rows) \cup {id}
        BY <2>2
      <3>5. QED BY <1>1, <2>2, <3>2, <3>3, <3>4
    <2>5. Len(value) + 1 = id /\ Data(row) \in Rows
      BY <1>1, ValueTyped, DataTyped
    <2>6. \A i \in live : ~SameKey(value[i], Data(row))
      <3> SUFFICES ASSUME NEW i \in live PROVE ~SameKey(value[i], Data(row))
        OBVIOUS
      <3>1. i \in DOMAIN rows \ {0} /\ rows[i] \in RowType /\ value[i] = Data(rows[i])
        BY <1>1, <2>2, ValueTyped DEF live, Live
      <3>2. QED BY <1>1, <1>2, <3>1, DataKeys DEF Free
    <2>7. answer[r] = 0 /\ answer' = [answer EXCEPT ![r] = 201]
      BY <1>1, <1>2, ReplyAnswers DEF Statuses
    <2>8. Store!Free(id, Data(row)) /\ Store!Answer(r, 201)
      BY <2>6, <2>7 DEF Store!Free, Store!Answer, value, live, answer
    <2>9. Store!Create(r)
      BY <2>3, <2>4, <2>5, <2>8 DEF Store!Create, value, live, Rows
    <2>10. QED BY <2>9 DEF Store!Next
  <1>3. CASE UNCHANGED rows /\ Reply(r, 500)
    BY <1>1, <1>3, StoreQuiet
  <1>4. QED BY <1>2, <1>3 DEF Insert

LEMMA StoreUpdate ==
    ASSUME IInv, NEW r \in Req, Update(r)
    PROVE  [Store!Next]_Store!vars
  <1> DEFINE id == req[r].id
             new == Updated(rows[id], req[r].row)
  <1>1. rows \in Seq(RowType) /\ req[r].row \in RowType /\ ~At(r, "replied")
    BY ReqTyped DEF IInv, ReqType, Update, At
  <1>2. CASE /\ Sees(r) /\ Free(id, new) /\ rows' = [rows EXCEPT ![id] = new]
             /\ Reply(r, 200)
    <2>1. id \in live /\ id \in DOMAIN rows /\ rows[id] \in RowType
      BY <1>1, <1>2 DEF Sees, Live, live
    <2>2. new \in RowType /\ new.deleted = rows[id].deleted
      BY <1>1, <2>1, UpdatedRow
    <2>3. /\ DOMAIN rows' = DOMAIN rows /\ rows'[id] = new
          /\ \A i \in DOMAIN rows \ {id} : rows'[i] = rows[i]
      BY <1>1, <1>2, <2>1
    <2>4. value' = [value EXCEPT ![id] = Data(new)] /\ value'[id] = Data(new)
      BY <2>1, <2>3 DEF value
    <2>5. live' = live
      BY <2>1, <2>2, <2>3 DEF live, Live
    <2>6. \A i \in live \ {id} : ~SameKey(value[i], Data(new))
      <3> SUFFICES ASSUME NEW i \in live \ {id} PROVE ~SameKey(value[i], Data(new))
        OBVIOUS
      <3>1. i \in DOMAIN rows \ {id} /\ rows[i] \in RowType /\ value[i] = Data(rows[i])
        BY <1>1, ValueTyped DEF live, Live
      <3>2. QED BY <1>2, <2>2, <3>1, DataKeys DEF Free
    <2>7. Data(new) \in Rows
      BY <2>2, DataTyped
    <2>8. answer[r] = 0 /\ answer' = [answer EXCEPT ![r] = 200]
      BY <1>1, <1>2, ReplyAnswers DEF Statuses
    <2>9. Store!Free(id, Data(new)) /\ Store!Answer(r, 200)
      BY <2>6, <2>8 DEF Store!Free, Store!Answer, value, live, answer
    <2>10. Store!Update(r)
      BY <2>1, <2>4, <2>5, <2>7, <2>9 DEF Store!Update, value, live, Rows
    <2>11. QED BY <2>10 DEF Store!Next
  <1>3. CASE UNCHANGED rows /\ Reply(r, 500)
    BY <1>1, <1>3, StoreQuiet
  <1>4. QED BY <1>2, <1>3 DEF Update

LEMMA StoreDelete ==
    ASSUME IInv, NEW r \in Req, Delete(r)
    PROVE  [Store!Next]_Store!vars
  <1> DEFINE id == req[r].id
  <1>1. rows \in Seq(RowType) /\ ~At(r, "replied")
    BY ReqTyped DEF IInv, Delete, At
  <1>2. CASE Sees(r) /\ rows' = DeleteMany(rows, {id}) /\ Reply(r, 204)
    <2>1. id \in live /\ id \in DOMAIN rows /\ rows[id] \in RowType
      BY <1>1, <1>2 DEF Sees, Live, live
    <2>2. rows' = [rows EXCEPT ![id] = [@ EXCEPT !.deleted = TRUE]] /\ live' = live \ {id}
      BY <1>1, <1>2, <2>1, DeleteOne DEF live
    <2>3. DOMAIN rows' = DOMAIN rows /\ \A i \in DOMAIN rows : Data(rows'[i]) = Data(rows[i])
      BY <1>1, <2>1, <2>2 DEF Data, RowType
    <2>4. value' = value
      BY <2>3 DEF value
    <2>5. answer[r] = 0 /\ answer' = [answer EXCEPT ![r] = 204]
      BY <1>1, <1>2, ReplyAnswers DEF Statuses
    <2>6. Store!Delete(r)
      BY <2>1, <2>2, <2>4, <2>5 DEF Store!Delete, Store!Answer, value, live, answer
    <2>7. QED BY <2>6 DEF Store!Next
  <1>3. CASE UNCHANGED rows /\ Reply(r, 500)
    BY <1>1, <1>3, StoreQuiet
  <1>4. QED BY <1>2, <1>3 DEF Delete

LEMMA StoreNext == ASSUME IInv, [Next]_vars PROVE [Store!Next]_Store!vars
  <1>1. CASE UNCHANGED vars
    BY <1>1 DEF vars, Store!vars, Live
  <1>2. CASE Done
    BY <1>1, <1>2 DEF Done
  <1>3. ASSUME NEW r \in Req, FindEmail(r) \/ FindRow(r) \/ DetailReply(r) \/ Fail(r)
        PROVE  [Store!Next]_Store!vars
    <2>1. UNCHANGED rows /\ ~At(r, "replied")
      BY <1>3 DEF FindEmail, FindRow, DetailReply, Fail, At
    <2>2. Goto(r, "write") \/ \E status \in {200, 404, 409, 500} : Reply(r, status)
      BY <1>3 DEF FindEmail, FindRow, DetailReply, Fail
    <2>3. QED BY <2>1, <2>2, StoreQuiet
  <1>4. QED BY <1>1, <1>2, <1>3, StoreInsert, StoreUpdate, StoreDelete DEF Next

\* Requests that look first and write later implement a store of live rows on
\* which each has one effect at once, or none, for any number of requests.
THEOREM ResourcesRefineLiveStore == Spec => ImplementsLiveStore
  <1>1. Init => Store!Init
    BY StoreInit
  <1>2. IInv /\ [Next]_vars => [Store!Next]_Store!vars
    BY StoreNext
  <1>3. QED BY <1>1, <1>2, SpecIInv, PTL DEF Spec, ImplementsLiveStore, Store!Spec
=============================================================================
