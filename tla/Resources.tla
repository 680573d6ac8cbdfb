----------------------------- MODULE Resources ------------------------------
(* Creating, reading, updating and deleting users, companies, persons and     *)
(* footprints: requests that look first and write in a later statement.       *)
(*                                                                            *)
(* The four tables are kept in one sequence: the position of a row stands for *)
(* its table and its id, and kind tells the table.  A column whose value no   *)
(* property tells apart is left out; a statement may fail at any time.        *)
EXTENDS SoftDelete

CONSTANTS
    Req,            \* the requests, each served once
    Emails, Names,  \* values of the columns of those names
    Parents,        \* values of the foreign keys, 0 for null
    InitRows,       \* the tables at the start
    Asked,          \* what clients ask
    MaxFaults       \* bound: statements that fail

Kinds == {"user", "company", "person", "footprint"}
RowType == [kind : Kinds, email : Emails, name : Names, fullName : Names,
            parent : Parents, deleted : BOOLEAN]
AskType == [op : {"create", "detail", "update", "delete"}, id : Nat, row : RowType]

ASSUME InputsAreTyped ==
    /\ Parents \subseteq Nat
    /\ InitRows \in Seq(RowType)
    /\ Asked \subseteq AskType
    /\ \A a \in Asked : ~a.row.deleted

VARIABLES
    rows,       \* every row ever inserted
    req,        \* the requests
    faults      \* how many statements have failed

vars == <<rows, req, faults>>

\* A row: the email of a user or a person, its name (for a person first and
\* last name), a person's fullName column, and the row its foreign key names.
Row(kind, email, name, parent) ==
    [kind |-> kind, email |-> email, name |-> name, fullName |-> name,
     parent |-> parent, deleted |-> FALSE]

\* The unique indexes: User.email, and email, fullName and company of persons.
SameKey(a, b) ==
    /\ a.kind = b.kind
    /\ \/ a.kind = "user" /\ a.email = b.email
       \/ a.kind = "person" /\ a.email = b.email /\ a.fullName = b.fullName
                            /\ a.parent = b.parent

ASSUME InitKeysAreUnique ==
    \A i, j \in DOMAIN InitRows : SameKey(InitRows[i], InitRows[j]) => i = j

\* Slip: only live rows count in the unique indexes.
FreeAmongLive(id, row) == \A i \in Live(rows) \ {id} : ~SameKey(rows[i], row)

\* The unique indexes count every row, and a foreign key any row it can name.
Free(id, row) == \A i \in DOMAIN rows \ {id} : ~SameKey(rows[i], row)
ParentExists(row) == row.parent \in DOMAIN rows \cup {0}

\* A request before its first statement, and what it asks.
Start(a) == [pc |-> "find", op |-> a.op, id |-> a.id, row |-> a.row, status |-> 0]

Init ==
    /\ rows = InitRows
    /\ req \in [Req -> {Start(a) : a \in Asked}]
    /\ faults = 0

At(r, pc) == req[r].pc = pc
Goto(r, pc) == req' = [req EXCEPT ![r].pc = pc]
Reply(r, status) == req' = [req EXCEPT ![r].pc = "replied", ![r].status = status]

\* The live row of the request's table that findFirst, update and delete see.
Sees(r) == req[r].id \in Live(rows) /\ rows[req[r].id].kind = req[r].row.kind

\* createUser looks for the email before it hashes a password and inserts; the
\* other creates insert at once.
FindEmail(r) ==
    /\ At(r, "find") /\ req[r].op = "create"
    /\ IF /\ req[r].row.kind = "user"
          /\ \E id \in Live(rows) : rows[id].kind = "user" /\ rows[id].email = req[r].row.email
       THEN Reply(r, 409) ELSE Goto(r, "write")
    /\ UNCHANGED <<rows, faults>>

\* The first statement of detail, update and delete.  The detail of a person
\* reads its enrichment in another statement; that of a user is in Sessions.
FindRow(r) ==
    /\ At(r, "find") /\ req[r].op \in {"detail", "update", "delete"}
    /\ \/ ~Sees(r) /\ Reply(r, 404)
       \/ Sees(r) /\ req[r].op = "detail" /\ req[r].row.kind # "person" /\ Reply(r, 200)
       \/ Sees(r) /\ (req[r].op # "detail" \/ req[r].row.kind = "person") /\ Goto(r, "write")
    /\ UNCHANGED <<rows, faults>>

DetailReply(r) ==
    /\ At(r, "write") /\ req[r].op = "detail"
    /\ Reply(r, 200)
    /\ UNCHANGED <<rows, faults>>

Insert(r) ==
    /\ At(r, "write") /\ req[r].op = "create"
    /\ IF Free(0, req[r].row) /\ ParentExists(req[r].row)
       THEN rows' = CreateMany(rows, <<req[r].row>>) /\ Reply(r, 201)
       ELSE UNCHANGED rows /\ Reply(r, 500)
    /\ UNCHANGED faults

\* Slip: two columns swapped.
UpdatedSwapped(row, body) ==
    [row EXCEPT !.email = body.name, !.name = body.email, !.parent = body.parent]

\* The columns of the body are set; a person's fullName is not in the body.
Updated(row, body) ==
    [row EXCEPT !.email = body.email, !.name = body.name, !.parent = body.parent]

\* Slip: the second statement takes the row that was found for granted.
UpdateFound(r) ==
    /\ At(r, "write") /\ req[r].op = "update"
    /\ IF /\ ParentExists(req[r].row)
          /\ Free(req[r].id, Updated(rows[req[r].id], req[r].row))
       THEN /\ rows' = [rows EXCEPT ![req[r].id] = Updated(@, req[r].row)]
            /\ Reply(r, 200)
       ELSE UNCHANGED rows /\ Reply(r, 500)
    /\ UNCHANGED faults

\* update: one statement that finds the live row again, or fails.
Update(r) ==
    /\ At(r, "write") /\ req[r].op = "update"
    /\ IF /\ Sees(r) /\ ParentExists(req[r].row)
          /\ Free(req[r].id, Updated(rows[req[r].id], req[r].row))
       THEN /\ rows' = [rows EXCEPT ![req[r].id] = Updated(@, req[r].row)]
            /\ Reply(r, 200)
       ELSE UNCHANGED rows /\ Reply(r, 500)
    /\ UNCHANGED faults

\* Slip: so does this one.
DeleteFound(r) ==
    /\ At(r, "write") /\ req[r].op = "delete"
    /\ rows' = [rows EXCEPT ![req[r].id].deleted = TRUE]
    /\ Reply(r, 204)
    /\ UNCHANGED faults

\* delete: likewise.
Delete(r) ==
    /\ At(r, "write") /\ req[r].op = "delete"
    /\ IF Sees(r) THEN rows' = DeleteMany(rows, {req[r].id}) /\ Reply(r, 204)
                  ELSE UNCHANGED rows /\ Reply(r, 500)
    /\ UNCHANGED faults

\* A statement fails: the database answers with an error, and the filter with
\* status 500.
Fail(r) ==
    /\ At(r, "find") \/ At(r, "write")
    /\ faults < MaxFaults /\ faults' = faults + 1
    /\ Reply(r, 500)
    /\ UNCHANGED rows

Done == (\A r \in Req : At(r, "replied")) /\ UNCHANGED vars

Next ==
    \/ Done
    \/ \E r \in Req :
         \/ FindEmail(r) \/ FindRow(r) \/ DetailReply(r)
         \/ Insert(r) \/ Update(r) \/ Delete(r) \/ Fail(r)

Spec == Init /\ [][Next]_vars
-----------------------------------------------------------------------------
\* Types of the rows, the requests and their statuses.
TypeOK ==
    /\ rows \in Seq(RowType)
    /\ req \in [Req -> [pc : {"find", "write", "replied"},
                        op : {"create", "detail", "update", "delete"},
                        id : Nat, row : RowType,
                        status : {0, 200, 201, 204, 404, 409, 500}]]
    /\ faults \in Nat

\* Two deletes of one row never both report success, however their finds and
\* writes interleave.
DeletedOnce ==
    \A r, s \in Req :
        (/\ req[r].op = "delete" /\ req[r].status = 204
         /\ req[s].op = "delete" /\ req[s].status = 204
         /\ req[r].id = req[s].id) => r = s

\* Two users never share an email, nor two persons email, name and company,
\* whatever was deleted, updated or created at the same time in between: an
\* email is lost to new users when its user is deleted.
KeysAreUnique == \A i, j \in DOMAIN rows : SameKey(rows[i], rows[j]) => i = j

\* A deleted row is never written again.
DeletedIsFrozen ==
    [][\A id \in DOMAIN rows : rows[id].deleted => rows'[id] = rows[id]]_vars

\* The requests implement atomic ones on the live rows: each takes effect in
\* one step, at which its answer is decided, or has none.
Data(row) == [kind |-> row.kind, email |-> row.email, name |-> row.name,
              fullName |-> row.fullName, parent |-> row.parent]
Store == INSTANCE LiveStore WITH
    Rows <- [kind : Kinds, email : Emails, name : Names, fullName : Names, parent : Parents],
    value <- [id \in DOMAIN rows |-> Data(rows[id])],
    live <- Live(rows),
    answer <- [r \in Req |-> req[r].status]
ImplementsLiveStore == Store!Spec
=============================================================================
