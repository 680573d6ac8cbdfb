------------------------------ MODULE Payload -------------------------------
(* One row written and listed through the api: a create and the updates that  *)
(* follow it, from the body a client sends to the columns the database keeps, *)
(* and the queries that find the row or not.                                  *)
(*                                                                            *)
(* Module Resources has the order of the statements and their races, module   *)
(* Pagination the rows of a list; here the calls come one after the other,    *)
(* and a value is what the classes of module Dtos tell apart.                 *)
EXTENDS Filters, FiniteSets

CONSTANTS
    Resources,      \* the resources tried: user, company, person, footprint, upload
    Sent,           \* the values a client gives a query parameter
    MaxOdd,         \* bound: fields of a body that are out of the ordinary
    MaxCalls,       \* bound: bodies sent
    MaxListed,      \* bound: bodies sent before the row is listed
    MaxParams       \* bound: parameters of a query

\* A parameter is text: it is neither null nor true nor false.
ASSUME ParametersAreValues == Sent \subseteq Values \ (Missing \cup {"true", "false"})
ASSUME BoundsAreNumbers ==
    MaxOdd \in Nat /\ MaxCalls \in Nat /\ MaxListed \in 0..MaxCalls /\ MaxParams \in Nat

\* What is sent of an upload is a file: module ExecutiveUpload makes its row.
BodyDto == [user |-> CreateUserBodyDto, company |-> CreateExecutiveCompanyBodyDto,
            person |-> CreateExecutivePersonBodyDto, footprint |-> CreateFootprintBodyDto,
            upload |-> Dto(<< >>, << >>)]
Table == [r \in DOMAIN BodyDto |-> ListOf[r].table]

ASSUME ResourcesAreKnown == Resources \subseteq DOMAIN BodyDto

NoRow == << >>

VARIABLES
    resource,   \* whose routes are called
    row,        \* the columns of the row, or NoRow
    last,       \* the last body sent
    calls,      \* how many were sent
    query,      \* the parameters of the list, absent where none was given
    found,      \* is the row in the list?
    status      \* the answer of the last body or query

vars == <<resource, row, last, calls, query, found, status>>

Fields == DOMAIN BodyDto[resource]
Params == DOMAIN ListOf[resource].dto

\* The bodies with at most MaxOdd fields other than base; in some of them what
\* is optional is absent.
Bodies(base) ==
    {[f \in Fields |-> IF f \in DOMAIN odd THEN odd[f] ELSE base[f]] :
        odd \in UNION {[{at[i] : i \in 1..MaxOdd} -> Values] : at \in [1..MaxOdd -> Fields]}}

AllGiven == [f \in Fields |-> "valid"]
NeededGiven == [f \in Fields |-> IF BodyDto[resource][f].required THEN "valid" ELSE "absent"]
NoneGiven == [f \in Fields |-> "absent"]

\* The parameters a query names.
Named == {p \in Params : query[p] # "absent"}

Init ==
    /\ resource \in Resources
    /\ row = IF resource = "upload" THEN [c \in DOMAIN Table[resource] |-> "valid"] ELSE NoRow
    /\ last = NoneGiven
    /\ calls = 0
    /\ query = [p \in Params |-> "absent"] /\ found = TRUE
    /\ status = 0

\* PayloadValidationPipe: the converted body passes, or 422 answers it.  Fields
\* the dto does not name are dropped.  Whether the partial dto of an update
\* knows the types to convert to is up to the library.
Converted(body) == [f \in Fields |-> Convert(BodyDto[resource][f].kind, body[f])]
Passes(body) == \A f \in Fields : Accepts(BodyDto[resource][f], body[f])
PassesPartially(body) == \A f \in Fields : AcceptsPartially(BodyDto[resource][f], body[f])

\* The columns that the service adds to the body of a create.
AddedBy == [user |-> {"password", "forceResetPassword"}, company |-> {},
            person |-> {"fullName"}, footprint |-> {}, upload |-> {}]

\* { ...body } and what was added to it, as the data of a statement.
Data(body, added) ==
    [c \in DOMAIN Table[resource] |->
        IF c \in Fields THEN body[c] ELSE IF c \in added THEN "valid" ELSE "absent"]

\* Slip: the columns have no default.
StoredAsGiven(data) ==
    [c \in DOMAIN data |-> IF row # NoRow /\ data[c] = "absent" THEN row[c] ELSE data[c]]

\* The row after a statement: an absent column keeps its value or its default.
Stored(data) ==
    [c \in DOMAIN data |-> IF data[c] # "absent" THEN data[c]
                           ELSE IF row # NoRow THEN row[c]
                           ELSE IF Table[resource][c].default THEN "valid" ELSE "null"]

\* The statement: Prisma or the database refuses what a column cannot hold.
Write(data, ok) ==
    IF \A c \in DOMAIN data : Fits(Table[resource][c], data[c])
    THEN row' = Stored(data) /\ status' = ok
    ELSE UNCHANGED row /\ status' = 500

Refuse == UNCHANGED row /\ status' = 422

Send(body) ==
    /\ calls < MaxCalls /\ Named = {}
    /\ calls' = calls + 1
    /\ last' = body
    /\ UNCHANGED <<resource, query, found>>

\* The create route; an insert must give every needed column a value.
Create ==
    /\ row = NoRow
    /\ \E base \in {AllGiven, NeededGiven} : \E body \in Bodies(base) :
         /\ Send(body)
         /\ LET data == Data(Converted(body), AddedBy[resource])
                needed == {c \in DOMAIN data : ~Table[resource][c].null
                                               /\ ~Table[resource][c].default}
            IN IF ~Passes(Converted(body)) THEN Refuse
               ELSE IF \E c \in needed : data[c] = "absent"
               THEN UNCHANGED row /\ status' = 500
               ELSE Write(data, 201)

\* The update route, whose dto is the PartialType of the create's.
Update ==
    /\ row # NoRow
    /\ \E body \in Bodies(NoneGiven) :
         /\ Send(body)
         /\ \E read \in {body, Converted(body)} :
              IF PassesPartially(read) THEN Write(Data(read, {}), 200) ELSE Refuse

\* A query is text: the pipe converts it like a body.
Read(q) == [p \in Params |-> Convert(ListOf[resource].dto[p].kind, q[p])]

\* The list route, asked again with one parameter more.  Prisma throws at a
\* column its table does not have and at a value that is not of its type.  (Once
\* listed a row is not written again: last and calls are forgotten.)
List ==
    /\ row # NoRow /\ calls <= MaxListed
    /\ Cardinality(Named) < MaxParams
    /\ \E p \in Params \ Named, v \in Sent :
         LET q == Read([query EXCEPT ![p] = v])
             where == ListOf[resource].where
         IN /\ query' = [query EXCEPT ![p] = v]
            /\ IF \E o \in Params : ~Accepts(ListOf[resource].dto[o], q[o])
               THEN status' = 422 /\ found' = FALSE
               ELSE IF ~Answerable(where, Table[resource], q)
               THEN status' = 500 /\ found' = FALSE
               ELSE status' = 200 /\ found' = Finds(where, row, q)
    /\ last' = NoneGiven /\ calls' = MaxListed
    /\ UNCHANGED <<resource, row>>

Done == (calls = MaxCalls \/ Cardinality(Named) = MaxParams) /\ UNCHANGED vars

Next == Create \/ Update \/ List \/ Done

Spec == Init /\ [][Next]_vars
-----------------------------------------------------------------------------
\* What a column may hold: of the values too big for a column, only a number is
\* not too big for a Float.
Held == {"null", "empty", "zero", "fraction", "valid", "big"}

\* Types: a column of the row always holds a value, or null.
TypeOK ==
    /\ row = NoRow \/ row \in [DOMAIN Table[resource] -> Held]
    /\ last \in [Fields -> Values]
    /\ calls \in 0..MaxCalls
    /\ query \in [Params -> Values] /\ found \in BOOLEAN
    /\ status \in {0, 200, 201, 422, 500}

\* No sequence of creates and updates empties a text or an email that the
\* create requires: PartialType adds IsOptional and keeps IsNotEmpty.
RequiredIsNeverEmptied ==
    row # NoRow =>
        \A f \in Fields : BodyDto[resource][f].required => row[f] # "empty"

\* What the pipe lets through although a statement fails with it: of a body, a
\* null where the column has none, a key that names no row, what is too big for
\* its column, and a person without its company, which the dto calls optional
\* and the table does not; of a query, a fraction or a number beyond 32 bits for
\* an integer, a date beyond the year 9999, and the department and position of a
\* person, columns that only its enrichment has.
UnfitField(f) ==
    \/ last[f] = "null" /\ ~Table[resource][f].null
    \/ last[f] \notin {"absent", "null", "valid"} /\ Table[resource][f].type = "Key"
    \/ last[f] = "big" /\ Table[resource][f].type \in {"String", "DateTime"}
UnfitParam(p) ==
    \/ p \in {"department", "position"}
    \/ /\ p \in DOMAIN Table[resource] /\ Table[resource][p].type \in {"Int", "Key"}
       /\ query[p] \in {"fraction", "big"}
    \/ ListOf[resource].dto[p].kind = "date" /\ query[p] = "big"

\* Nothing else fails: whatever else is malformed is answered 422 before a
\* statement is sent.
OnlyKnownGapsFail ==
    status = 500 =>
        IF Named # {}
        THEN \E p \in Named : UnfitParam(p)
        ELSE \/ \E f \in Fields : UnfitField(f)
             \/ resource = "person" /\ row = NoRow /\ last["executiveCompanyId"] = "absent"

\* A row that is found is within both bounds of every range, a bound of 0
\* included, as long as one of the two is not 0: "query.x && ..." drops a 0 that
\* stands alone, and only that.
BoundsAreKept ==
    (Named # {} /\ status = 200 /\ found) =>
        LET q == Read(query)
        IN \A b \in ListOf[resource].where.ranges :
             (q[b.from] \notin {"absent", "zero"} \/ q[b.to] \notin {"absent", "zero"}) =>
                /\ row[b.col] # "null"
                /\ q[b.from] # "absent" => Rank[row[b.col]] >= Rank[q[b.from]]
                /\ q[b.to] # "absent" => Rank[row[b.col]] <= Rank[q[b.to]]

\* One parameter more never finds a row that was not found before, although a
\* bound is dropped or kept depending on the other bound of its range.
NarrowingNeverWidens ==
    [][(Named # {} /\ status = 200 /\ status' = 200) => (found' => found)]_vars
=============================================================================
