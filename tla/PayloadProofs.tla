--------------------------- MODULE PayloadProofs ----------------------------
(* What the validation of payloads guarantees of the rows and the lists, for  *)
(* any number of odd fields, calls and query parameters.                      *)
EXTENDS Payload, TLAPS

(* How the dtos, the tables and the wheres go together: the five resources    *)
(* are read one by one here, and nowhere else.                                *)

\* Every field of a body is a column that can hold what the field validates; a
\* number may still name no row.
BodyFits(dto, table) ==
    \A f \in DOMAIN dto :
        /\ f \in DOMAIN table
        /\ dto[f].kind \in {"text", "email", "enum", "date", "number"}
        /\ dto[f].kind = "number" => table[f].type \in {"Float", "Key"}
        /\ dto[f].kind \in {"text", "email"} => table[f].type = "String"
        /\ dto[f].kind = "date" => table[f].type = "DateTime"

\* Every needed column is given by a create, gaps aside.
CreateGives(dto, table, added, gaps) ==
    \A c \in DOMAIN table :
        (~table[c].null /\ ~table[c].default) =>
            IF c \in DOMAIN dto THEN dto[c].required \/ c \in gaps ELSE c \in added

\* Every filter of a where reads a parameter of the query, and none a boolean,
\* and the columns it names are there, gaps aside.
ReadBy(where) ==
    where.equal \cup DOMAIN where.contains \cup where.oneOf
    \cup {b.from : b \in where.ranges} \cup {b.to : b \in where.ranges}

WhereReads(where, dto) ==
    \A p \in ReadBy(where) : p \in DOMAIN dto /\ dto[p].kind # "boolean"

WhereNames(where, table, gaps) ==
    /\ where.equal \subseteq DOMAIN table /\ where.oneOf \subseteq DOMAIN table
    /\ \A b \in where.ranges : b.col \in DOMAIN table
    /\ \A p \in DOMAIN where.contains : where.contains[p] \in DOMAIN table \/ p \in gaps

\* A parameter is compared with a column of its own kind: numbers with numbers,
\* and integers only under the name of their column.
Typings(kind) ==
    CASE kind = "number" -> {"Int", "Key", "Float"}
      [] kind = "date" -> {"DateTime"}
      [] kind \in {"text", "email"} -> {"String"}
      [] kind = "enum" -> {"Enum"}
      [] OTHER -> {}

WhereCompares(where, dto, table) ==
    /\ \A p \in where.equal : table[p].type \in Typings(dto[p].kind)
    /\ \A b \in where.ranges : \A p \in {b.from, b.to} :
         /\ dto[p].kind \in {"number", "date"}
         /\ table[b.col].type \in Typings(dto[p].kind) \ {"Int", "Key"}

LEMMA UserFits ==
    /\ BodyFits(CreateUserBodyDto, User)
    /\ CreateGives(CreateUserBodyDto, User, {"password", "forceResetPassword"}, {})
    /\ WhereReads(UserWhere, GetUserListQueryDto)
    /\ WhereCompares(UserWhere, GetUserListQueryDto, User)
    /\ WhereNames(UserWhere, User, {})
  <1>1. BodyFits(CreateUserBodyDto, User)
    BY DEF BodyFits, CreateUserBodyDto, Dto, User, Model
  <1>2. CreateGives(CreateUserBodyDto, User, {"password", "forceResetPassword"}, {})
    BY DEF CreateGives, CreateUserBodyDto, Dto, User, Model
  <1>3. WhereReads(UserWhere, GetUserListQueryDto)
    BY DEF WhereReads, ReadBy, UserWhere, Between, GetUserListQueryDto, Dto
  <1>4. WhereNames(UserWhere, User, {})
    BY DEF WhereNames, UserWhere, Between, User, Model
  <1>5. WhereCompares(UserWhere, GetUserListQueryDto, User)
    <2>1. ASSUME NEW p \in UserWhere.equal
          PROVE  User[p].type \in Typings(GetUserListQueryDto[p].kind)
      BY DEF Typings, UserWhere, Between,
           GetUserListQueryDto, Dto, User, Model
    <2>2. ASSUME NEW b \in UserWhere.ranges, NEW p \in {b.from, b.to}
          PROVE  /\ GetUserListQueryDto[p].kind \in {"number", "date"}
                 /\ User[b.col].type \in Typings(GetUserListQueryDto[p].kind) \ {"Int", "Key"}
      <3>1. /\ b.col \in {"dob", "lastActive"}
            /\ p \in {"dobRangeStart", "dobRangeEnd", "lastActiveRangeStart",
                      "lastActiveRangeEnd"}
        BY DEF UserWhere, Between
      <3>2. User[b.col].type = "DateTime"
        BY <3>1 DEF User, Model
      <3>3. GetUserListQueryDto[p].kind = "date"
        BY <3>1 DEF GetUserListQueryDto, Dto
      <3>4. QED BY <3>2, <3>3 DEF Typings
    <2>3. QED BY <2>1, <2>2 DEF WhereCompares
  <1>6. QED BY <1>1, <1>2, <1>3, <1>4, <1>5

LEMMA CompanyFits ==
    /\ BodyFits(CreateExecutiveCompanyBodyDto, ExecutiveCompany)
    /\ CreateGives(CreateExecutiveCompanyBodyDto, ExecutiveCompany, {}, {})
    /\ WhereReads(ExecutiveCompanyWhere, GetExecutiveCompanyListQueryDto)
    /\ WhereCompares(ExecutiveCompanyWhere, GetExecutiveCompanyListQueryDto, ExecutiveCompany)
    /\ WhereNames(ExecutiveCompanyWhere, ExecutiveCompany, {})
  <1>1. BodyFits(CreateExecutiveCompanyBodyDto, ExecutiveCompany)
    BY DEF BodyFits, CreateExecutiveCompanyBodyDto, Dto, ExecutiveCompany, Model
  <1>2. CreateGives(CreateExecutiveCompanyBodyDto, ExecutiveCompany, {}, {})
    BY DEF CreateGives, CreateExecutiveCompanyBodyDto, Dto, ExecutiveCompany, Model
  <1>3. WhereReads(ExecutiveCompanyWhere, GetExecutiveCompanyListQueryDto)
    BY DEF WhereReads, ReadBy, ExecutiveCompanyWhere, Created, Between,
           GetExecutiveCompanyListQueryDto, Dto
  <1>4. WhereNames(ExecutiveCompanyWhere, ExecutiveCompany, {})
    BY DEF WhereNames, ExecutiveCompanyWhere, Created, Between, ExecutiveCompany, Model
  <1>5. WhereCompares(ExecutiveCompanyWhere, GetExecutiveCompanyListQueryDto, ExecutiveCompany)
    <2>1. ASSUME NEW p \in ExecutiveCompanyWhere.equal
          PROVE  ExecutiveCompany[p].type \in Typings(GetExecutiveCompanyListQueryDto[p].kind)
      BY DEF Typings, ExecutiveCompanyWhere, Created, Between,
           GetExecutiveCompanyListQueryDto, Dto, ExecutiveCompany, Model
    <2>2. ASSUME NEW b \in ExecutiveCompanyWhere.ranges, NEW p \in {b.from, b.to}
          PROVE  /\ GetExecutiveCompanyListQueryDto[p].kind \in {"number", "date"}
                 /\ ExecutiveCompany[b.col].type \in Typings(GetExecutiveCompanyListQueryDto[p].kind) \ {"Int", "Key"}
      BY DEF Typings, ExecutiveCompanyWhere, Created, Between,
           GetExecutiveCompanyListQueryDto, Dto, ExecutiveCompany, Model
    <2>3. QED BY <2>1, <2>2 DEF WhereCompares
  <1>6. QED BY <1>1, <1>2, <1>3, <1>4, <1>5

LEMMA PersonFits ==
    /\ BodyFits(CreateExecutivePersonBodyDto, ExecutivePerson)
    /\ CreateGives(CreateExecutivePersonBodyDto, ExecutivePerson, {"fullName"},
                   {"executiveCompanyId"})
    /\ WhereReads(ExecutivePersonWhere, GetExecutivePersonListQueryDto)
    /\ WhereCompares(ExecutivePersonWhere, GetExecutivePersonListQueryDto, ExecutivePerson)
    /\ WhereNames(ExecutivePersonWhere, ExecutivePerson, {"department", "position"})
  <1>1. BodyFits(CreateExecutivePersonBodyDto, ExecutivePerson)
    BY DEF BodyFits, CreateExecutivePersonBodyDto, Dto, ExecutivePerson, Model
  <1>2. CreateGives(CreateExecutivePersonBodyDto, ExecutivePerson, {"fullName"},
                    {"executiveCompanyId"})
    BY DEF CreateGives, CreateExecutivePersonBodyDto, Dto, ExecutivePerson, Model
  <1>3. WhereReads(ExecutivePersonWhere, GetExecutivePersonListQueryDto)
    BY DEF WhereReads, ReadBy, ExecutivePersonWhere, Created, Between,
           GetExecutivePersonListQueryDto, Dto
  <1>4. WhereNames(ExecutivePersonWhere, ExecutivePerson, {"department", "position"})
    BY DEF WhereNames, ExecutivePersonWhere, Created, Between, ExecutivePerson, Model
  <1>5. WhereCompares(ExecutivePersonWhere, GetExecutivePersonListQueryDto, ExecutivePerson)
    <2>1. ASSUME NEW p \in ExecutivePersonWhere.equal
          PROVE  ExecutivePerson[p].type \in Typings(GetExecutivePersonListQueryDto[p].kind)
      BY DEF Typings, ExecutivePersonWhere, Created, Between,
           GetExecutivePersonListQueryDto, Dto, ExecutivePerson, Model
    <2>2. ASSUME NEW b \in ExecutivePersonWhere.ranges, NEW p \in {b.from, b.to}
          PROVE  /\ GetExecutivePersonListQueryDto[p].kind \in {"number", "date"}
                 /\ ExecutivePerson[b.col].type \in Typings(GetExecutivePersonListQueryDto[p].kind) \ {"Int", "Key"}
      BY DEF Typings, ExecutivePersonWhere, Created, Between,
           GetExecutivePersonListQueryDto, Dto, ExecutivePerson, Model
    <2>3. QED BY <2>1, <2>2 DEF WhereCompares
  <1>6. QED BY <1>1, <1>2, <1>3, <1>4, <1>5

LEMMA FootprintFits ==
    /\ BodyFits(CreateFootprintBodyDto, Footprint)
    /\ CreateGives(CreateFootprintBodyDto, Footprint, {}, {})
    /\ WhereReads(FootprintWhere, GetFootprintListQueryDto)
    /\ WhereCompares(FootprintWhere, GetFootprintListQueryDto, Footprint)
    /\ WhereNames(FootprintWhere, Footprint, {})
  <1>1. BodyFits(CreateFootprintBodyDto, Footprint)
    BY DEF BodyFits, CreateFootprintBodyDto, Dto, Footprint, Model
  <1>2. CreateGives(CreateFootprintBodyDto, Footprint, {}, {})
    BY DEF CreateGives, CreateFootprintBodyDto, Dto, Footprint, Model
  <1>3. WhereReads(FootprintWhere, GetFootprintListQueryDto)
    BY DEF WhereReads, ReadBy, FootprintWhere, Created, Between, GetFootprintListQueryDto, Dto
  <1>4. WhereNames(FootprintWhere, Footprint, {})
    BY DEF WhereNames, FootprintWhere, Created, Between, Footprint, Model
  <1>5. WhereCompares(FootprintWhere, GetFootprintListQueryDto, Footprint)
    <2>1. ASSUME NEW p \in FootprintWhere.equal
          PROVE  Footprint[p].type \in Typings(GetFootprintListQueryDto[p].kind)
      BY DEF Typings, FootprintWhere, Created, Between,
           GetFootprintListQueryDto, Dto, Footprint, Model
    <2>2. ASSUME NEW b \in FootprintWhere.ranges, NEW p \in {b.from, b.to}
          PROVE  /\ GetFootprintListQueryDto[p].kind \in {"number", "date"}
                 /\ Footprint[b.col].type \in Typings(GetFootprintListQueryDto[p].kind) \ {"Int", "Key"}
      BY DEF Typings, FootprintWhere, Created, Between,
           GetFootprintListQueryDto, Dto, Footprint, Model
    <2>3. QED BY <2>1, <2>2 DEF WhereCompares
  <1>6. QED BY <1>1, <1>2, <1>3, <1>4, <1>5

LEMMA UploadFits ==
    /\ BodyFits(Dto(<< >>, << >>), ExecutiveUpload)
    /\ WhereReads(ExecutiveUploadWhere, GetExecutiveUploadListQueryDto)
    /\ WhereCompares(ExecutiveUploadWhere, GetExecutiveUploadListQueryDto, ExecutiveUpload)
    /\ WhereNames(ExecutiveUploadWhere, ExecutiveUpload, {})
  <1>1. BodyFits(Dto(<< >>, << >>), ExecutiveUpload)
    BY DEF BodyFits, Dto
  <1>2. WhereReads(ExecutiveUploadWhere, GetExecutiveUploadListQueryDto)
    BY DEF WhereReads, ReadBy, ExecutiveUploadWhere, Created, Between,
           GetExecutiveUploadListQueryDto, Dto
  <1>3. WhereNames(ExecutiveUploadWhere, ExecutiveUpload, {})
    BY DEF WhereNames, ExecutiveUploadWhere, Created, Between, ExecutiveUpload, Model
  <1>4. WhereCompares(ExecutiveUploadWhere, GetExecutiveUploadListQueryDto, ExecutiveUpload)
    <2>1. ASSUME NEW p \in ExecutiveUploadWhere.equal
          PROVE  ExecutiveUpload[p].type \in Typings(GetExecutiveUploadListQueryDto[p].kind)
      BY DEF Typings, ExecutiveUploadWhere, Created, Between,
           GetExecutiveUploadListQueryDto, Dto, ExecutiveUpload, Model
    <2>2. ASSUME NEW b \in ExecutiveUploadWhere.ranges, NEW p \in {b.from, b.to}
          PROVE  /\ GetExecutiveUploadListQueryDto[p].kind \in {"number", "date"}
                 /\ ExecutiveUpload[b.col].type \in Typings(GetExecutiveUploadListQueryDto[p].kind) \ {"Int", "Key"}
      BY DEF Typings, ExecutiveUploadWhere, Created, Between,
           GetExecutiveUploadListQueryDto, Dto, ExecutiveUpload, Model
    <2>3. QED BY <2>1, <2>2 DEF WhereCompares
  <1>5. QED BY <1>1, <1>2, <1>3, <1>4

\* The gaps: a person without its company, and the parameters that search
\* columns that a person does not have.
CreateGap(r) == IF r = "person" THEN {"executiveCompanyId"} ELSE {}
ListGap(r) == IF r = "person" THEN {"department", "position"} ELSE {}

LEMMA ResourcesFit ==
    ASSUME NEW r \in DOMAIN BodyDto
    PROVE  /\ BodyFits(BodyDto[r], Table[r])
           /\ r # "upload" => CreateGives(BodyDto[r], Table[r], AddedBy[r], CreateGap(r))
           /\ WhereReads(ListOf[r].where, ListOf[r].dto)
           /\ WhereNames(ListOf[r].where, Table[r], ListGap(r))
           /\ WhereCompares(ListOf[r].where, ListOf[r].dto, Table[r])
           /\ Table[r] = ListOf[r].table
  <1>1. r \in {"user", "company", "person", "footprint", "upload"} /\ Table[r] = ListOf[r].table
    BY DEF BodyDto, Table
  <1>2. CASE r = "user"
    BY <1>1, <1>2, UserFits DEF BodyDto, ListOf, AddedBy, CreateGap, ListGap
  <1>3. CASE r = "company"
    BY <1>1, <1>3, CompanyFits DEF BodyDto, ListOf, AddedBy, CreateGap, ListGap
  <1>4. CASE r = "person"
    BY <1>1, <1>4, PersonFits DEF BodyDto, ListOf, AddedBy, CreateGap, ListGap
  <1>5. CASE r = "footprint"
    BY <1>1, <1>5, FootprintFits DEF BodyDto, ListOf, AddedBy, CreateGap, ListGap
  <1>6. CASE r = "upload"
    BY <1>1, <1>6, UploadFits DEF BodyDto, ListOf, AddedBy, CreateGap, ListGap
  <1>7. QED BY <1>1, <1>2, <1>3, <1>4, <1>5, <1>6
-----------------------------------------------------------------------------
(* Types.                                                                     *)

Typed ==
    /\ TypeOK
    /\ resource \in DOMAIN BodyDto
    /\ resource = "upload" => row # NoRow

LEMMA TypedInit == Init => Typed
  <1> SUFFICES ASSUME Init PROVE Typed
    OBVIOUS
  <1>1. resource \in DOMAIN BodyDto
    BY ResourcesAreKnown DEF Init
  <1>2. row = NoRow \/ row \in [DOMAIN Table[resource] -> Held]
    <2>1. "valid" \in Held
      BY DEF Held
    <2>2. row = NoRow \/ row = [c \in DOMAIN Table[resource] |-> "valid"]
      <3>1. row = IF resource = "upload" THEN [c \in DOMAIN Table[resource] |-> "valid"] ELSE NoRow
        BY DEF Init
      <3>2. QED BY <3>1, Zenon
    <2>3. QED BY <2>1, <2>2
  <1>3. last \in [Fields -> Values]
    BY DEF Init, NoneGiven, Values, Missing
  <1>4. query \in [Params -> Values] /\ found \in BOOLEAN
    BY DEF Init, Values, Missing
  <1>5. calls \in 0..MaxCalls /\ status \in {0, 200, 201, 422, 500}
    BY BoundsAreNumbers DEF Init
  <1>6. ASSUME resource = "upload" PROVE row # NoRow
    <2>1. "id" \in DOMAIN Table["upload"]
      BY DEF Table, BodyDto, ListOf, ExecutiveUpload, Model
    <2>2. "id" \in DOMAIN row
      BY <1>6, <2>1 DEF Init
    <2>3. QED BY <2>2 DEF NoRow
  <1>7. TypeOK
    BY <1>2, <1>3, <1>4, <1>5 DEF TypeOK, Held
  <1>8. QED BY <1>1, <1>6, <1>7 DEF Typed

\* The bodies give every field a value, and those of a statement every column.
LEMMA BodiesAreTyped ==
    ASSUME NEW base \in [Fields -> Values], NEW body \in Bodies(base)
    PROVE  body \in [Fields -> Values]
  <1> DEFINE Places == {[{at[i] : i \in 1..MaxOdd} -> Values] : at \in [1..MaxOdd -> Fields]}
             Odds == UNION Places
  <1>1. Bodies(base) =
           {[f \in Fields |-> IF f \in DOMAIN odd THEN odd[f] ELSE base[f]] : odd \in Odds}
    BY DEF Bodies
  <1>2. PICK odd \in Odds :
           body = [f \in Fields |-> IF f \in DOMAIN odd THEN odd[f] ELSE base[f]]
    <2> HIDE DEF Odds
    <2>1. QED BY <1>1
  <1>3. PICK functions \in Places : odd \in functions
    OBVIOUS
  <1>4. PICK at \in [1..MaxOdd -> Fields] : functions = [{at[i] : i \in 1..MaxOdd} -> Values]
    OBVIOUS
  <1>5. \A f \in DOMAIN odd : odd[f] \in Values
    BY <1>3, <1>4
  <1>6. QED BY <1>2, <1>5

LEMMA BasesAreTyped ==
    /\ AllGiven \in [Fields -> Values] /\ NeededGiven \in [Fields -> Values]
    /\ NoneGiven \in [Fields -> Values]
  BY DEF AllGiven, NeededGiven, NoneGiven, Values, Missing

\* What fits a column can be held by it.
LEMMA FitsIsHeld ==
    ASSUME NEW column, NEW v, Fits(column, v), v # "absent"
    PROVE  v \in Held
  BY DEF Fits, OfType, Held, Missing

\* A statement leaves a row of the table, or none where there was none.
LEMMA WriteIsTyped ==
    ASSUME Typed, NEW body, NEW added, NEW ok, Write(Data(body, added), ok)
    PROVE  /\ row' = NoRow \/ row' \in [DOMAIN Table[resource] -> Held]
           /\ row' = row \/ row' # NoRow \/ resource # "upload"
           /\ status' \in {ok, 500}
  <1> DEFINE data == Data(body, added)
             columns == DOMAIN Table[resource]
  <1>1. DOMAIN data = columns
    BY DEF Data
  <1>2. row = NoRow \/ row \in [columns -> Held]
    BY DEF Typed, TypeOK, Held
  <1> HIDE DEF data
  <1>3. CASE \A c \in DOMAIN data : Fits(Table[resource][c], data[c])
    <2>1. row' = Stored(data) /\ status' = ok
      BY <1>3 DEF Write, data
    <2>2. Stored(data) \in [columns -> Held]
      <3>1. \A c \in columns : data[c] # "absent" => data[c] \in Held
        BY <1>1, <1>3, FitsIsHeld
      <3>2. "valid" \in Held /\ "null" \in Held
        BY DEF Held
      <3>3. QED BY <1>1, <1>2, <3>1, <3>2 DEF Stored
    <2>3. resource = "upload" => row' # NoRow
      <3> SUFFICES ASSUME resource = "upload" PROVE row' # NoRow
        OBVIOUS
      <3>1. "id" \in DOMAIN Table["upload"]
        BY DEF Table, BodyDto, ListOf, ExecutiveUpload, Model
      <3>2. "id" \in DOMAIN row'
        BY <2>1, <2>2, <3>1
      <3>3. QED BY <3>2 DEF NoRow
    <2>4. QED BY <2>1, <2>2, <2>3
  <1>4. CASE ~(\A c \in DOMAIN data : Fits(Table[resource][c], data[c]))
    <2>1. UNCHANGED row /\ status' = 500
      BY <1>4 DEF Write, data
    <2>2. QED BY <1>2, <2>1
  <1>5. QED BY <1>3, <1>4

LEMMA SendIsTyped ==
    ASSUME Typed, NEW body \in [Fields -> Values], Send(body)
    PROVE  /\ UNCHANGED <<resource, query, found>>
           /\ last' \in [Fields -> Values] /\ calls' \in 0..MaxCalls
           /\ query' \in [Params -> Values] /\ found' \in BOOLEAN
           /\ last' = body /\ Named = {}
  <1>1. calls \in 0..MaxCalls /\ calls < MaxCalls /\ calls' = calls + 1
    BY DEF Typed, TypeOK, Send
  <1>2. calls' \in 0..MaxCalls
    BY <1>1, BoundsAreNumbers
  <1>3. QED BY <1>2 DEF Typed, TypeOK, Send

\* A body of a create or an update, the row after it and the answer.
LEMMA CreateSends ==
    ASSUME Typed, Create
    PROVE  \E body \in [Fields -> Values] :
             /\ Send(body) /\ row = NoRow
             /\ LET data == Data(Converted(body), AddedBy[resource])
                IN \/ Refuse
                   \/ /\ Passes(Converted(body)) /\ UNCHANGED row /\ status' = 500
                      /\ \E c \in DOMAIN data :
                           /\ ~Table[resource][c].null /\ ~Table[resource][c].default
                           /\ data[c] = "absent"
                   \/ Passes(Converted(body)) /\ Write(data, 201)
  <1> DEFINE Sending(body) ==
               /\ Send(body)
               /\ LET data == Data(Converted(body), AddedBy[resource])
                      needed == {c \in DOMAIN data : ~Table[resource][c].null
                                                     /\ ~Table[resource][c].default}
                  IN IF ~Passes(Converted(body)) THEN Refuse
                     ELSE IF \E c \in needed : data[c] = "absent"
                     THEN UNCHANGED row /\ status' = 500
                     ELSE Write(data, 201)
  <1>1. PICK base \in {AllGiven, NeededGiven} : \E body \in Bodies(base) : Sending(body)
    BY DEF Create
  <1>2. PICK body \in Bodies(base) : Sending(body)
    BY <1>1
  <1>3. body \in [Fields -> Values]
    BY BasesAreTyped, BodiesAreTyped
  <1> DEFINE data == Data(Converted(body), AddedBy[resource])
             needed == {c \in DOMAIN data : ~Table[resource][c].null
                                            /\ ~Table[resource][c].default}
  <1>4. \/ Refuse
        \/ /\ Passes(Converted(body)) /\ UNCHANGED row /\ status' = 500
           /\ \E c \in needed : data[c] = "absent"
        \/ Passes(Converted(body)) /\ Write(data, 201)
    BY <1>2
  <1>5. row = NoRow /\ Send(body)
    BY <1>2 DEF Create
  <1> HIDE DEF data
  <1>6. (\E c \in needed : data[c] = "absent") =>
           \E c \in DOMAIN data : /\ ~Table[resource][c].null /\ ~Table[resource][c].default
                                  /\ data[c] = "absent"
    OBVIOUS
  <1>7. QED BY <1>3, <1>4, <1>5, <1>6 DEF data

LEMMA UpdateSends ==
    ASSUME Typed, Update
    PROVE  \E body \in [Fields -> Values] : \E read \in {body, Converted(body)} :
             /\ Send(body) /\ row # NoRow
             /\ Refuse \/ (PassesPartially(read) /\ Write(Data(read, {}), 200))
  <1>1. PICK body \in Bodies(NoneGiven) :
           /\ Send(body)
           /\ \E read \in {body, Converted(body)} :
                IF PassesPartially(read) THEN Write(Data(read, {}), 200) ELSE Refuse
    BY DEF Update
  <1>2. body \in [Fields -> Values]
    BY BasesAreTyped, BodiesAreTyped
  <1>3. PICK read \in {body, Converted(body)} :
           IF PassesPartially(read) THEN Write(Data(read, {}), 200) ELSE Refuse
    BY <1>1
  <1>4. Refuse \/ (PassesPartially(read) /\ Write(Data(read, {}), 200))
    BY <1>3
  <1>5. row # NoRow
    BY DEF Update
  <1>6. QED BY <1>1, <1>2, <1>4, <1>5

LEMMA TypedCreate == Typed /\ Create => Typed'
  <1> SUFFICES ASSUME Typed, Create PROVE Typed'
    OBVIOUS
  <1>1. PICK body \in [Fields -> Values] :
           /\ Send(body)
           /\ \/ UNCHANGED row /\ status' \in {422, 500}
              \/ Write(Data(Converted(body), AddedBy[resource]), 201)
    BY CreateSends DEF Refuse
  <1>2. /\ UNCHANGED <<resource, query, found>>
        /\ last' \in [Fields -> Values] /\ calls' \in 0..MaxCalls
        /\ query' \in [Params -> Values] /\ found' \in BOOLEAN
    BY <1>1, SendIsTyped
  <1>3. /\ row' = NoRow \/ row' \in [DOMAIN Table[resource] -> Held]
        /\ row' = row \/ row' # NoRow \/ resource # "upload"
        /\ status' \in {201, 422, 500}
    BY <1>1, WriteIsTyped DEF Typed, TypeOK, Held
  <1>4. TypeOK'
    BY <1>2, <1>3 DEF TypeOK, Held, Fields, Params
  <1>5. QED BY <1>2, <1>3, <1>4 DEF Typed

LEMMA TypedUpdate == Typed /\ Update => Typed'
  <1> SUFFICES ASSUME Typed, Update PROVE Typed'
    OBVIOUS
  <1> PICK body \in [Fields -> Values] : \E read \in {body, Converted(body)} :
        /\ Send(body)
        /\ (UNCHANGED row /\ status' = 422) \/ Write(Data(read, {}), 200)
    BY UpdateSends DEF Refuse
  <1>1. PICK read \in {body, Converted(body)} :
           /\ Send(body)
           /\ (UNCHANGED row /\ status' = 422) \/ Write(Data(read, {}), 200)
    OBVIOUS
  <1>2. /\ UNCHANGED <<resource, query, found>>
        /\ last' \in [Fields -> Values] /\ calls' \in 0..MaxCalls
        /\ query' \in [Params -> Values] /\ found' \in BOOLEAN
    BY <1>1, SendIsTyped
  <1>3. /\ row' = NoRow \/ row' \in [DOMAIN Table[resource] -> Held]
        /\ row' = row \/ row' # NoRow \/ resource # "upload"
        /\ status' \in {200, 422, 500}
    BY <1>1, WriteIsTyped DEF Typed, TypeOK, Held
  <1>4. TypeOK'
    BY <1>2, <1>3 DEF TypeOK, Held, Fields, Params
  <1>5. QED BY <1>2, <1>3, <1>4 DEF Typed

\* A list asks with one parameter more than before.
LEMMA ListAsks ==
    ASSUME Typed, List
    PROVE  /\ \E p \in Params \ Named, v \in Sent :
                query' = [query EXCEPT ![p] = v] /\ p \in Named'
           /\ query' \in [Params -> Values]
           /\ UNCHANGED <<resource, row>> /\ row # NoRow
           /\ \/ status' = 422 /\ found' = FALSE
              \/ /\ status' = 500 /\ found' = FALSE
                 /\ \A o \in Params : Accepts(ListOf[resource].dto[o], Read(query')[o])
                 /\ ~Answerable(ListOf[resource].where, Table[resource], Read(query'))
              \/ /\ status' = 200
                 /\ \A o \in Params : Accepts(ListOf[resource].dto[o], Read(query')[o])
                 /\ found' = Finds(ListOf[resource].where, row, Read(query'))
  <1> DEFINE Asking(next) ==
               LET q == Read(next)
                   where == ListOf[resource].where
               IN /\ query' = next
                  /\ IF \E o \in Params : ~Accepts(ListOf[resource].dto[o], q[o])
                     THEN status' = 422 /\ found' = FALSE
                     ELSE IF ~Answerable(where, Table[resource], q)
                     THEN status' = 500 /\ found' = FALSE
                     ELSE status' = 200 /\ found' = Finds(where, row, q)
  <1>1. PICK p \in Params \ Named, v \in Sent : Asking([query EXCEPT ![p] = v])
    BY DEF List
  <1>2. UNCHANGED <<resource, row>> /\ row # NoRow
    BY DEF List
  <1>3. query \in [Params -> Values] /\ v \in Values \ {"absent"}
    BY ParametersAreValues DEF Typed, TypeOK, Missing
  <1>4. query' = [query EXCEPT ![p] = v]
    BY <1>1
  <1>5. query' \in [Params -> Values] /\ query'[p] # "absent"
    BY <1>3, <1>4
  <1>6. p \in Named'
    BY <1>2, <1>5 DEF Named, Params
  <1>7. Asking(query')
    <2> HIDE DEF Asking
    <2>1. QED BY <1>1, <1>4
  <1>8. \/ status' = 422 /\ found' = FALSE
        \/ /\ status' = 500 /\ found' = FALSE
           /\ \A o \in Params : Accepts(ListOf[resource].dto[o], Read(query')[o])
           /\ ~Answerable(ListOf[resource].where, Table[resource], Read(query'))
        \/ /\ status' = 200
           /\ \A o \in Params : Accepts(ListOf[resource].dto[o], Read(query')[o])
           /\ found' = Finds(ListOf[resource].where, row, Read(query'))
    BY <1>7
  <1>9. \E i \in Params \ Named, w \in Sent :
           query' = [query EXCEPT ![i] = w] /\ i \in Named'
    BY <1>4, <1>6
  <1>10. QED BY <1>2, <1>5, <1>8, <1>9, Zenon

LEMMA TypedList == Typed /\ List => Typed'
  <1> SUFFICES ASSUME Typed, List PROVE Typed'
    OBVIOUS
  <1>1. /\ query' \in [Params -> Values] /\ UNCHANGED <<resource, row>>
        /\ status' \in {200, 422, 500}
    BY ListAsks
  <1>2. found' \in BOOLEAN
    BY ListAsks DEF Finds
  <1>3. last' \in [Fields -> Values] /\ calls' \in 0..MaxCalls
    BY BasesAreTyped, BoundsAreNumbers DEF List
  <1>4. TypeOK'
    BY <1>1, <1>2, <1>3 DEF Typed, TypeOK, Fields, Params
  <1>5. QED BY <1>1, <1>4 DEF Typed

LEMMA TypedNext == Typed /\ [Next]_vars => Typed'
  <1> SUFFICES ASSUME Typed, UNCHANGED vars PROVE Typed'
    BY TypedCreate, TypedUpdate, TypedList DEF Next, Done
  <1> QED BY DEF vars, Typed, TypeOK, Fields, Params

\* Every column of a row always holds a value of the classes a column can hold,
\* or null: the statements are refused that would give it another.
THEOREM PayloadTyped == Spec => []TypeOK
  <1>1. Typed => TypeOK
    BY DEF Typed
  <1>2. QED BY <1>1, TypedInit, TypedNext, PTL DEF Spec
-----------------------------------------------------------------------------
(* Rows.                                                                      *)

\* What the required fields of a body hold reaches the row, or nothing does.
LEMMA WriteKeepsRequired ==
    ASSUME Typed, RequiredIsNeverEmptied, UNCHANGED resource,
           NEW read, NEW added, NEW ok, Write(Data(read, added), ok),
           \A f \in Fields : BodyDto[resource][f].required => read[f] # "empty"
    PROVE  RequiredIsNeverEmptied'
  <1> DEFINE data == Data(read, added)
  <1> SUFFICES ASSUME row' # NoRow, NEW f \in Fields, BodyDto[resource][f].required
               PROVE  row'[f] # "empty"
    BY DEF RequiredIsNeverEmptied, Fields
  <1>1. f \in DOMAIN Table[resource]
    BY ResourcesFit DEF Typed, Fields, BodyFits
  <1>2. DOMAIN data = DOMAIN Table[resource] /\ data[f] # "empty"
    BY <1>1 DEF Data
  <1>3. row # NoRow => row[f] # "empty"
    BY DEF RequiredIsNeverEmptied
  <1> HIDE DEF data
  <1>4. CASE row' = Stored(data)
    BY <1>1, <1>2, <1>3, <1>4 DEF Stored
  <1>5. CASE UNCHANGED row
    BY <1>3, <1>5
  <1>6. QED BY <1>4, <1>5 DEF Write, data

LEMMA RequiredNext == Typed /\ RequiredIsNeverEmptied /\ [Next]_vars => RequiredIsNeverEmptied'
  <1> SUFFICES ASSUME Typed, RequiredIsNeverEmptied, [Next]_vars
               PROVE  RequiredIsNeverEmptied'
    OBVIOUS
  <1>1. CASE UNCHANGED <<resource, row>>
    BY <1>1 DEF RequiredIsNeverEmptied, Fields
  <1>2. CASE Create
    <2>1. PICK body \in [Fields -> Values] :
             /\ Send(body)
             /\ \/ UNCHANGED row
                \/ /\ Passes(Converted(body))
                   /\ Write(Data(Converted(body), AddedBy[resource]), 201)
      BY <1>2, CreateSends DEF Refuse
    <2>2. UNCHANGED resource
      BY <2>1, SendIsTyped
    <2>3. CASE UNCHANGED row
      BY <1>1, <2>2, <2>3
    <2>4. CASE Passes(Converted(body)) /\ Write(Data(Converted(body), AddedBy[resource]), 201)
      <3>1. \A f \in Fields : BodyDto[resource][f].required => Converted(body)[f] # "empty"
        BY <2>4 DEF Passes, Accepts
      <3>2. QED BY <2>2, <2>4, <3>1, WriteKeepsRequired
    <2>5. QED BY <2>1, <2>3, <2>4
  <1>3. CASE Update
    <2> PICK body \in [Fields -> Values] : \E read \in {body, Converted(body)} :
          /\ Send(body)
          /\ UNCHANGED row \/ (PassesPartially(read) /\ Write(Data(read, {}), 200))
      BY <1>3, UpdateSends DEF Refuse
    <2>1. PICK read \in {body, Converted(body)} :
             /\ Send(body)
             /\ UNCHANGED row \/ (PassesPartially(read) /\ Write(Data(read, {}), 200))
      OBVIOUS
    <2>2. UNCHANGED resource
      BY <2>1, SendIsTyped
    <2>3. CASE UNCHANGED row
      BY <1>1, <2>2, <2>3
    <2>4. CASE PassesPartially(read) /\ Write(Data(read, {}), 200)
      <3>1. \A f \in Fields : BodyDto[resource][f].required => read[f] # "empty"
        BY <2>4 DEF PassesPartially, AcceptsPartially, Accepts, Missing
      <3>2. QED BY <2>2, <2>4, <3>1, WriteKeepsRequired
    <2>5. QED BY <2>1, <2>3, <2>4
  <1>4. QED BY <1>1, <1>2, <1>3 DEF Next, List, Done, vars

\* However creates and updates follow each other, a text or an email that the
\* create requires is never empty in the row: PartialType keeps IsNotEmpty.
THEOREM RequiredStays == Spec => []RequiredIsNeverEmptied
  <1>1. Init => RequiredIsNeverEmptied
    <2> SUFFICES ASSUME Init, row # NoRow PROVE Fields = {}
      BY DEF RequiredIsNeverEmptied
    <2>1. resource = "upload"
      BY DEF Init
    <2>2. QED BY <2>1 DEF Fields, BodyDto, Dto
  <1>2. QED BY <1>1, TypedInit, TypedNext, RequiredNext, PTL DEF Spec
-----------------------------------------------------------------------------
(* Internal errors.                                                           *)

\* A conversion invents no null, leaves nothing out and makes nothing bigger, and
\* of what a number accepts only what was no number of a row becomes zero or a
\* fraction.
LEMMA ConvertKeeps ==
    ASSUME NEW kind \in {"text", "email", "enum", "date", "number"}, NEW v \in Values
    PROVE  /\ Convert(kind, v) = "null" => v = "null"
           /\ Convert(kind, v) = "absent" => v = "absent"
           /\ Convert(kind, v) = "big" => v = "big"
           /\ kind = "number" /\ Convert(kind, v) \in {"zero", "fraction"} =>
                v \notin {"absent", "null", "valid"}
  BY DEF Convert, Values, Missing

\* What a field lets through and its column cannot hold.
LEMMA OnlyGapsDoNotFit ==
    ASSUME NEW dto, NEW table, BodyFits(dto, table), NEW f \in DOMAIN dto, NEW v,
           AcceptsPartially(dto[f], v), ~Fits(table[f], v)
    PROVE  \/ v = "null" /\ ~table[f].null
           \/ dto[f].kind = "number" /\ table[f].type = "Key" /\ v \in {"zero", "fraction", "big"}
           \/ v = "big" /\ table[f].type \in {"String", "DateTime"}
  <1> DEFINE kind == dto[f].kind
             type == table[f].type
  <1>1. /\ kind \in {"text", "email", "enum", "date", "number"}
        /\ kind \in {"text", "email"} => type = "String"
        /\ kind = "date" => type = "DateTime"
        /\ kind = "number" => type \in {"Float", "Key"}
    BY DEF BodyFits
  <1>2. v \in Validates[kind] \cup Missing
    BY DEF AcceptsPartially, Accepts
  <1>3. /\ v \in Missing \cup {"empty", "zero", "fraction", "valid", "big"}
        /\ v = "empty" => kind = "text"
        /\ v = "big" => kind \in {"text", "email", "date", "number"}
        /\ v \in {"zero", "fraction"} => kind = "number"
    BY <1>1, <1>2 DEF Validates, Missing
  <1> HIDE DEF kind, type
  <1>4. QED BY <1>1, <1>3 DEF Fits, OfType, Missing, kind, type

\* The fields of a body that a statement may fail for: UnfitField, of any body.
Unfit(body, f) ==
    \/ body[f] = "null" /\ ~Table[resource][f].null
    \/ body[f] \notin {"absent", "null", "valid"} /\ Table[resource][f].type = "Key"
    \/ body[f] = "big" /\ Table[resource][f].type \in {"String", "DateTime"}

LEMMA WriteFailsForGaps ==
    ASSUME Typed, NEW body \in [Fields -> Values], NEW read \in {body, Converted(body)},
           PassesPartially(read), NEW added, NEW ok \in {200, 201},
           Write(Data(read, added), ok), status' = 500
    PROVE  UNCHANGED row /\ \E f \in Fields : Unfit(body, f)
  <1> DEFINE data == Data(read, added)
             dto == BodyDto[resource]
             table == Table[resource]
  <1>1. UNCHANGED row /\ \E c \in DOMAIN data : ~Fits(table[c], data[c])
    BY DEF Write
  <1>2. PICK c \in DOMAIN table : ~Fits(table[c], data[c])
    BY <1>1 DEF Data
  <1>3. c \in Fields /\ data[c] = read[c]
    <2>1. data[c] = IF c \in Fields THEN read[c] ELSE IF c \in added THEN "valid" ELSE "absent"
      BY DEF Data
    <2>2. Fits(table[c], "valid") /\ Fits(table[c], "absent")
      BY DEF Fits, OfType, Missing
    <2>3. QED BY <1>2, <2>1, <2>2
  <1>4. BodyFits(dto, table) /\ Fields = DOMAIN dto
    BY ResourcesFit DEF Typed, Fields
  <1>5. AcceptsPartially(dto[c], read[c])
    BY <1>3 DEF PassesPartially
  <1> HIDE DEF dto, table, data
  <1>6. \/ read[c] = "null" /\ ~table[c].null
        \/ /\ dto[c].kind = "number" /\ table[c].type = "Key"
           /\ read[c] \in {"zero", "fraction", "big"}
        \/ read[c] = "big" /\ table[c].type \in {"String", "DateTime"}
    BY <1>2, <1>3, <1>4, <1>5, OnlyGapsDoNotFit
  <1>7. /\ read[c] = "null" => body[c] = "null"
        /\ read[c] = "big" => body[c] = "big"
        /\ dto[c].kind = "number" /\ read[c] \in {"zero", "fraction"} =>
             body[c] \notin {"absent", "null", "valid"}
    <2>1. CASE read = body
      BY <2>1
    <2>2. CASE read = Converted(body)
      <3>1. read[c] = Convert(dto[c].kind, body[c])
        BY <1>3, <2>2 DEF Converted, dto
      <3>2. dto[c].kind \in {"text", "email", "enum", "date", "number"} /\ body[c] \in Values
        BY <1>3, <1>4 DEF BodyFits
      <3>3. QED BY <3>1, <3>2, ConvertKeeps
    <2>3. QED BY <2>1, <2>2
  <1>8. QED BY <1>1, <1>3, <1>6, <1>7 DEF Unfit, table

\* The columns that a create may leave without a value.
LEMMA CreateLeavesGaps ==
    ASSUME Typed, NEW body \in [Fields -> Values], Passes(Converted(body)), row = NoRow,
           NEW c \in DOMAIN Table[resource],
           ~Table[resource][c].null, ~Table[resource][c].default,
           Data(Converted(body), AddedBy[resource])[c] = "absent"
    PROVE  resource = "person" /\ body["executiveCompanyId"] = "absent"
  <1> DEFINE dto == BodyDto[resource]
             read == Converted(body)
  <1>1. /\ CreateGives(dto, Table[resource], AddedBy[resource], CreateGap(resource))
        /\ BodyFits(dto, Table[resource])
    BY ResourcesFit DEF Typed
  <1>2. c \in Fields /\ read[c] = "absent"
    <2>1. Data(read, AddedBy[resource])[c] =
            IF c \in Fields THEN read[c] ELSE IF c \in AddedBy[resource] THEN "valid" ELSE "absent"
      BY DEF Data
    <2>2. c \in Fields \/ c \in AddedBy[resource]
      BY <1>1 DEF CreateGives, Fields
    <2>3. QED BY <2>1, <2>2
  <1>3. ~dto[c].required
    <2>1. Accepts(dto[c], read[c]) /\ dto[c].kind \in {"text", "email", "enum", "date", "number"}
      BY <1>1, <1>2 DEF Passes, BodyFits, Fields
    <2>2. QED BY <1>2, <2>1 DEF Accepts, Validates
  <1>4. c \in CreateGap(resource)
    BY <1>1, <1>2, <1>3 DEF CreateGives, Fields
  <1>5. resource = "person" /\ c = "executiveCompanyId"
    BY <1>4 DEF CreateGap
  <1>6. read[c] = Convert(dto[c].kind, body[c])
    BY <1>2 DEF Converted
  <1>7. body[c] = "absent"
    <2>1. dto[c].kind \in {"text", "email", "enum", "date", "number"} /\ body[c] \in Values
      BY <1>1, <1>2 DEF BodyFits, Fields
    <2>2. QED BY <1>2, <1>6, <2>1, ConvertKeeps
  <1>8. QED BY <1>5, <1>7

\* The parameters that a list may fail for: one that searches a column the table
\* does not have, or one whose value is not of its column's type.
LEMMA ListFailsForGaps ==
    ASSUME Typed, row # NoRow, NEW q,
           ~Answerable(ListOf[resource].where, Table[resource], q)
    PROVE  \/ \E p \in ListGap(resource) : Given(q, p)
           \/ \E p \in ListOf[resource].where.equal : ~OfType(Table[resource][p], q[p])
           \/ \E b \in ListOf[resource].where.ranges : \E p \in {b.from, b.to} :
                ~OfType(Table[resource][b.col], q[p])
  <1> DEFINE where == ListOf[resource].where
             table == Table[resource]
  <1>1. WhereNames(where, table, ListGap(resource))
    BY ResourcesFit DEF Typed
  <1>2. ~(Used(where, q) \subseteq DOMAIN table)
        \/ (\E p \in Compared(where, q) : ~OfType(table[p], q[p]))
        \/ \E b \in Ranged(where, q) : \E p \in {b.from, b.to} : ~OfType(table[b.col], q[p])
    BY DEF Answerable
  <1> HIDE DEF where, table
  <1>3. CASE ~(Used(where, q) \subseteq DOMAIN table)
    <2>1. PICK c \in Used(where, q) : c \notin DOMAIN table
      BY <1>3
    <2>2. \E p \in Searched(where, q) : c = where.contains[p]
      BY <1>1, <2>1 DEF Used, WhereNames, Compared, Listed, Ranged
    <2>3. QED BY <1>1, <2>1, <2>2 DEF Searched, WhereNames
  <1>4. QED BY <1>2, <1>3 DEF Compared, Ranged, where, table

\* A value that a parameter accepts and that is not of its column's type.
LEMMA NotOfType ==
    ASSUME NEW field, NEW column, NEW v, Accepts(field, v),
           column.type \in Typings(field.kind), ~OfType(column, v)
    PROVE  \/ field.kind = "number" /\ column.type \in {"Int", "Key"} /\ v \in {"fraction", "big"}
           \/ field.kind = "date" /\ v = "big"
  <1> DEFINE kind == field.kind
             type == column.type
  <1>1. v \in Validates[kind] \cup Missing
    BY DEF Accepts
  <1>2. v \notin Missing
    BY DEF OfType, Missing
  <1> HIDE DEF kind, type
  <1>3. CASE kind = "number" /\ type \in {"Int", "Key", "Float"}
    BY <1>1, <1>2, <1>3 DEF OfType, Missing, Validates, kind, type
  <1>4. CASE kind = "date" /\ type = "DateTime"
    BY <1>1, <1>2, <1>4 DEF OfType, Missing, Validates, kind, type
  <1>5. CASE kind \in {"text", "email"} /\ type = "String"
    <2>1. v \in {"empty", "valid", "big"}
      BY <1>1, <1>2, <1>5 DEF Validates
    <2>2. QED BY <1>5, <2>1 DEF OfType, Missing, type
  <1>6. CASE kind = "enum"
    <2>1. v = "valid"
      BY <1>1, <1>2, <1>6 DEF Validates
    <2>2. QED BY <2>1 DEF OfType, Missing
  <1>7. type \in Typings(kind)
    BY DEF kind, type
  <1>8. QED BY <1>3, <1>4, <1>5, <1>6, <1>7 DEF Typings

\* The parameter of a list that failed is one of those that may.
LEMMA ListFails ==
    ASSUME Typed, List, status' = 500
    PROVE  \E p \in Named' : UnfitParam(p)'
  <1> DEFINE where == ListOf[resource].where
             dto == ListOf[resource].dto
             table == Table[resource]
             q == Read(query')
  <1>1. /\ query' \in [Params -> Values] /\ UNCHANGED <<resource, row>> /\ row # NoRow
        /\ ~Answerable(where, table, q)
        /\ \A o \in Params : Accepts(dto[o], q[o])
    BY ListAsks
  <1>2. ASSUME NEW p \in Params
        PROVE  /\ q[p] = Convert(dto[p].kind, query'[p]) /\ query'[p] \in Values
               /\ query'[p] # "absent" => p \in Named'
    BY <1>1 DEF Read, Named, Params
  <1>3. ASSUME NEW p \in ListGap(resource), Given(q, p) PROVE p \in Named' /\ UnfitParam(p)'
    <2>1. resource = "person" /\ p \in {"department", "position"}
      BY <1>3 DEF ListGap
    <2>2. p \in Params /\ dto[p].kind = "text"
      BY <2>1 DEF Params, ListOf, GetExecutivePersonListQueryDto, Dto
    <2>3. query'[p] # "absent"
      BY <1>2, <1>3, <2>2 DEF Given, Convert, Missing
    <2>4. QED BY <1>2, <2>1, <2>2, <2>3 DEF UnfitParam
  <1>4. /\ WhereCompares(where, dto, table)
        /\ \A p \in ReadBy(where) : p \in Params
        /\ where.equal \subseteq DOMAIN table
    BY ResourcesFit DEF Typed, WhereReads, WhereNames, Params
  <1> HIDE DEF where, dto, table, q
  <1>5. ASSUME NEW p \in Params, q[p] \in {"fraction", "big"}, dto[p].kind \in {"number", "date"},
               dto[p].kind = "date" => q[p] = "big"
        PROVE  query'[p] = q[p] /\ p \in Named'
    <2>1. query'[p] = q[p]
      BY <1>2, <1>5 DEF Convert, Values, Missing
    <2>2. QED BY <1>2, <1>5, <2>1
  <1>6. ASSUME NEW p \in where.equal, ~OfType(table[p], q[p]) PROVE p \in Named' /\ UnfitParam(p)'
    <2>1. p \in Params /\ table[p].type \in Typings(dto[p].kind) /\ p \in DOMAIN table
      BY <1>4 DEF WhereCompares, ReadBy
    <2>2. \/ dto[p].kind = "number" /\ table[p].type \in {"Int", "Key"} /\ q[p] \in {"fraction", "big"}
          \/ dto[p].kind = "date" /\ q[p] = "big"
      BY <1>1, <1>6, <2>1, NotOfType
    <2>3. query'[p] = q[p] /\ p \in Named'
      BY <1>5, <2>1, <2>2
    <2>4. QED BY <1>1, <2>1, <2>2, <2>3 DEF UnfitParam, table, dto
  <1>7. ASSUME NEW b \in where.ranges, NEW p \in {b.from, b.to}, ~OfType(table[b.col], q[p])
        PROVE  p \in Named' /\ UnfitParam(p)'
    <2>1. p \in Params
      BY <1>4 DEF ReadBy
    <2>2. table[b.col].type \in Typings(dto[p].kind) \ {"Int", "Key"}
      BY <1>4 DEF WhereCompares
    <2>3. dto[p].kind = "date" /\ q[p] = "big"
      BY <1>1, <1>7, <2>1, <2>2, NotOfType
    <2>4. query'[p] = q[p] /\ p \in Named'
      BY <1>5, <2>1, <2>3
    <2>5. QED BY <1>1, <2>3, <2>4 DEF UnfitParam, dto
  <1>8. \/ \E p \in ListGap(resource) : Given(q, p)
        \/ \E p \in where.equal : ~OfType(table[p], q[p])
        \/ \E b \in where.ranges : \E p \in {b.from, b.to} : ~OfType(table[b.col], q[p])
    BY <1>1, ListFailsForGaps DEF where, dto, table
  <1>9. QED BY <1>3, <1>6, <1>7, <1>8

LEMMA OnlyGapsNext == Typed /\ OnlyKnownGapsFail /\ [Next]_vars => OnlyKnownGapsFail'
  <1> SUFFICES ASSUME Typed, OnlyKnownGapsFail, [Next]_vars, status' = 500
               PROVE  OnlyKnownGapsFail'
    BY DEF OnlyKnownGapsFail
  <1>1. CASE Create
    <2>1. PICK body \in [Fields -> Values] :
             /\ Send(body) /\ row = NoRow
             /\ LET data == Data(Converted(body), AddedBy[resource])
                IN \/ Refuse
                   \/ /\ Passes(Converted(body)) /\ UNCHANGED row /\ status' = 500
                      /\ \E c \in DOMAIN data :
                           /\ ~Table[resource][c].null /\ ~Table[resource][c].default
                           /\ data[c] = "absent"
                   \/ Passes(Converted(body)) /\ Write(data, 201)
      BY <1>1, CreateSends
    <2>2. UNCHANGED <<resource, query>> /\ last' = body /\ Named' = {} /\ Fields' = Fields
      BY <2>1, SendIsTyped DEF Named, Params, Fields
    <2>3. CASE \E f \in Fields : Unfit(body, f)
      BY <2>2, <2>3 DEF OnlyKnownGapsFail, Unfit, UnfitField
    <2>4. CASE /\ UNCHANGED row /\ resource = "person" /\ body["executiveCompanyId"] = "absent"
      BY <2>1, <2>2, <2>4 DEF OnlyKnownGapsFail
    <2>5. CASE Passes(Converted(body)) /\ Write(Data(Converted(body), AddedBy[resource]), 201)
      <3>1. PassesPartially(Converted(body))
        BY <2>5 DEF Passes, PassesPartially, AcceptsPartially
      <3>2. QED BY <2>3, <2>5, <3>1, WriteFailsForGaps
    <2>6. CASE /\ Passes(Converted(body)) /\ UNCHANGED row
               /\ \E c \in DOMAIN Data(Converted(body), AddedBy[resource]) :
                    /\ ~Table[resource][c].null /\ ~Table[resource][c].default
                    /\ Data(Converted(body), AddedBy[resource])[c] = "absent"
      <3>1. DOMAIN Data(Converted(body), AddedBy[resource]) = DOMAIN Table[resource]
        BY DEF Data
      <3>2. resource = "person" /\ body["executiveCompanyId"] = "absent"
        BY <2>1, <2>6, <3>1, CreateLeavesGaps
      <3>3. QED BY <2>4, <2>6, <3>2
    <2>7. QED BY <2>1, <2>5, <2>6 DEF Refuse
  <1>2. CASE Update
    <2>1. PICK body \in [Fields -> Values] : \E read \in {body, Converted(body)} :
             /\ Send(body)
             /\ Refuse \/ (PassesPartially(read) /\ Write(Data(read, {}), 200))
      BY <1>2, UpdateSends
    <2>2. UNCHANGED <<resource, query>> /\ last' = body /\ Named' = {} /\ Fields' = Fields
      BY <2>1, SendIsTyped DEF Named, Params, Fields
    <2>3. PICK read \in {body, Converted(body)} : PassesPartially(read) /\ Write(Data(read, {}), 200)
      BY <2>1 DEF Refuse
    <2>4. \E f \in Fields : Unfit(body, f)
      BY <2>3, WriteFailsForGaps
    <2>5. QED BY <2>2, <2>4 DEF OnlyKnownGapsFail, Unfit, UnfitField
  <1>3. CASE List
    <2>1. \E p \in Named' : UnfitParam(p)'
      BY <1>3, ListFails
    <2>2. QED BY <2>1 DEF OnlyKnownGapsFail
  <1>4. CASE UNCHANGED vars
    BY <1>4 DEF vars, OnlyKnownGapsFail, UnfitField, UnfitParam, Fields, Named, Params
  <1>5. QED BY <1>1, <1>2, <1>3, <1>4 DEF Next, Done

\* Whatever is sent, in any number of bodies and queries with any number of odd
\* values, a statement fails only for a body or a parameter that is listed: the
\* pipe answers everything else that a column cannot hold or be compared with.
THEOREM OnlyGapsFail == Spec => []OnlyKnownGapsFail
  <1>1. Init => OnlyKnownGapsFail
    BY DEF Init, OnlyKnownGapsFail
  <1>2. QED BY <1>1, TypedInit, TypedNext, OnlyGapsNext, PTL DEF Spec
-----------------------------------------------------------------------------
(* Lists.                                                                     *)

\* The last list that was answered passed the pipe and found what the query kept
\* since asks for; no parameter is ever null.
Answered ==
    /\ \A p \in Params : query[p] # "null"
    /\ (Named # {} /\ status = 200) =>
         /\ found = Finds(ListOf[resource].where, row, Read(query))
         /\ \A o \in Params : Accepts(ListOf[resource].dto[o], Read(query)[o])

LEMMA AnsweredInit == Init => Answered
  BY DEF Init, Answered, Named

LEMMA AnsweredNext == Typed /\ Answered /\ [Next]_vars => Answered'
  <1> SUFFICES ASSUME Typed, Answered, [Next]_vars PROVE Answered'
    OBVIOUS
  <1>1. CASE Create \/ Update
    <2>1. \E body : Send(body)
      BY <1>1, CreateSends, UpdateSends
    <2>2. UNCHANGED <<resource, query>> /\ Named' = {} /\ Params' = Params
      BY <2>1 DEF Send, Named, Params
    <2>3. QED BY <2>2 DEF Answered
  <1>2. CASE List
    <2>1. PICK p \in Params \ Named, v \in Sent : query' = [query EXCEPT ![p] = v]
      BY <1>2, ListAsks
    <2>2. UNCHANGED <<resource, row>> /\ Params' = Params /\ Read(query)' = Read(query')
      BY <1>2, ListAsks DEF Params, Read
    <2>3. v # "null"
      BY ParametersAreValues DEF Missing
    <2>4. \A o \in Params : query'[o] # "null"
      BY <2>1, <2>3 DEF Answered, Typed, TypeOK
    <2>5. status' = 200 =>
             /\ found' = Finds(ListOf[resource].where, row, Read(query'))
             /\ \A o \in Params : Accepts(ListOf[resource].dto[o], Read(query')[o])
      BY <1>2, ListAsks
    <2>6. QED BY <2>2, <2>4, <2>5 DEF Answered
  <1>3. CASE UNCHANGED vars
    <2>1. Named' = Named /\ Read(query)' = Read(query) /\ Params' = Params
      BY <1>3 DEF vars, Named, Read, Params
    <2>2. QED BY <1>3, <2>1 DEF Answered, vars
  <1>4. QED BY <1>1, <1>2, <1>3 DEF Next, Done

\* A bound that the pipe accepted is of a kind that has an order: it is none, 0
\* or one that "query.x && ..." puts to use.
LEMMA BoundsAreGiven ==
    ASSUME Typed, Answered, Named # {}, status = 200,
           NEW b \in ListOf[resource].where.ranges, NEW p \in {b.from, b.to},
           Read(query)[p] \notin {"absent", "zero"}
    PROVE  Given(Read(query), p)
  <1> DEFINE dto == ListOf[resource].dto
             where == ListOf[resource].where
             v == Read(query)[p]
  <1>1. WhereCompares(where, dto, Table[resource]) /\ p \in Params
    BY ResourcesFit DEF Typed, WhereReads, ReadBy, Params
  <1>2. dto[p].kind \in {"number", "date"}
    BY <1>1 DEF WhereCompares
  <1>3. v = Convert(dto[p].kind, query[p]) /\ query[p] # "null" /\ Accepts(dto[p], v)
    BY <1>1 DEF Read, Answered
  <1>4. v # "null" /\ v # "empty"
    <2>1. v \in Validates[dto[p].kind] \cup Missing
      BY <1>3 DEF Accepts
    <2>2. v # "empty"
      BY <1>2, <2>1 DEF Validates, Missing
    <2>3. v # "null"
      BY <1>2, <1>3 DEF Convert
    <2>4. QED BY <2>2, <2>3
  <1>5. QED BY <1>4 DEF Given, Missing

\* A bound of a range is kept, unless it is 0 and stands alone.
THEOREM BoundsStay == Spec => []BoundsAreKept
  <1>1. ASSUME Typed, Answered, Named # {}, status = 200, found,
               NEW b \in ListOf[resource].where.ranges,
               \/ Read(query)[b.from] \notin {"absent", "zero"}
               \/ Read(query)[b.to] \notin {"absent", "zero"}
        PROVE  Within(row[b.col], Read(query)[b.from], Read(query)[b.to])
    <2>1. b \in Ranged(ListOf[resource].where, Read(query))
      BY <1>1, BoundsAreGiven DEF Ranged
    <2>2. QED BY <1>1, <2>1 DEF Answered, Finds
  <1>2. Typed /\ Answered => BoundsAreKept
    BY <1>1 DEF BoundsAreKept, Within
  <1>3. QED BY <1>2, AnsweredInit, TypedInit, TypedNext, AnsweredNext, PTL DEF Spec

\* A filter that was put to use by a query is by every query that gives one
\* parameter more, with the same values.
Extends(where, q, r) ==
    \A p \in ReadBy(where) : r[p] = q[p] \/ q[p] = "absent"

LEMMA ExtendedFindsLess ==
    ASSUME NEW where, NEW q, NEW r, NEW line, Extends(where, q, r), Finds(where, line, r)
    PROVE  Finds(where, line, q)
  <1>1. \A p \in ReadBy(where) : Given(q, p) => Given(r, p) /\ r[p] = q[p]
    BY DEF Extends, Given, Missing
  <1>2. \A p \in Compared(where, q) : line[p] = q[p]
    BY <1>1 DEF Compared, ReadBy, Finds
  <1>3. \A p \in Searched(where, q) : line[where.contains[p]] = q[p]
    BY <1>1 DEF Searched, ReadBy, Finds
  <1>4. \A p \in Listed(where, q) : line[p] = "valid"
    BY <1>1 DEF Listed, ReadBy, Finds
  <1>5. ASSUME NEW b \in Ranged(where, q) PROVE Within(line[b.col], q[b.from], q[b.to])
    <2>1. b \in where.ranges /\ b.from \in ReadBy(where) /\ b.to \in ReadBy(where)
      BY DEF Ranged, ReadBy
    <2>2. b \in Ranged(where, r)
      BY <1>1, <2>1 DEF Ranged
    <2>3. Within(line[b.col], r[b.from], r[b.to])
      BY <2>2 DEF Finds
    <2>4. /\ r[b.from] = q[b.from] \/ q[b.from] = "absent"
          /\ r[b.to] = q[b.to] \/ q[b.to] = "absent"
      BY <2>1 DEF Extends
    <2>5. QED BY <2>3, <2>4 DEF Within
  <1>6. QED BY <1>2, <1>3, <1>4, <1>5 DEF Finds

\* One parameter more is one filter more: the where of a list reads none that
\* the conversion makes up.
LEMMA OneMoreExtends ==
    ASSUME Typed, NEW p \in Params \ Named, NEW v, query' = [query EXCEPT ![p] = v],
           UNCHANGED resource
    PROVE  Extends(ListOf[resource].where, Read(query), Read(query'))
  <1> DEFINE where == ListOf[resource].where
             dto == ListOf[resource].dto
  <1> SUFFICES ASSUME NEW o \in ReadBy(where)
               PROVE  Read(query')[o] = Read(query)[o] \/ Read(query)[o] = "absent"
    BY DEF Extends
  <1>1. o \in Params /\ dto[o].kind # "boolean"
    BY ResourcesFit DEF Typed, WhereReads, Params
  <1>2. /\ Read(query)[o] = Convert(dto[o].kind, query[o])
        /\ Read(query')[o] = Convert(dto[o].kind, query'[o])
    BY <1>1 DEF Read
  <1>3. query \in [Params -> Values]
    BY DEF Typed, TypeOK
  <1>4. CASE o = p
    <2>1. query[o] = "absent"
      BY <1>1, <1>4 DEF Named
    <2>2. QED BY <1>1, <1>2, <2>1 DEF Convert, Missing
  <1>5. CASE o # p
    <2>1. query'[o] = query[o]
      BY <1>1, <1>3, <1>5
    <2>2. QED BY <1>2, <2>1
  <1>6. QED BY <1>4, <1>5

\* A list that is asked again with one filter more finds no row that it did not
\* find before: a bound that "query.x && ..." drops is not taken up by the other
\* bound of its range.
THEOREM NarrowedListsShrink == Spec => NarrowingNeverWidens
  <1> DEFINE Shrinks == (Named # {} /\ status = 200 /\ status' = 200) => (found' => found)
  <1>1. Init => Answered
    BY AnsweredInit
  <1>2. Typed /\ Answered /\ [Next]_vars => [Shrinks]_vars
    <2> SUFFICES ASSUME Typed, Answered, Next, Named # {}, status = 200, status' = 200, found'
                 PROVE  found
      BY DEF vars
    <2>1. found = Finds(ListOf[resource].where, row, Read(query))
      BY DEF Answered
    <2>2. CASE Create \/ Update
      <3>1. \E body : Send(body)
        BY <2>2, CreateSends, UpdateSends
      <3>2. QED BY <3>1 DEF Send
    <2>3. CASE List
      <3>1. PICK p \in Params \ Named, v \in Sent : query' = [query EXCEPT ![p] = v]
        BY <2>3, ListAsks
      <3>2. /\ UNCHANGED resource
            /\ found' = Finds(ListOf[resource].where, row, Read(query'))
        BY <2>3, ListAsks
      <3>3. Extends(ListOf[resource].where, Read(query), Read(query'))
        BY <3>1, <3>2, OneMoreExtends
      <3>4. QED BY <2>1, <3>2, <3>3, ExtendedFindsLess
    <2>4. CASE UNCHANGED vars
      BY <2>4 DEF vars
    <2>5. QED BY <2>2, <2>3, <2>4 DEF Next, Done
  <1>3. Spec => [](Typed /\ Answered)
    BY <1>1, TypedInit, TypedNext, AnsweredNext, PTL DEF Spec
  <1>4. Spec => [][Shrinks]_vars
    BY <1>2, <1>3, PTL DEF Spec
  <1>5. QED BY <1>4 DEF NarrowingNeverWidens
=============================================================================
