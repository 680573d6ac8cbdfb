-------------------------------- MODULE Dtos --------------------------------
(* The payloads the routes take: the fields of the dto classes, what          *)
(* class-transformer makes of a value and what class-validator says of it.    *)
(*                                                                            *)
(* A value is one of the classes below: "valid" is a value of the field's own *)
(* type that is small enough (a name also for the full name made of it),      *)
(* "big" one that is not: a text of more than 191 characters, a number beyond *)
(* 32 bits, a date beyond the year 9999, else a text of no use; "empty" is    *)
(* the empty text, "fraction" a number that is no integer, "true" and "false" *)
(* those of JSON, "list" an array of members, "wrong" anything else.          *)

Missing == {"absent", "null"}
Values ==
    Missing \cup {"empty", "zero", "fraction", "valid", "big", "true", "false", "list", "wrong"}

\* A dto: the kinds of its required fields and of its optional ones.
Dto(required, optional) ==
    [f \in DOMAIN required \cup DOMAIN optional |->
        [required |-> f \in DOMAIN required,
         kind |-> IF f \in DOMAIN required THEN required[f] ELSE optional[f]]]

CreateUserBodyDto == Dto(
    [email |-> "email", role |-> "enum", gender |-> "enum"],
    [fullName |-> "text", phoneNumber |-> "text", dob |-> "date", address |-> "text",
     imageLink |-> "text", language |-> "enum"])

CreateExecutiveCompanyBodyDto == Dto(
    [name |-> "text"],
    [businessId |-> "number", geography |-> "text"])

CreateExecutivePersonBodyDto == Dto(
    [firstName |-> "text", lastName |-> "text", email |-> "email"],
    [linkedinProfileUrl |-> "text", phoneNumber |-> "text",
     executiveCompanyId |-> "number", enrichmentStatus |-> "enum",
     intentScore |-> "number"])

CreateFootprintBodyDto == Dto(
    [action |-> "enum", element |-> "enum", priorityLevel |-> "enum",
     intentScore |-> "number", confidence |-> "number", personId |-> "number"],
    [actionDetail |-> "text", deviceUsed |-> "text"])

\* The queries of the list routes, all optional; PaginationQueryDto is in
\* module Pagination.
GetUserListQueryDto == Dto(<< >>,
    [id |-> "number", email |-> "email", password |-> "text", fullName |-> "text",
     phoneNumber |-> "text", status |-> "enum", dobRangeStart |-> "date",
     dobRangeEnd |-> "date", role |-> "enum", gender |-> "enum", address |-> "text",
     imageLink |-> "text", lastActiveRangeStart |-> "date",
     lastActiveRangeEnd |-> "date", forceResetPassword |-> "boolean",
     language |-> "enum", createdAtRangeStart |-> "date", createdAtRangeEnd |-> "date"])

GetExecutiveCompanyListQueryDto == Dto(<< >>,
    [id |-> "number", businessId |-> "number", name |-> "text", geography |-> "text",
     createdAtRangeStart |-> "date", createdAtRangeEnd |-> "date"])

GetExecutivePersonListQueryDto == Dto(<< >>,
    [name |-> "text", position |-> "text", department |-> "text",
     enrichmentStatus |-> "enumArray", intentScoreRangeStart |-> "number",
     intentScoreRangeEnd |-> "number", executiveCompanyId |-> "number",
     createdAtRangeStart |-> "date", createdAtRangeEnd |-> "date"])

GetFootprintListQueryDto == Dto(<< >>,
    [id |-> "number", action |-> "enum", element |-> "enum", actionDetail |-> "text",
     deviceUsed |-> "text", priorityLevel |-> "enum", intentScore |-> "number",
     confidence |-> "number", personId |-> "number",
     createdAtRangeStart |-> "date", createdAtRangeEnd |-> "date"])

GetExecutiveUploadListQueryDto == Dto(<< >>,
    [id |-> "number", fileName |-> "text", filePath |-> "text", quantity |-> "number",
     storageLink |-> "text", executiveCompanyId |-> "number",
     createdAtRangeStart |-> "date", createdAtRangeEnd |-> "date"])
-----------------------------------------------------------------------------
\* Implicit conversion to the reflected type of a field: every scalar becomes a
\* text, the empty text and false become the number 0, true the number 1, and a
\* number, true or false a date.
Convert(kind, v) ==
    IF kind = "boolean" THEN "valid"
    ELSE IF v \in Missing \cup {"list"} THEN v
    ELSE CASE kind = "text" /\ v \notin {"empty", "big"} -> "valid"
           [] kind = "number" /\ v \in {"empty", "false"} -> "zero"
           [] kind = "number" /\ v = "true" -> "valid"
           [] kind = "date" /\ v \in {"zero", "fraction", "true", "false"} -> "valid"
           [] OTHER -> v

\* The values each kind of field validates: none looks at the size, and an email
\* may have more than 191 characters.
Validates == [text |-> {"empty", "valid", "big"}, email |-> {"valid", "big"},
              enum |-> {"valid"}, number |-> {"zero", "fraction", "valid", "big"},
              date |-> {"valid", "big"}, boolean |-> {"valid"}, enumArray |-> {"list"}]

\* Slip: optional fields are not validated.
AcceptsUnchecked(field, v) == field.required => v \in Validates[field.kind] \ {"empty"}

\* IsNotEmpty or IsOptional, and the validator of the kind.
Accepts(field, v) ==
    IF field.required THEN v \in Validates[field.kind] \ {"empty"}
                      ELSE v \in Validates[field.kind] \cup Missing

\* Slip: a field of an update is one that was declared optional.
AcceptsAsOptional(field, v) == Accepts([field EXCEPT !.required = FALSE], v)

\* PartialType: IsOptional beside the validators a field has, IsNotEmpty
\* included; IsOptional lets undefined and null through, no other value.
AcceptsPartially(field, v) == v \in Missing \/ Accepts(field, v)
=============================================================================
