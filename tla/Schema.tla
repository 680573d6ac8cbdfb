------------------------------- MODULE Schema -------------------------------
(* The columns of the tables the routes write and list: what schema.prisma    *)
(* lets each of them hold.  updatedAt and deletedAt, which only Prisma and    *)
(* its middleware write, are left out.                                        *)
EXTENDS Dtos

\* A table: its columns without a default, the nullable ones, and those with
\* one, by type.  A Key is an Int that must name a row of another table.
Model(needed, nullable, defaulted) ==
    [c \in DOMAIN needed \cup DOMAIN nullable \cup DOMAIN defaulted |->
        [null |-> c \in DOMAIN nullable, default |-> c \in DOMAIN defaulted,
         type |-> IF c \in DOMAIN needed THEN needed[c]
                  ELSE IF c \in DOMAIN nullable THEN nullable[c] ELSE defaulted[c]]]

User == Model(
    [email |-> "String", password |-> "String", role |-> "Enum"],
    [fullName |-> "String", phoneNumber |-> "String", dob |-> "DateTime",
     address |-> "String", imageLink |-> "String", lastActive |-> "DateTime"],
    [id |-> "Int", status |-> "Enum", gender |-> "Enum", forceResetPassword |-> "Boolean",
     language |-> "Enum", createdAt |-> "DateTime"])

ExecutiveCompany == Model(
    [name |-> "String"],
    [businessId |-> "Key", geography |-> "String"],
    [id |-> "Int", createdAt |-> "DateTime"])

ExecutivePerson == Model(
    [firstName |-> "String", lastName |-> "String", fullName |-> "String",
     email |-> "String", executiveCompanyId |-> "Key"],
    [linkedinProfileUrl |-> "String", phoneNumber |-> "String",
     executiveUploadId |-> "Key"],
    [id |-> "Int", enrichmentStatus |-> "Enum", intentScore |-> "Float",
     createdAt |-> "DateTime"])

Footprint == Model(
    [action |-> "Enum", element |-> "Enum"],
    [actionDetail |-> "String", deviceUsed |-> "String", priorityLevel |-> "Enum",
     personId |-> "Key"],
    [id |-> "Int", intentScore |-> "Float", confidence |-> "Float",
     createdAt |-> "DateTime"])

ExecutiveUpload == Model(
    [fileName |-> "String", filePath |-> "String", quantity |-> "Int",
     executiveCompanyId |-> "Key"],
    [storageLink |-> "String"],
    [id |-> "Int", isSaved |-> "Boolean", isEnriched |-> "Boolean",
     createdAt |-> "DateTime"])

\* The values that are of a column's type: Prisma throws at any other, in the
\* data of a statement and in a filter.  Absent is none.
OfType(column, v) ==
    CASE v \in Missing  -> TRUE
      [] v = "fraction" -> column.type = "Float"
      [] v = "zero"     -> column.type \in {"Int", "Key", "Float"}
      [] v = "empty"    -> column.type = "String"
      [] v = "big"      -> column.type \in {"String", "Float"}
      [] OTHER          -> v = "valid"

\* The values a statement may give a column; absent leaves it as it is, or to
\* its default.  The id 0 names no row, and a String is a VARCHAR(191).
Fits(column, v) ==
    /\ OfType(column, v)
    /\ v = "null" => column.null
    /\ v = "zero" => column.type # "Key"
    /\ v = "big" => column.type # "String"
=============================================================================
