------------------------------- MODULE Filters ------------------------------
(* The filters of the list routes: which rows a query finds.                  *)
(*                                                                            *)
(* A query gives each parameter a value of module Dtos, or leaves it absent;  *)
(* "valid" is the same value in a query and in a row.                         *)
EXTENDS Schema, Naturals

\* The where of a list route: the columns compared with the parameter of the
\* same name, those searched for a text, those given a list of values, and
\* those given a range.
Between(col, from, to) == [col |-> col, from |-> from, to |-> to]
Created == Between("createdAt", "createdAtRangeStart", "createdAtRangeEnd")

UserWhere ==
    [equal |-> {"id", "email", "fullName", "phoneNumber", "status", "role", "gender",
                "address", "imageLink", "language"},
     contains |-> << >>, oneOf |-> {},
     ranges |-> {Between("dob", "dobRangeStart", "dobRangeEnd"),
                 Between("lastActive", "lastActiveRangeStart", "lastActiveRangeEnd")}]

ExecutiveCompanyWhere ==
    [equal |-> {"id", "businessId", "name", "geography"},
     contains |-> << >>, oneOf |-> {}, ranges |-> {Created}]

\* Slip: the name is searched in a column of that name.
ExecutivePersonWhereName ==
    [equal |-> {"executiveCompanyId"},
     contains |-> [name |-> "name", department |-> "department", position |-> "position"],
     oneOf |-> {"enrichmentStatus"},
     ranges |-> {Created, Between("intentScore", "intentScoreRangeStart",
                                  "intentScoreRangeEnd")}]

ExecutivePersonWhere ==
    [equal |-> {"executiveCompanyId"},
     contains |-> [name |-> "fullName", department |-> "department",
                   position |-> "position"],
     oneOf |-> {"enrichmentStatus"},
     ranges |-> {Created, Between("intentScore", "intentScoreRangeStart",
                                  "intentScoreRangeEnd")}]

FootprintWhere ==
    [equal |-> {"id", "action", "element", "actionDetail", "deviceUsed", "priorityLevel",
                "intentScore", "confidence", "personId"},
     contains |-> << >>, oneOf |-> {}, ranges |-> {Created}]

ExecutiveUploadWhere ==
    [equal |-> {"id", "fileName", "filePath", "quantity", "storageLink",
                "executiveCompanyId"},
     contains |-> << >>, oneOf |-> {}, ranges |-> {Created}]

ListOf == [user |-> [dto |-> GetUserListQueryDto, table |-> User, where |-> UserWhere],
         company |-> [dto |-> GetExecutiveCompanyListQueryDto,
                      table |-> ExecutiveCompany, where |-> ExecutiveCompanyWhere],
         person |-> [dto |-> GetExecutivePersonListQueryDto,
                     table |-> ExecutivePerson, where |-> ExecutivePersonWhere],
         footprint |-> [dto |-> GetFootprintListQueryDto,
                        table |-> Footprint, where |-> FootprintWhere],
         upload |-> [dto |-> GetExecutiveUploadListQueryDto,
                     table |-> ExecutiveUpload, where |-> ExecutiveUploadWhere]]

\* "query.x && ..." takes undefined, the number 0 and the empty text for no filter.
Given(q, p) == q[p] \notin Missing \cup {"zero", "empty"}

\* The parts of a where that a query puts to use.
Compared(where, q) == {p \in where.equal : Given(q, p)}
Searched(where, q) == {p \in DOMAIN where.contains : Given(q, p)}
Listed(where, q) == {p \in where.oneOf : Given(q, p)}
Ranged(where, q) == {b \in where.ranges : Given(q, b.from) \/ Given(q, b.to)}

\* The columns that the statement names.
Used(where, q) ==
    Compared(where, q) \cup {where.contains[p] : p \in Searched(where, q)}
    \cup Listed(where, q) \cup {b.col : b \in Ranged(where, q)}

\* What Prisma makes a statement of: every column is one of the table, and every
\* value it is compared with of its type.
Answerable(where, table, q) ==
    /\ Used(where, q) \subseteq DOMAIN table
    /\ \A p \in Compared(where, q) : OfType(table[p], q[p])
    /\ \A b \in Ranged(where, q) : \A p \in {b.from, b.to} : OfType(table[b.col], q[p])

\* A range as the database compares it: null is in none, and a bound that is
\* undefined is none, whatever the other one is.
Rank == [zero |-> 0, fraction |-> 1, valid |-> 2, big |-> 3]

\* Slip: a bound of 0 is none.
WithinGiven(v, from, to) ==
    /\ v # "null"
    /\ from \notin {"absent", "zero"} => Rank[v] >= Rank[from]
    /\ to \notin {"absent", "zero"} => Rank[v] <= Rank[to]

Within(v, from, to) ==
    /\ v # "null"
    /\ from # "absent" => Rank[v] >= Rank[from]
    /\ to # "absent" => Rank[v] <= Rank[to]

\* Slip: one filter that holds is enough.
FindsAny(where, row, q) ==
    \/ Used(where, q) = {}
    \/ \E p \in Compared(where, q) : row[p] = q[p]
    \/ \E p \in Searched(where, q) : row[where.contains[p]] = q[p]
    \/ \E p \in Listed(where, q) : row[p] = "valid"
    \/ \E b \in Ranged(where, q) : Within(row[b.col], q[b.from], q[b.to])

\* findMany finds the rows that every filter lets through.
Finds(where, row, q) ==
    /\ \A p \in Compared(where, q) : row[p] = q[p]
    /\ \A p \in Searched(where, q) : row[where.contains[p]] = q[p]
    /\ \A p \in Listed(where, q) : row[p] = "valid"
    /\ \A b \in Ranged(where, q) : Within(row[b.col], q[b.from], q[b.to])
=============================================================================
