----------------------------- MODULE SoftDelete -----------------------------
(* The tables of the database as DatabaseService presents them.               *)
(*                                                                            *)
(* A table is the sequence of every row ever inserted: the auto-increment id  *)
(* of a row is its position, and no row is ever removed.  Prisma's middleware *)
(* turns delete into an update of deletedAt and adds "deletedAt is null" to   *)
(* every read and update, so a deleted row stays in the table, out of reach   *)
(* of every statement but still counted by the unique indexes.  The field     *)
(* deleted stands for deletedAt # null.                                       *)
EXTENDS Naturals, Sequences

\* The rows that findFirst, findMany, count, update and updateMany can see.
Live(table) == {id \in 1..Len(table) : ~table[id].deleted}

\* Slip, for testing that a property can fail: deleted rows are updated too.
UpdateAnyRow(table, where, col, v) ==
    [id \in 1..Len(table) |->
        IF id \in where THEN [table[id] EXCEPT ![col] = v] ELSE table[id]]

\* update (where is one id) and updateMany: column col of the live rows in
\* where becomes v.
UpdateMany(table, where, col, v) ==
    [id \in 1..Len(table) |->
        IF id \in where \cap Live(table) THEN [table[id] EXCEPT ![col] = v]
                                         ELSE table[id]]

\* delete and deleteMany, rewritten to update and updateMany.
DeleteMany(table, where) == UpdateMany(table, where, "deleted", TRUE)

\* create and createMany go to the database as they are: one INSERT.
CreateMany(table, rows) == table \o rows
=============================================================================
