---------------------------- MODULE MCResources -----------------------------
(* Small instances of Resources.                                              *)
EXTENDS Resources, TLC

CONSTANTS e1, e2, n1, n2, r1, r2, r3

\* A deleted user, a live one, a company, one of its persons and a footprint.
MCRows == << [Row("user", e1, n1, 0) EXCEPT !.deleted = TRUE], Row("user", e2, n1, 0),
             Row("company", e1, n1, 0), Row("person", e1, n1, 3),
             Row("footprint", e1, n1, 4) >>

Ask(op, id, row) == [op |-> op, id |-> id, row |-> row]
On(op, id) == Ask(op, id, [MCRows[id] EXCEPT !.deleted = FALSE])

UserCalls ==
    {Ask("create", 0, Row("user", e, n1, 0)) : e \in {e1, e2}} \cup
    {Ask("update", 2, Row("user", e1, n2, 0)), On("delete", 2), On("update", 1)}
PersonCalls ==
    {Ask("create", 0, Row("person", e, n, 3)) : e \in {e1, e2}, n \in {n1, n2}} \cup
    {Ask("update", 4, Row("person", e2, n2, 3)), On("detail", 4), On("delete", 4),
     On("delete", 3)}
OtherCalls ==
    {Ask("create", 0, Row("footprint", e1, n1, 4)), Ask("create", 0, Row("footprint", e1, n1, 9)),
     On("update", 5), On("delete", 5), On("detail", 3), On("delete", 3)}
AllCalls == UserCalls \cup PersonCalls \cup OtherCalls

Symmetric == Permutations(Req)
=============================================================================
