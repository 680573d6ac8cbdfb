----------------------------- MODULE LiveStore ------------------------------
(* What the resource routes promise: a store of live rows on which every      *)
(* request has one effect, at once, or none.                                  *)
EXTENDS Naturals, Sequences

CONSTANTS
    Req,            \* the requests
    Rows,           \* what a row may hold
    SameKey(_, _)   \* rows that may not be live together

VARIABLES
    value,      \* what each row held last, in the order they were made
    live,       \* the rows that are there
    answer      \* the status of each request, 0 while it has none

vars == <<value, live, answer>>

Init ==
    /\ value \in Seq(Rows)
    /\ live \subseteq DOMAIN value
    /\ answer = [r \in Req |-> 0]

Answer(r, status) == answer[r] = 0 /\ answer' = [answer EXCEPT ![r] = status]

\* No live row but id has the key of row.
Free(id, row) == \A i \in live \ {id} : ~SameKey(value[i], row)

Create(r) ==
    /\ LET id == Len(value) + 1
       IN /\ id \in DOMAIN value' /\ value'[id] \in Rows
          /\ Free(id, value'[id])
          /\ value' = Append(value, value'[id])
          /\ live' = live \cup {id}
    /\ Answer(r, 201)

Update(r) ==
    /\ \E id \in live :
         /\ value'[id] \in Rows
         /\ Free(id, value'[id])
         /\ value' = [value EXCEPT ![id] = value'[id]]
    /\ UNCHANGED live
    /\ Answer(r, 200)

Delete(r) ==
    /\ \E id \in live : live' = live \ {id}
    /\ UNCHANGED value
    /\ Answer(r, 204)

Read(r) == Answer(r, 200) /\ UNCHANGED <<value, live>>

\* Not found, refused or failed: nothing has changed.
Refuse(r) == (\E status \in {404, 409, 500} : Answer(r, status)) /\ UNCHANGED <<value, live>>

Next == \E r \in Req : Create(r) \/ Update(r) \/ Delete(r) \/ Read(r) \/ Refuse(r)

Spec == Init /\ [][Next]_vars
=============================================================================
