----------------------------- MODULE MCSessions -----------------------------
(* Small instances of Sessions.                                               *)
EXTENDS Sessions, TLC

CONSTANTS e1, e2, e3, r1, r2, r3

Admin(e) == UserRow(e, "Admin", "Active", TRUE)
\* A generated admin whose role another admin has lowered.
Lowered(e) == UserRow(e, "User", "Active", TRUE)

TwoUsers == <<Admin(e1), Lowered(e2)>>

Ask(call) == [call |-> call, id |-> NoId, email |-> e1]
Login(e) == [Ask(Call("auth", "POST", "login")) EXCEPT !.email = e]
Refresh == Ask(Call("auth", "POST", "refresh-token"))
Me == Ask(Call("user", "GET", "me"))
CreateOf(e) == [Ask(Call("user", "POST", "")) EXCEPT !.email = e]
UpdateOf(id, e) == [Ask(Call("user", "PUT", ":id")) EXCEPT !.id = id, !.email = e]
DeleteOf(id) == [Ask(Call("user", "DELETE", ":id")) EXCEPT !.id = id]
Health == Ask(Call("health", "GET", "disk"))

\* e3 is free at the start: its user is created by createUser or generate-admin.
MCCalls == {Login(e3), Refresh, Me, CreateOf(e3), UpdateOf(2, e3), DeleteOf(1), Health}

Symmetric == Permutations(Req)
=============================================================================
