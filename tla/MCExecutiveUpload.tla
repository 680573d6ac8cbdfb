-------------------------- MODULE MCExecutiveUpload --------------------------
(* Small instances of ExecutiveUpload.                                        *)
EXTENDS ExecutiveUpload, TLC

CONSTANTS ann, bob, acme, busy, k1, k2, k3, fileA, fileB, fileBad, r1, r2, r3

MCUsers == {ann, bob}
MCKeys == {k1, k2, k3}
MCFiles == {fileA, fileB, fileBad}
\* fileB shares k2 with fileA and repeats no key; fileBad is rejected.
MCContent == (fileA :> <<k1, k2>>) @@ (fileB :> <<k2>>) @@ (fileBad :> << >>)
MCCompanies == {acme, busy}
MCInitCompanies == [c \in MCCompanies |->
    [owner |-> IF c = acme THEN ann ELSE bob, deleted |-> FALSE]]

UploadOf(f, c) == [file |-> f, company |-> c, isSaved |-> FALSE, deleted |-> FALSE]
OneUpload == << UploadOf(fileA, acme) >>
TwoUploads == << UploadOf(fileA, acme), UploadOf(fileB, acme) >>

On(kind, user, u) == [kind |-> kind, user |-> user, upload |-> u]
Create(user, f) == [kind |-> "create", user |-> user, file |-> f]

SaveCalls == {On("save", ann, 1), On("save", ann, 2), On("delete", ann, 1)}
MixedCalls == {On("save", ann, 1), On("enrich", ann, 1), On("delete", ann, 1)}
AllCalls == {Create(ann, fileA), Create(bob, fileBad), On("save", ann, 1),
             On("enrich", ann, 1), On("delete", ann, 1)}
TwoCallers == {On("enrich", u, 1) : u \in MCUsers}

Symmetric == Permutations(Req)
=============================================================================
