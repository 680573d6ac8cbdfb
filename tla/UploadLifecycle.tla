--------------------------- MODULE UploadLifecycle ---------------------------
(* What ExecutiveUploadService promises of an upload, however its requests    *)
(* and jobs interleave and fail: its csv rows become persons once, all of     *)
(* them together; it is marked saved at most once and only after that; and    *)
(* enrichment runs only for a saved upload.  No step is ever undone.          *)
EXTENDS Naturals

CONSTANT Uploads    \* upload ids

VARIABLES
    stage,      \* how far each upload has come
    running     \* the enrichment jobs of each upload that have not ended

vars == <<stage, running>>
Stages == {"absent", "created", "inserted", "saved"}

TypeOK == stage \in [Uploads -> Stages] /\ running \in [Uploads -> Nat]

\* Uploads made before the start are created, not saved.
Init == /\ stage \in [Uploads -> {"absent", "created"}]
        /\ running = [u \in Uploads |-> 0]

Become(u, from, to) ==
    /\ stage[u] = from /\ stage' = [stage EXCEPT ![u] = to]
    /\ UNCHANGED running

Create(u) == Become(u, "absent", "created")
Insert(u) == Become(u, "created", "inserted")
MarkSaved(u) == Become(u, "inserted", "saved")

StartJob(u) ==
    /\ stage[u] = "saved"
    /\ running' = [running EXCEPT ![u] = @ + 1]
    /\ UNCHANGED stage

EndJob(u) ==
    /\ running[u] > 0
    /\ running' = [running EXCEPT ![u] = @ - 1]
    /\ UNCHANGED stage

\* The process dies; what is stored stays.
Crash == running' = [u \in Uploads |-> 0] /\ UNCHANGED stage

Next == \/ \E u \in Uploads : \/ Create(u) \/ Insert(u) \/ MarkSaved(u)
                              \/ StartJob(u) \/ EndJob(u)
        \/ Crash

Spec == Init /\ [][Next]_vars
=============================================================================
