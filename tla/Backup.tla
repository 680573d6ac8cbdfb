------------------------------- MODULE Backup -------------------------------
(* Database backups: the daily cron job and the trigger route run the same    *)
(* function, which starts mysqldump and does not wait for it.                 *)
EXTENDS Naturals

CONSTANTS
    Cron, Request,  \* the backups started by the clock and those by a request
    MaxTime         \* bound: milliseconds that pass

ASSUME DisjointJobs == Cron \cap Request = {} /\ MaxTime \in Nat

Job == Cron \cup Request
NoFile == [state |-> "none", by |-> "none"]

VARIABLES
    time,       \* the clock, in milliseconds
    directory,  \* does BACKUP_PATH exist?
    files,      \* the dump files by the time in their name, and who wrote last
    job         \* the backups: their progress, dump, its time and name, and reply

vars == <<time, directory, files, job>>

Init ==
    /\ time = 0
    /\ directory \in BOOLEAN
    /\ files = [t \in 0..MaxTime |-> NoFile]
    /\ job = [j \in Job |-> [pc |-> "idle", dump |-> "none", at |-> 0, name |-> 0,
                        reply |-> "none"]]

Tick == time < MaxTime /\ time' = time + 1 /\ UNCHANGED <<directory, files, job>>

\* The config is of no use: the url of the database is none, or there is no one
\* path.  A request is answered 500, and the cron job only logs it.
Refuse(j) ==
    /\ job[j].pc = "idle"
    /\ job' = [job EXCEPT ![j].pc = "end", ![j].reply = "failed"]
    /\ UNCHANGED <<time, directory, files>>

\* Slip: the directory is made without await.
BeginUnawaited(j) ==
    /\ job[j].pc = "idle"
    /\ job' = [job EXCEPT ![j].pc = "exec"]
    /\ UNCHANGED <<time, directory, files>>

\* Up to fs.access; a missing directory is made before the function goes on.
Begin(j) ==
    /\ job[j].pc = "idle"
    /\ job' = [job EXCEPT ![j].pc = IF directory THEN "exec" ELSE "mkdir"]
    /\ UNCHANGED <<time, directory, files>>

\* Slip: the mkdir is not recursive, and fails when the directory is there.
MakeDirectoryOnce(j) ==
    /\ job[j].pc = "mkdir"
    /\ \/ ~directory /\ directory' = TRUE /\ job' = [job EXCEPT ![j].pc = "exec"]
       \/ job' = [job EXCEPT ![j].pc = "end", ![j].reply = "failed"] /\ UNCHANGED directory
    /\ UNCHANGED <<time, files>>

\* mkdir with recursive: no error if another backup was faster.  When it fails
\* a request is answered 500, and the cron job only logs it.
MakeDirectory(j) ==
    /\ job[j].pc = "mkdir"
    /\ \/ directory' = TRUE /\ job' = [job EXCEPT ![j].pc = "exec"]
       \/ /\ ~directory /\ UNCHANGED directory
          /\ job' = [job EXCEPT ![j].pc = "end", ![j].reply = "failed"]
    /\ UNCHANGED <<time, files>>

ExecNamed(j, name) ==
    /\ job[j].pc = "exec"
    /\ job' = [job EXCEPT ![j].pc = "return", ![j].dump = "started", ![j].at = time,
                          ![j].name = name]
    /\ UNCHANGED <<time, directory, files>>

\* Slip: the file is named by the day.
ExecByDay(j) == ExecNamed(j, 0)

\* exec: the file is named by the clock, and a shell is started.
Exec(j) == ExecNamed(j, time)

\* The function has returned, however far the shell is, and the route answers
\* that the backup was triggered.
Return(j) ==
    /\ job[j].pc = "return"
    /\ job' = [job EXCEPT ![j].pc = "end", ![j].reply = "triggered"]
    /\ UNCHANGED <<time, directory, files>>

\* The shell opens the file, truncating one of that name, and runs mysqldump.
Open(j) ==
    /\ job[j].dump = "started"
    /\ IF directory
       THEN /\ files' = [files EXCEPT ![job[j].name] = [state |-> "partial", by |-> j]]
            /\ job' = [job EXCEPT ![j].dump = "running"]
       ELSE job' = [job EXCEPT ![j].dump = "unopened"] /\ UNCHANGED files
    /\ UNCHANGED <<time, directory>>

\* mysqldump ends, or fails and leaves what it wrote; the callback only logs.
Close(j) ==
    /\ job[j].dump = "running"
    /\ \/ /\ job' = [job EXCEPT ![j].dump = "complete"]
          /\ files' = [files EXCEPT ![job[j].name].state = "complete"]
       \/ job' = [job EXCEPT ![j].dump = "failed"] /\ UNCHANGED files
    /\ UNCHANGED <<time, directory>>

Step(j) ==
    Begin(j) \/ MakeDirectory(j) \/ Exec(j) \/ Return(j) \/ Open(j) \/ Close(j)

Next == Tick \/ \E j \in Job : Step(j) \/ Refuse(j)

Spec == Init /\ [][Next]_vars
-----------------------------------------------------------------------------
\* Types: the clock, the directory, the dump files and the backups.
TypeOK ==
    /\ time \in 0..MaxTime /\ directory \in BOOLEAN
    /\ files \in [0..MaxTime -> [state : {"none", "partial", "complete"}, by : Job \cup {"none"}]]
    /\ job \in [Job -> [pc : {"idle", "mkdir", "exec", "return", "end"},
                        at : 0..MaxTime, name : 0..MaxTime,
                        dump : {"none", "started", "unopened", "running", "complete", "failed"},
                        reply : {"none", "triggered", "failed"}]]

\* However the backups overlap, none fails for want of the directory.
DirectoryComesFirst == \A j \in Job : job[j].dump # "unopened"

\* A complete backup stays as it is unless another one was named in the same
\* millisecond: two dumps of one name write one file.
CompleteFilesStay ==
    [][\A t \in 0..MaxTime :
        (files[t].state = "complete" /\ files'[t] # files[t])
            => \E i, j \in Job : i # j /\ job[i].at = t /\ job[j].at = t
                                 /\ "none" \notin {job[i].dump, job[j].dump}]_vars

\* Every backup that was reported or started gets to run mysqldump, which
\* completes its file or fails; so does one whose directory another backup has
\* made while it was about to.
BackupsEnd ==
    \A j \in Job :
        (job[j].reply = "triggered" \/ job[j].dump # "none" \/ (job[j].pc = "mkdir" /\ directory))
            ~> job[j].dump \in {"complete", "failed"}
=============================================================================
