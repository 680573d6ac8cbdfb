---------------------------- MODULE ServerProofs ----------------------------
(* What a started server keeps: its config for any number of odd variables,   *)
(* its backups for any number of them and any time.                           *)
EXTENDS Server, TLAPS

Pcs == {"idle", "mkdir", "exec", "return", "end"}
Dumps == {"none", "started", "unopened", "running", "complete", "failed"}
JobType == [pc : Pcs, at : 0..MaxTime, name : 0..MaxTime, dump : Dumps,
            reply : {"none", "triggered", "failed"}]
FileType == [state : {"none", "partial", "complete"}, by : Job \cup {"none"}]

\* A backup gets to exec only with the directory, and its dump is named by its
\* own time from the start; once it runs its file is there.
JobOK(j) ==
    /\ job[j].pc = "exec" \/ job[j].dump # "none" => directory
    /\ job[j].dump # "unopened"
    /\ job[j].dump # "none" => job[j].pc \in {"return", "end"} /\ job[j].name = job[j].at
    /\ job[j].dump \in {"running", "complete", "failed"} => files[job[j].at].state # "none"

\* A file belongs to a backup that has opened it.
FileOK(t) ==
    files[t].state # "none" =>
        /\ files[t].by \in Job /\ job[files[t].by].at = t
        /\ job[files[t].by].dump \in {"running", "complete", "failed"}

BackupInv == TypeOK /\ (\A j \in Job : JobOK(j)) /\ \A t \in 0..MaxTime : FileOK(t)
-----------------------------------------------------------------------------
LEMMA BackupTypes ==
    TypeOK <=> /\ time \in 0..MaxTime /\ directory \in BOOLEAN
               /\ files \in [0..MaxTime -> FileType] /\ job \in [Job -> JobType]
  BY DEF TypeOK, FileType, JobType, Pcs, Dumps

LEMMA BackupInit == Init => BackupInv
  <1> SUFFICES ASSUME Init PROVE BackupInv
    OBVIOUS
  <1>1. MaxTime \in Nat /\ 0 \in 0..MaxTime
    BY DisjointJobs
  <1>2. TypeOK
    BY <1>1, BackupTypes DEF Init, NoFile, FileType, JobType, Pcs, Dumps
  <1>3. \A j \in Job : JobOK(j)
    BY DEF Init, JobOK
  <1>4. \A t \in 0..MaxTime : FileOK(t)
    BY DEF Init, FileOK, NoFile
  <1>5. QED BY <1>2, <1>3, <1>4 DEF BackupInv

\* A step of one backup that writes no file and takes no directory away.
LEMMA JobStep ==
    ASSUME BackupInv, NEW j \in Job, NEW new \in JobType, job' = [job EXCEPT ![j] = new],
           UNCHANGED <<time, files>>, directory' \in BOOLEAN, directory => directory',
           JobOK(j)',
           job[j].dump \in {"running", "complete", "failed"} =>
             new.dump \in {"running", "complete", "failed"} /\ new.at = job[j].at
    PROVE  BackupInv'
  <1>1. job \in [Job -> JobType] /\ TypeOK
    BY BackupTypes DEF BackupInv
  <1>2. job' \in [Job -> JobType] /\ job'[j] = new /\ \A i \in Job \ {j} : job'[i] = job[i]
    BY <1>1
  <1>3. TypeOK'
    BY <1>1, <1>2, BackupTypes DEF TypeOK, FileType, JobType, Pcs, Dumps
  <1>4. \A i \in Job \ {j} : JobOK(i)'
    BY <1>2 DEF BackupInv, JobOK
  <1>5. \A t \in 0..MaxTime : FileOK(t)'
    BY <1>2 DEF BackupInv, FileOK
  <1>6. QED BY <1>3, <1>4, <1>5 DEF BackupInv

LEMMA BeginStep == ASSUME BackupInv, NEW j \in Job, Begin(j) \/ Refuse(j) PROVE BackupInv'
  <1> DEFINE q == job[j]
  <1>1. job \in [Job -> JobType] /\ q \in JobType /\ JobOK(j) /\ directory \in BOOLEAN
    BY BackupTypes DEF BackupInv
  <1>2. CASE Begin(j)
    <2> DEFINE new == [q EXCEPT !.pc = IF directory THEN "exec" ELSE "mkdir"]
    <2>1. new \in JobType /\ job' = [job EXCEPT ![j] = new]
      BY <1>1, <1>2 DEF JobType, Pcs, Begin
    <2>2. JobOK(j)'
      BY <1>1, <1>2, <2>1 DEF JobOK, JobType, Begin
    <2>3. QED BY <1>1, <1>2, <2>1, <2>2, JobStep DEF Begin, JobType
  <1>3. CASE Refuse(j)
    <2> DEFINE new == [q EXCEPT !.pc = "end", !.reply = "failed"]
    <2>1. new \in JobType /\ job' = [job EXCEPT ![j] = new]
      BY <1>1, <1>3 DEF JobType, Pcs, Refuse
    <2>2. JobOK(j)'
      BY <1>1, <1>3, <2>1 DEF JobOK, JobType, Refuse
    <2>3. QED BY <1>1, <1>3, <2>1, <2>2, JobStep DEF Refuse, JobType
  <1>4. QED BY <1>2, <1>3

LEMMA MakeDirectoryStep == ASSUME BackupInv, NEW j \in Job, MakeDirectory(j) PROVE BackupInv'
  <1> DEFINE q == job[j]
             made == [q EXCEPT !.pc = "exec"]
             failed == [q EXCEPT !.pc = "end", !.reply = "failed"]
  <1>1. job \in [Job -> JobType] /\ q \in JobType /\ JobOK(j) /\ directory \in BOOLEAN
    BY BackupTypes DEF BackupInv
  <1>2. q.dump = "none"
    BY <1>1 DEF JobOK, MakeDirectory
  <1>3. CASE directory' = TRUE /\ job' = [job EXCEPT ![j].pc = "exec"]
    <2>1. made \in JobType /\ job' = [job EXCEPT ![j] = made]
      BY <1>1, <1>3 DEF JobType, Pcs
    <2>2. JobOK(j)'
      BY <1>1, <1>2, <1>3, <2>1 DEF JobOK, JobType
    <2>3. QED BY <1>1, <1>2, <1>3, <2>1, <2>2, JobStep DEF MakeDirectory
  <1>4. CASE UNCHANGED directory
             /\ job' = [job EXCEPT ![j].pc = "end", ![j].reply = "failed"]
    <2>1. failed \in JobType /\ job' = [job EXCEPT ![j] = failed]
      BY <1>1, <1>4 DEF JobType, Pcs
    <2>2. JobOK(j)'
      BY <1>1, <1>2, <1>4, <2>1 DEF JobOK, JobType
    <2>3. QED BY <1>1, <1>2, <1>4, <2>1, <2>2, JobStep DEF MakeDirectory
  <1>5. QED BY <1>3, <1>4 DEF MakeDirectory

LEMMA ExecStep == ASSUME BackupInv, NEW j \in Job, Exec(j) PROVE BackupInv'
  <1> DEFINE q == job[j]
             new == [q EXCEPT !.pc = "return", !.dump = "started", !.at = time,
                              !.name = time]
  <1>1. job \in [Job -> JobType] /\ q \in JobType /\ JobOK(j) /\ directory \in BOOLEAN
        /\ time \in 0..MaxTime
    BY BackupTypes DEF BackupInv
  <1>2. new \in JobType /\ job' = [job EXCEPT ![j] = new]
    BY <1>1 DEF JobType, Pcs, Dumps, Exec, ExecNamed
  <1>3. JobOK(j)'
    BY <1>1, <1>2 DEF JobOK, JobType, Exec, ExecNamed
  <1>4. q.dump = "none" /\ UNCHANGED <<time, directory, files>>
    BY <1>1 DEF JobOK, Exec, ExecNamed
  <1>5. QED BY <1>1, <1>2, <1>3, <1>4, JobStep

LEMMA ReturnStep == ASSUME BackupInv, NEW j \in Job, Return(j) PROVE BackupInv'
  <1> DEFINE q == job[j]
             new == [q EXCEPT !.pc = "end", !.reply = "triggered"]
  <1>1. job \in [Job -> JobType] /\ q \in JobType /\ JobOK(j) /\ directory \in BOOLEAN
    BY BackupTypes DEF BackupInv
  <1>2. new \in JobType /\ job' = [job EXCEPT ![j] = new] /\ UNCHANGED <<time, directory, files>>
    BY <1>1 DEF JobType, Pcs, Return
  <1>3. JobOK(j)'
    BY <1>1, <1>2 DEF JobOK, JobType, Return
  <1>4. new.dump = q.dump /\ new.at = q.at
    BY <1>1 DEF JobType
  <1>5. QED BY <1>1, <1>2, <1>3, <1>4, JobStep

LEMMA OpenStep == ASSUME BackupInv, NEW j \in Job, Open(j) PROVE BackupInv'
  <1> DEFINE q == job[j]
             new == [q EXCEPT !.dump = "running"]
  <1>1. job \in [Job -> JobType] /\ q \in JobType /\ JobOK(j) /\ directory
        /\ files \in [0..MaxTime -> FileType] /\ TypeOK
    BY BackupTypes DEF BackupInv, Open, JobOK
  <1>2. q.dump = "started" /\ q.name = q.at /\ q.at \in 0..MaxTime
    BY <1>1 DEF JobOK, Open, JobType
  <1>3. new \in JobType /\ job' = [job EXCEPT ![j] = new] /\ UNCHANGED <<time, directory>>
        /\ files' = [files EXCEPT ![q.at] = [state |-> "partial", by |-> j]]
    BY <1>1, <1>2 DEF JobType, Dumps, Open
  <1>4. job' \in [Job -> JobType] /\ job'[j] = new /\ \A i \in Job \ {j} : job'[i] = job[i]
    BY <1>1, <1>3
  <1>5. files' \in [0..MaxTime -> FileType] /\ \A t \in 0..MaxTime \ {q.at} : files'[t] = files[t]
    BY <1>1, <1>2, <1>3 DEF FileType
  <1>6. TypeOK'
    BY <1>1, <1>3, <1>4, <1>5 DEF TypeOK, FileType, JobType, Pcs, Dumps
  <1>7. \A i \in Job : JobOK(i)'
    <2>1. \A t \in 0..MaxTime : files[t].state # "none" => files'[t].state # "none"
      BY <1>1, <1>2, <1>3, <1>5
    <2>2. files'[q.at].state # "none"
      BY <1>1, <1>2, <1>3
    <2>3. \A i \in Job : job[i].at \in 0..MaxTime
      BY <1>1, BackupTypes DEF JobType
    <2>4. JobOK(j)'
      BY <1>1, <1>2, <1>3, <1>4, <2>2 DEF JobOK, JobType
    <2>5. \A i \in Job \ {j} : JobOK(i)'
      BY <1>3, <1>4, <2>1, <2>3 DEF BackupInv, JobOK
    <2>6. QED BY <2>4, <2>5
  <1>8. \A t \in 0..MaxTime \ {q.at} : FileOK(t)'
    BY <1>2, <1>4, <1>5 DEF BackupInv, FileOK
  <1>9. ASSUME NEW t \in 0..MaxTime, t = q.at PROVE FileOK(t)'
    <2>1. files'[t].by = j
      BY <1>1, <1>2, <1>3, <1>9
    <2>2. job'[j].at = t /\ job'[j].dump = "running"
      BY <1>1, <1>4, <1>9 DEF JobType
    <2>3. QED BY <2>1, <2>2 DEF FileOK
  <1>10. QED BY <1>6, <1>7, <1>8, <1>9 DEF BackupInv

LEMMA CloseStep == ASSUME BackupInv, NEW j \in Job, Close(j) PROVE BackupInv'
  <1> DEFINE q == job[j]
  <1>1. job \in [Job -> JobType] /\ q \in JobType /\ JobOK(j) /\ directory \in BOOLEAN
        /\ files \in [0..MaxTime -> FileType] /\ TypeOK
    BY BackupTypes DEF BackupInv
  <1>2. q.dump = "running" /\ q.name \in 0..MaxTime /\ UNCHANGED <<time, directory>>
    BY <1>1 DEF Close, JobType
  <1>3. PICK dump \in {"complete", "failed"} :
          /\ job' = [job EXCEPT ![j].dump = dump]
          /\ files' = IF dump = "complete" THEN [files EXCEPT ![q.name].state = "complete"]
                                           ELSE files
    BY DEF Close
  <1> DEFINE new == [q EXCEPT !.dump = dump]
  <1>4. new \in JobType /\ job' = [job EXCEPT ![j] = new]
    BY <1>1, <1>3 DEF JobType, Dumps
  <1>5. job' \in [Job -> JobType] /\ job'[j] = new /\ \A i \in Job \ {j} : job'[i] = job[i]
    BY <1>1, <1>4
  <1>6. /\ files' \in [0..MaxTime -> FileType]
        /\ \A t \in 0..MaxTime : files'[t].by = files[t].by
        /\ \A t \in 0..MaxTime : files[t].state # "none" <=> files'[t].state # "none"
    <2>1. files[q.name].state # "none"
      BY <1>1, <1>2 DEF JobOK
    <2>2. CASE dump = "complete"
      <3> DEFINE file == [files[q.name] EXCEPT !.state = "complete"]
      <3>1. file \in FileType /\ file.by = files[q.name].by /\ file.state = "complete"
        BY <1>1, <1>2 DEF FileType
      <3>2. files' = [files EXCEPT ![q.name] = file]
        BY <1>3, <2>2
      <3>3. QED BY <1>1, <1>2, <2>1, <3>1, <3>2
    <2>3. CASE dump = "failed"
      BY <1>1, <1>3, <2>3
    <2>4. QED BY <1>3, <2>2, <2>3
  <1>7. TypeOK'
    BY <1>1, <1>2, <1>5, <1>6 DEF TypeOK, FileType, JobType, Pcs, Dumps
  <1>8. \A i \in Job : JobOK(i)'
    <2>1. \A i \in Job : job[i].at \in 0..MaxTime
      BY <1>1 DEF JobType
    <2>2. JobOK(j)'
      BY <1>1, <1>2, <1>5, <1>6, <2>1 DEF JobOK, JobType
    <2>3. \A i \in Job \ {j} : JobOK(i)'
      BY <1>2, <1>5, <1>6, <2>1 DEF BackupInv, JobOK
    <2>4. QED BY <2>2, <2>3
  <1>9. \A t \in 0..MaxTime : FileOK(t)'
    <2>1. job'[j].dump \in {"complete", "failed"} /\ job'[j].at = job[j].at
      BY <1>1, <1>5 DEF JobType
    <2>2. SUFFICES ASSUME NEW t \in 0..MaxTime, files'[t].state # "none"
                   PROVE  FileOK(t)'
      BY DEF FileOK
    <2> DEFINE b == files[t].by
    <2>3. files'[t].by = b /\ files[t].state # "none"
      BY <1>6, <2>2
    <2>4. b \in Job /\ job[b].at = t /\ job[b].dump \in {"running", "complete", "failed"}
      BY <2>3 DEF BackupInv, FileOK
    <2>5. job'[b].at = t /\ job'[b].dump \in {"running", "complete", "failed"}
      BY <1>5, <2>1, <2>4
    <2>6. QED BY <2>3, <2>4, <2>5 DEF FileOK
  <1>10. QED BY <1>7, <1>8, <1>9 DEF BackupInv
-----------------------------------------------------------------------------
LEMMA TickStep == ASSUME BackupInv, Tick PROVE BackupInv'
  <1>1. time' \in 0..MaxTime /\ UNCHANGED <<directory, files, job>>
    BY BackupTypes, DisjointJobs DEF BackupInv, Tick
  <1>2. QED BY <1>1 DEF BackupInv, TypeOK, JobOK, FileOK

LEMMA StepStep == ASSUME BackupInv, NEW j \in Job, Step(j) \/ Refuse(j) PROVE BackupInv'
  BY BeginStep, MakeDirectoryStep, ExecStep, ReturnStep, OpenStep, CloseStep DEF Step

LEMMA ServerStep == BackupInv /\ [ServerNext]_serverVars => BackupInv'
  <1> SUFFICES ASSUME BackupInv, [ServerNext]_serverVars PROVE BackupInv'
    OBVIOUS
  <1>1. CASE UNCHANGED vars
    BY <1>1 DEF vars, BackupInv, TypeOK, JobOK, FileOK
  <1>2. CASE Clock
    BY <1>2, TickStep DEF Clock
  <1>3. ASSUME NEW j \in Job, BackupStep(j) PROVE BackupInv'
    BY <1>3, StepStep DEF BackupStep
  <1>4. QED BY <1>1, <1>2, <1>3 DEF ServerNext, Start, serverVars

LEMMA ServerInv == ServerSpec => []BackupInv
  <1>1. ServerInit => BackupInv
    BY BackupInit DEF ServerInit
  <1>2. QED BY <1>1, ServerStep, PTL DEF ServerSpec

\* The clock, the files and the backups keep their types: no dump is ever named
\* by a time that has not come.
THEOREM BackupsTyped == ServerSpec => []TypeOK
  BY ServerInv, PTL DEF BackupInv

\* No dump starts without the directory it writes into, although several backups
\* may find it missing and make it.
THEOREM DirectoryIsThere == ServerSpec => []DirectoryComesFirst
  <1>1. BackupInv => DirectoryComesFirst
    BY DEF BackupInv, JobOK, DirectoryComesFirst
  <1>2. QED BY <1>1, ServerInv, PTL

LEMMA KeptStep ==
    ASSUME BackupInv, [ServerNext]_serverVars, NEW t \in 0..MaxTime,
           files[t].state = "complete", files'[t] # files[t]
    PROVE  \E i, j \in Job : i # j /\ job[i].at = t /\ job[j].at = t
                             /\ "none" \notin {job[i].dump, job[j].dump}
  <1>1. files \in [0..MaxTime -> FileType] /\ job \in [Job -> JobType]
    BY BackupTypes DEF BackupInv
  <1>2. files[t].by \in Job /\ job[files[t].by].at = t
        /\ job[files[t].by].dump \in {"running", "complete", "failed"}
    BY DEF BackupInv, FileOK
  <1>3. PICK j \in Job : Step(j) \/ Refuse(j)
    BY DEF ServerNext, serverVars, vars, Start, Clock, Tick, BackupStep
  <1>4. CASE Open(j)
    <2>1. job[j].dump = "started" /\ job[j].name = job[j].at
      BY <1>4 DEF Open, BackupInv, JobOK
    <2>2. job[j].at = t
      BY <1>1, <1>4, <2>1 DEF Open
    <2>3. QED BY <1>2, <2>1, <2>2
  <1>5. CASE Close(j)
    <2>1. files' = [files EXCEPT ![job[j].name].state = "complete"]
      BY <1>5 DEF Close
    <2>2. [files[t] EXCEPT !.state = "complete"] = files[t]
      BY <1>1 DEF FileType
    <2>3. QED BY <1>1, <2>1, <2>2
  <1>6. QED BY <1>3, <1>4, <1>5 DEF Step, Begin, Refuse, MakeDirectory, Exec, ExecNamed, Return

\* A complete backup stays as it is, unless two were named in the same
\* millisecond.
THEOREM CompleteForGood == ServerSpec => CompleteFilesStay
  <1>1. BackupInv /\ [ServerNext]_serverVars
          => [\A t \in 0..MaxTime :
                (files[t].state = "complete" /\ files'[t] # files[t])
                  => \E i, j \in Job : i # j /\ job[i].at = t /\ job[j].at = t
                                       /\ "none" \notin {job[i].dump, job[j].dump}]_vars
    BY KeptStep
  <1>2. QED BY <1>1, ServerInv, PTL DEF ServerSpec, CompleteFilesStay
-----------------------------------------------------------------------------
\* The config while it is built: a number is one or NaN, nothing else is NaN.
Keys == DOMAIN Config!MAIN_CONFIG
Complete ==
    \A k \in Keys :
        /\ config[k] # "NaN"
        /\ Config!MAIN_CONFIG[k].kind = "number" => config[k] \in {"number", "default"}
        /\ config[k] = "undefined" => \/ k \notin DOMAIN Config!SERVER_CONFIG_DEFAULT
                                      \/ Config!SERVER_CONFIG_DEFAULT[k] = "undefined"
ConfigInv ==
    /\ \A v \in Config!Variables : env[v] # "NaN"
    /\ pc # "misconfigured"
    /\ pc \in {"convert", "assign"} =>
         /\ \A k \in Config!NumberKeys : config[k] \in {"NaN", "number"}
         /\ \A k \in Keys \ Config!NumberKeys : config[k] # "NaN"
    /\ pc = "ready" => Complete

LEMMA MainKeys ==
    /\ Keys = Config!NumberKeys \cup Config!TextKeys \cup Config!PackageKeys
                 \cup {"PRISMA_LOG_LEVEL"}
    /\ \A k \in Keys : /\ Config!MAIN_CONFIG[k].kind = "number" <=> k \in Config!NumberKeys
                       /\ Config!MAIN_CONFIG[k].kind = "package" <=> k \in Config!PackageKeys
  BY DEF Keys, Config!MAIN_CONFIG, Config!NumberKeys, Config!TextKeys, Config!PackageKeys

LEMMA DefaultKeys ==
    /\ DOMAIN Config!SERVER_CONFIG_DEFAULT \subseteq Keys
    /\ \A k \in Config!NumberKeys : /\ k \in DOMAIN Config!SERVER_CONFIG_DEFAULT
                                    /\ Config!SERVER_CONFIG_DEFAULT[k] = "default"
    /\ \A k \in DOMAIN Config!SERVER_CONFIG_DEFAULT :
         Config!SERVER_CONFIG_DEFAULT[k] \in {"default", "undefined"}
  BY MainKeys DEF Config!SERVER_CONFIG_DEFAULT, Keys, Config!NumberKeys

LEMMA VariableOf ==
    ASSUME NEW k \in Keys, k \notin Config!PackageKeys
    PROVE  Config!MAIN_CONFIG[k].variable \in Config!Variables
  BY DEF Keys, Config!Variables

LEMMA ConfigInit == Config!Init => ConfigInv
  <1> SUFFICES ASSUME Config!Init PROVE ConfigInv
    OBVIOUS
  <1>1. env \in Config!Environments /\ pc = "validate"
    BY DEF Config!Init
  <1>2. \A v \in Config!Variables : Config!Usual[v] # "NaN" /\ "NaN" \notin Config!EnvValues(v)
    BY DEF Config!Usual, Config!EnvValues
  <1>3. PICK odd : /\ env = [v \in Config!Variables |->
                               IF v \in DOMAIN odd THEN odd[v] ELSE Config!Usual[v]]
                   /\ \A v \in DOMAIN odd : odd[v] \in Config!EnvValues(v)
    BY <1>1 DEF Config!Environments
  <1>4. \A v \in Config!Variables : env[v] # "NaN"
    BY <1>2, <1>3
  <1>5. QED BY <1>1, <1>4 DEF ConfigInv

LEMMA ParsedKinds ==
    ASSUME NEW kind, NEW v, v # "NaN"
    PROVE  /\ Config!Parse("number", v) \in {"NaN", "number"}
           /\ kind # "number" => Config!Parse(kind, v) # "NaN"
  BY DEF Config!Parse

LEMMA ReadStep == ASSUME ConfigInv, Config!ReadPackageJsonFile PROVE ConfigInv'
  <1>1. CASE Config!Goto("unread")
    BY <1>1 DEF Config!Goto, ConfigInv
  <1>2. ASSUME NEW version \in {"text", "undefined"}, NEW name \in {"text", "empty"},
               config' = [k \in Keys |->
                            CASE k = "APP_VERSION" -> version
                              [] k = "APP_NAME" -> name
                              [] OTHER -> Config!Parse(Config!MAIN_CONFIG[k].kind,
                                                       env[Config!MAIN_CONFIG[k].variable])],
               pc' = "convert", UNCHANGED env
        PROVE  ConfigInv'
    <2>0. /\ \A k \in Config!PackageKeys \cap Keys : config'[k] # "NaN"
          /\ \A k \in Keys \ Config!PackageKeys :
               config'[k] = Config!Parse(Config!MAIN_CONFIG[k].kind,
                                         env[Config!MAIN_CONFIG[k].variable])
      BY <1>2 DEF Config!PackageKeys
    <2>1. ASSUME NEW k \in Config!NumberKeys PROVE config'[k] \in {"NaN", "number"}
      <3>1. k \in Keys /\ Config!MAIN_CONFIG[k].kind = "number" /\ k \notin Config!PackageKeys
        BY MainKeys DEF Config!NumberKeys, Config!PackageKeys
      <3>2. env[Config!MAIN_CONFIG[k].variable] # "NaN"
        BY <3>1, VariableOf DEF ConfigInv
      <3>3. QED BY <2>0, <3>1, <3>2, ParsedKinds
    <2>2. ASSUME NEW k \in Keys \ Config!NumberKeys PROVE config'[k] # "NaN"
      <3>1. Config!MAIN_CONFIG[k].kind # "number"
        BY MainKeys
      <3>2. CASE k \in Config!PackageKeys
        BY <2>0, <3>2
      <3>3. CASE k \notin Config!PackageKeys
        <4>1. env[Config!MAIN_CONFIG[k].variable] # "NaN"
          BY <3>3, VariableOf DEF ConfigInv
        <4>2. QED BY <2>0, <3>1, <3>3, <4>1, ParsedKinds
      <3>4. QED BY <3>2, <3>3
    <2>3. QED BY <1>2, <2>1, <2>2 DEF ConfigInv
  <1>3. QED BY <1>1, <1>2 DEF Config!ReadPackageJsonFile, Keys

LEMMA AssignStep == ASSUME ConfigInv, Config!Assign PROVE ConfigInv'
  <1>1. /\ pc = "assign" /\ pc' = "ready" /\ UNCHANGED env
        /\ config' = [k \in Keys |-> IF k \in DOMAIN Config!SERVER_CONFIG_DEFAULT
                                     THEN Config!AssignCustomizer(k) ELSE config[k]]
    BY DefaultKeys DEF Config!Assign, Keys
  <1>2. Complete'
    <2> SUFFICES ASSUME NEW k \in Keys
                 PROVE  /\ config'[k] # "NaN"
                        /\ k \in Config!NumberKeys => config'[k] \in {"number", "default"}
                        /\ config'[k] = "undefined" =>
                             \/ k \notin DOMAIN Config!SERVER_CONFIG_DEFAULT
                             \/ Config!SERVER_CONFIG_DEFAULT[k] = "undefined"
      BY MainKeys DEF Complete
    <2>1. CASE k \in DOMAIN Config!SERVER_CONFIG_DEFAULT
      <3>1. config'[k] = IF config[k] \in {"undefined", "NaN"}
                         THEN Config!SERVER_CONFIG_DEFAULT[k] ELSE config[k]
        BY <1>1, <2>1 DEF Config!AssignCustomizer
      <3>2. QED BY <1>1, <2>1, <3>1, DefaultKeys DEF ConfigInv
    <2>2. CASE k \notin DOMAIN Config!SERVER_CONFIG_DEFAULT
      <3>1. k \notin Config!NumberKeys /\ config'[k] = config[k]
        BY <1>1, <2>2, DefaultKeys
      <3>2. QED BY <1>1, <2>2, <3>1 DEF ConfigInv
    <2>3. QED BY <2>1, <2>2
  <1>3. QED BY <1>1, <1>2 DEF ConfigInv

LEMMA ConfigStep == ConfigInv /\ [ServerNext]_serverVars => ConfigInv'
  <1> SUFFICES ASSUME ConfigInv, [ServerNext]_serverVars PROVE ConfigInv'
    OBVIOUS
  <1>1. CASE UNCHANGED <<env, pc, config>>
    BY <1>1 DEF ConfigInv, Complete
  <1>2. CASE Config!ValidateEnvironmentVariables
    BY <1>2 DEF Config!ValidateEnvironmentVariables, Config!Goto, ConfigInv
  <1>3. CASE Config!ConvertStringToArray
    <2>1. /\ pc = "convert" /\ pc' = "assign" /\ UNCHANGED env
          /\ config' = [k \in Keys |-> IF config[k] = "comma" THEN "array" ELSE config[k]]
      BY <1>3 DEF Config!ConvertStringToArray, Keys
    <2>2. Config!NumberKeys \subseteq Keys
      BY MainKeys
    <2>3. QED BY <2>1, <2>2 DEF ConfigInv
  <1>4. CASE Config!Stopped
    BY <1>1, <1>4 DEF Config!Stopped, Config!vars
  <1>5. ASSUME Start PROVE ConfigInv'
    BY <1>2, <1>3, <1>4, <1>5, ReadStep, AssignStep DEF Start, Config!Next
  <1>6. QED BY <1>1, <1>5 DEF ServerNext, Clock, BackupStep, serverVars

\* Whatever the environment sets, and to what, a config that is ready has no
\* NaN, and no default keeps it from becoming ready.
THEOREM ConfigIsComplete == ServerSpec => []ReadyIsComplete
  <1>1. ServerInit => ConfigInv
    BY ConfigInit DEF ServerInit
  <1>2. ConfigInv => ReadyIsComplete
    BY DEF ConfigInv, Complete, Keys, ReadyIsComplete, Config!ReadyIsComplete
  <1>3. QED BY <1>1, <1>2, ConfigStep, PTL DEF ServerSpec
=============================================================================
