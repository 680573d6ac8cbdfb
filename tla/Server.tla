------------------------------- MODULE Server -------------------------------
(* The process from its start: the config is built once, while the modules    *)
(* are loaded, and the backups that run later use what it holds.              *)
EXTENDS Backup

CONSTANTS
    MaxOdd      \* bound: variables of the environment that are not as usual

VARIABLES
    env, pc, config     \* of module Configuration

serverVars == <<vars, env, pc, config>>

Config == INSTANCE Configuration

ServerInit == Init /\ Config!Init

Start == Config!Next /\ UNCHANGED vars

\* isLocalEnv disables the cron job when its class is loaded.
MayBegin(j) == j \in Cron => config["NODE_ENV"] # "local"

\* getDatabaseCredentials takes a url apart, and there is one path to make.
Usable == config["DATABASE_URL"] = "url" /\ config["BACKUP_PATH"] \notin {"array", "empty"}

\* One step of a backup, with the config that was made at the start.
BackupStep(j) ==
    /\ pc = "ready" /\ MayBegin(j)
    /\ IF Usable THEN Step(j) ELSE Refuse(j)
    /\ UNCHANGED <<env, pc, config>>

Clock == pc = "ready" /\ Tick /\ UNCHANGED <<env, pc, config>>

ServerNext == Start \/ Clock \/ \E j \in Job : BackupStep(j)

\* Node loads the modules, goes on with a backup it began, and mysqldump ends.
ServerSpec ==
    /\ ServerInit /\ [][ServerNext]_serverVars
    /\ WF_serverVars(Start)
    /\ \A j \in Job : WF_serverVars(BackupStep(j))
-----------------------------------------------------------------------------
\* As in module Configuration: what a config that is ready holds.
ReadyIsComplete == Config!ReadyIsComplete
=============================================================================
