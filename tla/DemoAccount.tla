------------------------------ MODULE DemoAccount ------------------------------
(***************************************************************************)
(* The Demo Account is built three ways: by serve, beside the path of a    *)
(* database that does not exist yet; by a task of a running server, in the *)
(* live database; by reset-demo, in a copy that is swapped in afterwards   *)
(* (reset_demo.rs, server.rs, server_api.rs, operation_lock.rs).  All run  *)
(* the same build.  A process may be killed at any step; what is on disk   *)
(* then is what the next one finds.                                        *)
(*                                                                         *)
(* A database is its other accounts' rows, how much of the Demo Account it *)
(* holds, the record of an unfinished build and whether a Session of the   *)
(* Demo Account is open.  The account's files are a folder beside it.      *)
(***************************************************************************)
EXTENDS Integers, FiniteSets

CONSTANTS
  Rows,            \* what other accounts may write
  MaxStarts,       \* how often a process is started or a build asked for
  MaxFaults,       \* how many steps of builds may fail
  MaxRenameFaults, \* how many renames of the swap may fail
  MaxKills,
  CommandsRace,    \* whether commands write while a database is replaced
  DeletesRace,     \* whether a delete or login begun before a build outlives its start
  RecordFails,     \* whether the first write of a build, its record, may be what fails
  FreshResets,     \* whether reset-demo runs where there is no database
  NoDb

Databases ==
  [others: SUBSET Rows, demo: {"none", "part", "whole"}, record: BOOLEAN, session: BOOLEAN]

ASSUME DemoAssumption ==
  /\ {MaxStarts, MaxFaults, MaxRenameFaults, MaxKills} \subseteq Nat
  /\ {CommandsRace, DeletesRace, RecordFails, FreshResets} \subseteq BOOLEAN
  /\ NoDb \notin Databases

VARIABLES
  \* on disk
  db, dir,            \* at the configured paths
  made, madeDir,      \* being built beside them
  old, oldDir,        \* moved out of the way by the swap
  kept,               \* other accounts' rows in databases left in work folders
  ready,              \* server.ready
  \* in memory
  serve, reset,       \* what the two processes do next
  build, builder,     \* the step of a build and who runs it
  then,               \* what follows once the account is wiped
  state,              \* DemoBuildState
  put, login, delete, \* requests at work
  \* history and bounds
  acked,              \* rows of other accounts that were stored
  torn,               \* whether a swap was left half done
  starts, faults, renameFaults, kills

active == <<db, dir>>
prepared == <<made, madeDir>>
backups == <<old, oldDir, kept>>
builds == <<build, builder, then>>
requests == <<put, login, delete>>
bounds == <<starts, faults, renameFaults, kills>>
vars == <<active, prepared, backups, ready, serve, reset, builds, state, requests,
          acked, torn, bounds>>

Database(others, demo, record, session) ==
  [others |-> others, demo |-> demo, record |-> record, session |-> session]
Empty == Database({}, "none", FALSE, FALSE)

Init ==
  /\ db = NoDb /\ dir = "none" /\ made = NoDb /\ madeDir = "none"
  /\ old = NoDb /\ oldDir = "none" /\ kept = {} /\ ready = FALSE
  /\ serve = "down" /\ reset = "down"
  /\ build = "none" /\ builder = "nobody" /\ then = "seed"
  /\ state = "idle" /\ put = "none" /\ login = "none" /\ delete = "none"
  /\ acked = {} /\ torn = FALSE
  /\ starts = 0 /\ faults = 0 /\ renameFaults = 0 /\ kills = 0

Starts == starts < MaxStarts /\ starts' = starts + 1 /\ UNCHANGED <<faults, renameFaults, kills>>
Fault == faults < MaxFaults /\ faults' = faults + 1 /\ UNCHANGED <<starts, renameFaults, kills>>
RenameFault ==
  /\ renameFaults < MaxRenameFaults /\ renameFaults' = renameFaults + 1
  /\ UNCHANGED <<starts, faults, kills>>

(* The operation lock: one of serve and reset-demo.                        *)
LockFree == serve = "down" /\ reset = "down"

--------------------------------------------------------------------------------
(* The build, in the live database or in the one made beside it.           *)

(* "watcher" is the task that waits for a build and cleans up after it.    *)
Live == builder \in {"task", "watcher"}

Built == IF Live THEN db ELSE made

Write(d) == IF Live THEN db' = d /\ UNCHANGED made ELSE made' = d /\ UNCHANGED db

(* Only reset-demo has a folder of its own.                                *)
Files(f) ==
  IF builder = "reset" THEN madeDir' = f /\ UNCHANGED dir ELSE dir' = f /\ UNCHANGED madeDir

SameFiles == UNCHANGED <<dir, madeDir>>
BuildFrame == UNCHANGED <<backups, ready, serve, reset, state, requests, acked, torn>>

Step(from, to) == build = from /\ build' = to

(* begin: the record comes first.                                          *)
BeginBuild ==
  /\ Step("record", "wipe") /\ then' = "seed"
  /\ Write([Built EXCEPT !.record = TRUE]) /\ SameFiles

(* wipe_demo_account: the messages in batches, the account, its folder.    *)
WipeMessages ==
  /\ Step("wipe", "account") /\ UNCHANGED then
  /\ Write([Built EXCEPT !.demo = IF @ = "none" THEN @ ELSE "part"]) /\ SameFiles

WipeAccount ==
  /\ Step("account", "folder") /\ UNCHANGED then
  /\ Write([Built EXCEPT !.demo = "none", !.session = FALSE]) /\ SameFiles

WipeFolder ==
  /\ build = "folder" /\ build' = then /\ UNCHANGED then
  /\ Files("none") /\ UNCHANGED <<db, made>>

SeedAccount ==
  /\ Step("seed", "files") /\ UNCHANGED then
  /\ Write([Built EXCEPT !.demo = "part"]) /\ SameFiles

(* The sources, in batches: files first, then the rows that name them.     *)
CopyFiles == Step("files", "import") /\ Files("part") /\ UNCHANGED <<db, made, then>>

ImportSources == Step("import", "finish") /\ Files("whole") /\ UNCHANGED <<db, made, then>>

(* The address book, the dedupe and the previews.                          *)
FinishAccount ==
  /\ Step("finish", "end") /\ UNCHANGED then
  /\ Write([Built EXCEPT !.demo = IF @ = "part" THEN "whole" ELSE @]) /\ SameFiles

EndBuild ==
  /\ Step("end", "done") /\ UNCHANGED then
  /\ Write([Built EXCEPT !.record = FALSE]) /\ SameFiles

Unrecord ==
  /\ Step("unrecord", "removed") /\ UNCHANGED then
  /\ Write([Built EXCEPT !.record = FALSE]) /\ SameFiles

BuildWorks ==
  /\ \/ BeginBuild \/ WipeMessages \/ WipeAccount \/ WipeFolder \/ SeedAccount
     \/ CopyFiles \/ ImportSources \/ FinishAccount \/ EndBuild \/ Unrecord
  /\ BuildFrame /\ UNCHANGED <<builder, bounds>>

(* whole_demo_account_or_none: a failed build is wiped, and its record     *)
(* goes last.  A wipe that fails leaves the record.  A reset gives up.     *)
BuildFails ==
  /\ Fault
  /\ \/ build \in {"wipe", "account", "folder", "seed", "files", "import", "finish", "end", "unrecord"}
     \/ build = "record" /\ (RecordFails \/ ~Live)
  /\ IF then = "seed" /\ builder # "reset" THEN build' = "wipe" /\ then' = "unrecord"
     ELSE build' = "removed" /\ UNCHANGED then
  /\ UNCHANGED <<active, prepared, builder>> /\ BuildFrame

Begins(who) == build' = "record" /\ builder' = who /\ then' = "seed"
NoBuild == build' = "none" /\ builder' = "nobody" /\ then' = "seed"

--------------------------------------------------------------------------------
(* serve.                                                                  *)

ServeFrame == UNCHANGED <<backups, reset, requests, acked, bounds>>

StartServe ==
  /\ LockFree /\ Starts /\ serve' = "check"
  /\ UNCHANGED <<active, prepared, backups, ready, reset, builds, state, requests, acked, torn>>

(* A database that does not exist yet is seeded beside its path.           *)
CheckNew ==
  /\ serve = "check"
  /\ IF db = NoDb
     THEN serve' = "seed" /\ ready' = FALSE /\ made' = Empty /\ Begins("seed")
     ELSE serve' = "open" /\ UNCHANGED <<ready, made, builds>>
  /\ UNCHANGED <<active, madeDir, state, torn>> /\ ServeFrame

(* seed_into_place: the rename, once the build has finished.               *)
Place == IF build = "done" THEN db' = made /\ torn' = FALSE ELSE UNCHANGED <<db, torn>>

Seeded ==
  /\ serve = "seed" /\ build \in {"done", "removed"}
  /\ serve' = "open" /\ Place
  /\ made' = NoDb /\ NoBuild
  /\ UNCHANGED <<dir, madeDir, ready, state>> /\ ServeFrame

(* create_or_open, and only then the ready marker.                         *)
OpenDatabase ==
  /\ serve = "open"
  /\ serve' = "recover" /\ ready' = TRUE
  /\ db' = IF db = NoDb THEN Empty ELSE db
  /\ UNCHANGED <<dir, prepared, builds, state, torn>> /\ ServeFrame

(* Mutant: only the record of a stopped build is removed.                  *)
ForgetStopped == build' = "unrecord" /\ builder' = "task" /\ then' = "unrecord"

WipeStopped == build' = "wipe" /\ builder' = "task" /\ then' = "unrecord"

(* recover_stopped_demo_build: before the first request.                   *)
Recover ==
  /\ serve = "recover" /\ build = "none"
  /\ IF db.record THEN WipeStopped /\ UNCHANGED serve ELSE serve' = "up" /\ UNCHANGED builds
  /\ UNCHANGED <<active, prepared, ready, state, torn>> /\ ServeFrame

(* A removal that fails ends the start.                                    *)
Recovered ==
  /\ serve = "recover" /\ build = "removed"
  /\ IF db.record THEN serve' = "down" /\ UNCHANGED state ELSE serve' = "up" /\ state' = "failed"
  /\ NoBuild
  /\ UNCHANGED <<active, prepared, ready, torn>> /\ ServeFrame

(* Requests of other accounts store rows.                                  *)
StoreRow(r) ==
  /\ db' = [db EXCEPT !.others = @ \cup {r}] /\ acked' = acked \cup {r}
  /\ UNCHANGED <<dir, prepared, backups, ready, serve, reset, builds, state, requests, torn,
                 bounds>>

Serve(r) == serve = "up" /\ r \notin acked /\ StoreRow(r)

--------------------------------------------------------------------------------
(* The build of a running server.                                          *)

RequestFrame == UNCHANGED <<dir, prepared, backups, ready, serve, reset, acked, torn>>

(* replace_demo_account: the build is marked, then the Sessions end.       *)
MarkBuild ==
  /\ serve = "up" /\ state # "building" /\ Starts
  /\ DeletesRace \/ (login = "none" /\ delete = "none")
  /\ state' = "building" /\ put' = "marked"
  /\ UNCHANGED <<db, builds, login, delete>> /\ RequestFrame

StartTask ==
  /\ put = "marked" /\ put' = "none"
  /\ \/ db' = [db EXCEPT !.session = FALSE] /\ Begins("task") /\ UNCHANGED <<state, bounds>>
     \/ Fault /\ state' = "idle" /\ UNCHANGED <<db, builds>>
  /\ UNCHANGED <<login, delete>> /\ RequestFrame

(* The client goes away, and the handler with it.                          *)
DropPut ==
  /\ put = "marked" /\ put' = "none"
  /\ UNCHANGED <<db, builds, state, login, delete, bounds>> /\ RequestFrame

(* Mutant: a build that failed stays the one that is running.              *)
StaysBuilding == UNCHANGED state

(* DemoBuild::run: the state leaves "building".                            *)
LeaveBuilding == state' = IF build = "done" THEN "idle" ELSE "failed"

TaskEnds ==
  /\ serve \in {"up", "stop"} /\ Live /\ build \in {"done", "removed"}
  /\ LeaveBuilding /\ NoBuild
  /\ torn' = (torn /\ build # "done")
  /\ UNCHANGED <<active, prepared, ready, serve>> /\ ServeFrame

(* A panic is wiped by the task that waits for the build.                  *)
TaskPanics ==
  /\ serve = "up" /\ builder = "task" /\ build \notin {"done", "removed"} /\ Fault
  /\ RecordFails \/ build # "record"
  /\ build' = "wipe" /\ then' = "unrecord" /\ builder' = "watcher"
  /\ UNCHANGED <<active, prepared>> /\ BuildFrame

(* Shutdown, once the requests in flight have ended ...                    *)
Shutdown ==
  /\ serve = "up" /\ put = "none" /\ login = "none" /\ delete = "none"
  /\ serve' = "stop"
  /\ UNCHANGED <<active, prepared, ready, builds, state, torn>> /\ ServeFrame

(* ... aborts a build where it is, wipes it and keeps its record.          *)
AbortTask ==
  /\ serve = "stop" /\ builder = "task" /\ build \notin {"done", "removed"}
  /\ build' = IF db.record THEN "wipe" ELSE "removed"
  /\ then' = "removed" /\ builder' = "watcher"
  /\ UNCHANGED <<active, prepared>> /\ BuildFrame /\ UNCHANGED bounds

Stopped ==
  /\ serve = "stop" /\ build = "none"
  /\ serve' = "down" /\ state' = "idle"
  /\ UNCHANGED <<active, prepared, ready, builds, torn>> /\ ServeFrame

(* create_session and the owner's delete_account look at the build once,   *)
(* and act on it later.                                                    *)
CheckLogin ==
  /\ serve = "up" /\ state # "building" /\ db.demo # "none" /\ login = "none"
  /\ login' = "checked"
  /\ UNCHANGED <<db, builds, state, put, delete, bounds>> /\ RequestFrame

OpenSession ==
  /\ login = "checked" /\ login' = "none"
  /\ db' = [db EXCEPT !.session = db.demo # "none"]
  /\ UNCHANGED <<builds, state, put, delete, bounds>> /\ RequestFrame

CheckDelete ==
  /\ serve = "up" /\ state # "building" /\ db.demo # "none" /\ delete = "none"
  /\ delete' = "checked"
  /\ UNCHANGED <<db, builds, state, put, login, bounds>> /\ RequestFrame

DeleteAccount ==
  /\ delete = "checked" /\ delete' = "folder"
  /\ db' = [db EXCEPT !.demo = "none", !.session = FALSE]
  /\ UNCHANGED <<builds, state, put, login, bounds>> /\ RequestFrame

(* The folder goes in a thread of its own.                                 *)
DeleteFolder ==
  /\ delete = "folder" /\ delete' = "none" /\ dir' = "none"
  /\ UNCHANGED <<db, prepared, ready, serve, builds, state, put, login, torn>>
  /\ UNCHANGED <<backups, reset, acked, bounds>>

--------------------------------------------------------------------------------
(* Commands that write without the lock; create-database makes a database. *)

CommandWrite(r) ==
  /\ r \notin acked
  /\ CommandsRace \/ (reset = "down" /\ serve \notin {"check", "seed", "open"})
  /\ db' = IF db = NoDb THEN [Empty EXCEPT !.others = {r}] ELSE [db EXCEPT !.others = @ \cup {r}]
  /\ acked' = acked \cup {r}
  /\ UNCHANGED <<dir, prepared, backups, ready, serve, reset, builds, state, requests, torn,
                 bounds>>

--------------------------------------------------------------------------------
(* reset-demo.                                                             *)

ResetFrame == UNCHANGED <<serve, state, requests, acked>>

(* Mutant: the marker stays while the database is replaced.                *)
KeepReady == UNCHANGED ready

ClearReady == ready' = FALSE

StartReset ==
  /\ LockFree /\ Starts /\ (db # NoDb \/ FreshResets)
  /\ ClearReady /\ reset' = "snapshot"
  /\ UNCHANGED <<active, prepared, backups, builds, torn>> /\ ResetFrame

(* prepare_database_snapshot, and the build in the copy.                   *)
Snapshot ==
  /\ reset = "snapshot" /\ reset' = "build"
  /\ made' = IF db = NoDb THEN Empty ELSE db
  /\ Begins("reset")
  /\ UNCHANGED <<active, madeDir, backups, ready, torn, bounds>> /\ ResetFrame

ResetBuilt ==
  /\ reset = "build" /\ build = "done" /\ reset' = "verify" /\ NoBuild
  /\ UNCHANGED <<active, prepared, backups, ready, torn, bounds>> /\ ResetFrame

OthersUnchanged == db = NoDb \/ db.others = made.others

(* verify_non_demo_state_preserved and the checkpoints.                    *)
Verify ==
  /\ reset = "verify" /\ OthersUnchanged /\ reset' = "back up database"
  /\ UNCHANGED <<active, prepared, backups, ready, builds, torn, bounds>> /\ ResetFrame

(* A failure before the swap: the marker is written back on the way out.   *)
GiveUp ==
  /\ \/ reset = "build" /\ build = "removed" /\ UNCHANGED bounds
     \/ reset = "verify" /\ ~OthersUnchanged /\ UNCHANGED bounds
     \/ reset \in {"snapshot", "verify"} /\ Fault
  /\ reset' = "down" /\ ready' = TRUE /\ NoBuild
  /\ made' = NoDb /\ madeDir' = "none"
  /\ UNCHANGED <<active, backups, torn>> /\ ResetFrame

(* replace_reset_state_with: four renames, database before folder.         *)
SwapFrame == UNCHANGED <<kept, ready, builds, torn, bounds>> /\ ResetFrame

BackUpDatabase ==
  /\ reset = "back up database" /\ reset' = "back up folder"
  /\ old' = db /\ db' = NoDb
  /\ UNCHANGED <<dir, prepared, oldDir>> /\ SwapFrame

BackUpFolder ==
  /\ reset = "back up folder" /\ reset' = "install database"
  /\ oldDir' = dir /\ dir' = "none"
  /\ UNCHANGED <<db, prepared, old>> /\ SwapFrame

InstallDatabase ==
  /\ reset = "install database" /\ reset' = "install folder"
  /\ db' = made /\ made' = NoDb
  /\ UNCHANGED <<dir, madeDir, old, oldDir>> /\ SwapFrame

InstallFolder ==
  /\ reset = "install folder" /\ reset' = "clean up"
  /\ dir' = madeDir /\ madeDir' = "none"
  /\ UNCHANGED <<db, made, old, oldDir>> /\ SwapFrame

CleanUp ==
  /\ reset = "clean up" /\ reset' = "mark"
  /\ old' = NoDb /\ oldDir' = "none"
  /\ UNCHANGED <<active, prepared>> /\ SwapFrame

(* A marker that cannot be written fails the command, not the swap.        *)
MarkReady ==
  /\ reset = "mark" /\ reset' = "down" /\ torn' = FALSE
  /\ \/ ready' = TRUE /\ UNCHANGED bounds
     \/ Fault /\ UNCHANGED ready
  /\ UNCHANGED <<active, prepared, backups, builds>> /\ ResetFrame

RenameFails ==
  /\ reset \in {"back up database", "back up folder", "install database", "install folder"}
  /\ RenameFault /\ reset' = "roll back folder"
  /\ UNCHANGED <<active, prepared, backups, ready, builds, torn>> /\ ResetFrame

NothingInWork == old = NoDb /\ oldDir = "none"

RollFrame == UNCHANGED <<prepared, kept, ready, builds, torn>> /\ ResetFrame

RollBackFolder ==
  /\ reset = "roll back folder" /\ reset' = "roll back database"
  /\ \/ /\ dir' = IF oldDir = "none" THEN dir ELSE oldDir
        /\ oldDir' = "none" /\ UNCHANGED bounds
     \/ oldDir # "none" /\ RenameFault /\ UNCHANGED <<dir, oldDir>>
  /\ UNCHANGED <<db, old>> /\ RollFrame

(* What was installed is removed, then the backup is put back.             *)
Installed == made = NoDb

RollBackDatabase ==
  /\ reset = "roll back database" /\ reset' = "give back"
  /\ \/ /\ db' = IF old # NoDb \/ Installed THEN old ELSE db
        /\ old' = NoDb /\ UNCHANGED bounds
     \/ /\ old # NoDb /\ RenameFault /\ UNCHANGED old
        /\ db' \in IF Installed THEN {NoDb, db} ELSE {db}
  /\ UNCHANGED <<dir, oldDir>> /\ RollFrame

(* Mutant: the work folders go, whatever is still in them.                 *)
DeleteWork == ready' = TRUE /\ UNCHANGED <<kept, torn>>

(* install_reset_state_or_keep_work: what a rollback left is kept, and the *)
(* marker stays away.                                                      *)
KeepWork ==
  IF NothingInWork
  THEN ready' = TRUE /\ UNCHANGED <<kept, torn>>
  ELSE kept' = kept \cup (IF old = NoDb THEN {} ELSE old.others) /\ torn' = TRUE /\ UNCHANGED ready

GiveBack ==
  /\ reset = "give back" /\ reset' = "down" /\ KeepWork
  /\ made' = NoDb /\ madeDir' = "none" /\ old' = NoDb /\ oldDir' = "none"
  /\ UNCHANGED <<active, builds, bounds>> /\ ResetFrame

--------------------------------------------------------------------------------
(* A process is killed: its memory goes and its lock with it.  A work      *)
(* folder stays where it is, the .seeding file until the next start.       *)

Killed == kills < MaxKills /\ kills' = kills + 1 /\ UNCHANGED <<starts, faults, renameFaults>>

KillServe ==
  /\ serve # "down" /\ Killed /\ serve' = "down"
  /\ made' = NoDb /\ NoBuild /\ state' = "idle"
  /\ put' = "none" /\ login' = "none" /\ delete' = "none"
  /\ UNCHANGED <<active, madeDir, backups, ready, reset, acked, torn>>

HalfSwapped == reset = "install folder" \/ (reset # "clean up" /\ ~NothingInWork)

KillReset ==
  /\ reset # "down" /\ Killed /\ reset' = "down" /\ NoBuild
  /\ kept' = kept \cup (IF old = NoDb THEN {} ELSE old.others)
  /\ torn' = (torn \/ HalfSwapped)
  /\ old' = NoDb /\ oldDir' = "none" /\ made' = NoDb /\ madeDir' = "none"
  /\ UNCHANGED <<active, ready>> /\ ResetFrame

Next ==
  \/ BuildWorks \/ BuildFails
  \/ StartServe \/ CheckNew \/ Seeded \/ OpenDatabase \/ Recover \/ Recovered
  \/ \E r \in Rows: Serve(r) \/ CommandWrite(r)
  \/ MarkBuild \/ StartTask \/ DropPut \/ TaskEnds \/ TaskPanics
  \/ Shutdown \/ AbortTask \/ Stopped
  \/ CheckLogin \/ OpenSession \/ CheckDelete \/ DeleteAccount \/ DeleteFolder
  \/ StartReset \/ Snapshot \/ ResetBuilt \/ Verify \/ GiveUp
  \/ BackUpDatabase \/ BackUpFolder \/ InstallDatabase \/ InstallFolder \/ CleanUp \/ MarkReady
  \/ RenameFails \/ RollBackFolder \/ RollBackDatabase \/ GiveBack
  \/ KillServe \/ KillReset

(* A build that runs takes its next step, and the task that waits for it   *)
(* ends; nothing makes a person ask, a server stop or a process start.     *)
Spec == Init /\ [][Next]_vars /\ WF_vars(BuildWorks) /\ WF_vars(TaskEnds)

--------------------------------------------------------------------------------
(* Properties.                                                             *)

Folders == {"none", "part", "whole"}

TypeOK ==
  /\ {db, made, old} \subseteq Databases \cup {NoDb}
  /\ {dir, madeDir, oldDir} \subseteq Folders
  /\ kept \subseteq Rows /\ acked \subseteq Rows
  /\ {ready, torn} \subseteq BOOLEAN
  /\ state \in {"idle", "building", "failed"}
  /\ builder \in {"nobody", "seed", "task", "watcher", "reset"}

RowsOf(d) == IF d = NoDb THEN {} ELSE d.others

(* Whatever fails or is killed, and whenever, a row that another account   *)
(* stored is in the database, in the backup of a swap at work, or in a     *)
(* work folder that was left on disk (reset_demo.rs: a reset "must only    *)
(* ever touch the Demo Account"; what a rollback leaves is kept).          *)
OthersKept == acked \subseteq RowsOf(db) \cup RowsOf(old) \cup kept

(* server.ready stands only beside a database (operation_lock.rs: waiters  *)
(* are told that it is being rebuilt), through every way out of a reset.   *)
ReadyTrue == ready => db # NoDb

(* While the server answers, a Demo Account that can be entered, or that   *)
(* someone is inside, is whole, rows and files: a part-built one is never  *)
(* ready (server_api.rs, recover_stopped_demo_build).                      *)
DemoWhole ==
  serve = "up" /\ ~torn /\ db.demo # "none" /\ (db.session \/ state # "building")
    => db.demo = "whole" /\ dir = "whole"

(* Whatever way a build ends, the state leaves "building", so a later      *)
(* build or delete is not refused for good (server_api.rs, DemoBuild::run).*)
BuildEnds == Live /\ serve = "up" ~> state # "building"

================================================================================
