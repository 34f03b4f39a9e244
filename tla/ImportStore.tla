------------------------------ MODULE ImportStore ------------------------------
(***************************************************************************)
(* One account of a Message Crate server: its Import Runs, the messages    *)
(* their batches store, the conversations that can be trashed and deleted, *)
(* and the original files (Assets) the messages' attachments name.         *)
(*                                                                         *)
(* Three kinds of actor meet here: the clients that drive a run            *)
(* (imports_api), the person who deletes (trash_api, accounts_api), and    *)
(* the server's own removal of files nobody names (asset_store).  They     *)
(* wait for four things, always in this order: a permit to import, the     *)
(* account's import lock (an in-memory mutex), a connection of the pool,   *)
(* and SQLite's single write lock.  A transaction that only touches rows   *)
(* is one step that finds the write lock free; a removal of files, which   *)
(* holds the write lock while it deletes one file after another, is many.  *)
(***************************************************************************)
EXTENDS Integers, FiniteSets

CONSTANTS
  Runs,          \* Import Runs that may be created
  CliRuns,       \* the runs the server's own `import` command makes
  Guids,         \* message ids of the backups
  Assets,        \* contents of attachments, by fingerprint
  Convs,         \* conversations
  Sources,       \* backup families (imessage, whatsapp, ...)
  Stages,        \* the stages a client reports
  Outcomes,      \* the outcomes a client reports for a run it completes
  Batches,       \* POST /v1/imports/{id}/batches requests
  ConvDeletes,   \* DELETE /v1/conversations/{id} and /v1/trash requests
  AllDeletes,    \* DELETE /v1/accounts/{id}/messages requests
  Droppable,     \* deletes whose client may go away during the removal
  MaxImports,    \* permits to import (MAX_CONCURRENT_IMPORTS)
  PoolSize,      \* connections of the server's pool (max_connections)
  RunMode, RunSource,           \* what each run was created with
  SourceOf, ConvOf, AssetOf,    \* what a backup says of each message
  StrayUploads,  \* may files be uploaded while no run is running?
  MaxCrashes,    \* bound: how often the server process may die
  NoRun, NoStage, Nobody

Deletes == ConvDeletes \cup AllDeletes

(* The tasks that remove files: a delete's, or the sweep at a run's end,   *)
(* which is named by its run.                                              *)
Removers == Deletes \cup Runs

ImportStatuses == {"none", "running", "completed", "completed_with_issues",
                   "failed", "cancelled"}
EndStatuses == ImportStatuses \ {"none", "running"}

ASSUME BackupAssumption ==
  /\ SourceOf \in [Guids -> Sources]
  /\ ConvOf \in [Guids -> Convs]
  /\ AssetOf \in [Guids -> Assets]
  /\ IsFiniteSet(Guids)

ASSUME RunAssumption ==
  /\ CliRuns \subseteq Runs
  /\ RunMode \in [Runs -> {"append", "replace"}]
  /\ RunSource \in [Runs -> Sources]
  /\ NoRun \notin Runs
  /\ NoStage \notin Stages
  /\ Outcomes \subseteq EndStatuses \ {"cancelled"}

ASSUME PoolAssumption == MaxImports \in Nat \ {0} /\ PoolSize \in Nat \ {0}

ASSUME TaskAssumption ==
  /\ Runs \cap (Batches \cup Deletes) = {}
  /\ Batches \cap Deletes = {}
  /\ ConvDeletes \cap AllDeletes = {}
  /\ Nobody \notin Runs \cup Batches \cup Deletes
  /\ StrayUploads \in BOOLEAN
  /\ MaxCrashes \in Nat

VARIABLES
  status, stage, counted,   \* imports: the run's row
  stamp,                    \* messages: the run that inserted it, or NoRun
  held,                     \* messages whose attachment row names its Asset
  convs, trashed,           \* conversations, trashed_conversations
  files,                    \* originals on disk
  told,                     \* Assets the run's client was told are stored
  missed,                   \* unnamed files that a removal left (history)
  pcB, runB, msgsB, modeB,  \* a batch request: its progress and what it read
  pcR, todo,                \* a remover: its progress and the files to remove
  accountLock, writer,      \* who holds each lock, or Nobody
  crashes

rows == <<status, stage, counted, stamp, held, convs, trashed>>
batchVars == <<pcB, runB, msgsB, modeB>>
removerVars == <<pcR, todo>>
vars == <<rows, files, told, missed, batchVars, removerVars, accountLock, writer, crashes>>

--------------------------------------------------------------------------------
(* What the rows say.                                                      *)

Running == \E r \in Runs : status[r] = "running"
Stored == {g \in Guids : stamp[g] # NoRun}
StampedBy(r) == {g \in Guids : stamp[g] = r}
InConvs(C) == {g \in Guids : ConvOf[g] \in C}
OfSource(s) == {g \in Guids : SourceOf[g] = s}
AssetsOf(G) == {AssetOf[g] : g \in G}

(* Every fingerprint an attachment row names.  Staging rows live only      *)
(* inside a batch's transaction, so between transactions they name none.   *)
Named == AssetsOf(held)

(* Mutant: writes do not wait for one another.                             *)
NoWriteLock == TRUE

(* A transaction of one step: it runs while nobody else holds the write    *)
(* lock (BEGIN IMMEDIATE), and leaves the removers' progress alone.        *)
WriteLockFree == writer = Nobody

(* Mutant: a request keeps its connection while the task that removes its  *)
(* files waits for one.                                                    *)
ConnectedWhilePending ==
  {b \in Batches : pcB[b] \in {"opened", "stored"}} \cup
  {t \in Removers : pcR[t] \in {"opened", "pending", "connected", "removing"}}

(* Who holds a connection of the pool across steps: a batch from its       *)
(* account lock on, a delete of all for its transaction, and the task that *)
(* removes files.  The handler that waits for that task holds none.        *)
Connected ==
  {b \in Batches : pcB[b] \in {"opened", "stored"}} \cup
  {t \in Removers : pcR[t] \in {"opened", "connected", "removing"}}

ConnectionFree == Cardinality(Connected) < PoolSize

(* A request of one transaction has its connection for that step only.     *)
CanTransact == WriteLockFree /\ ConnectionFree

(* The import command is another process and has connections of its own.   *)
CanTransactFor(r) == WriteLockFree /\ (r \in CliRuns \/ ConnectionFree)

(* Who holds a permit to import: it is taken before the account's lock.    *)
Permitted == {b \in Batches : pcB[b] \in {"permitted", "locked", "opened", "stored"}}

PermitFree == Cardinality(Permitted) < MaxImports

Init ==
  /\ status = [r \in Runs |-> "none"]
  /\ stage = [r \in Runs |-> NoStage]
  /\ counted = [r \in Runs |-> 0]
  /\ stamp = [g \in Guids |-> NoRun]
  /\ held = {} /\ convs = {} /\ trashed = {}
  /\ files = {}
  /\ told = [r \in Runs |-> {}] /\ missed = {}
  /\ pcB = [b \in Batches |-> "idle"]
  /\ runB = [b \in Batches |-> NoRun]
  /\ msgsB = [b \in Batches |-> {}]
  /\ modeB = [b \in Batches |-> "append"]
  /\ pcR = [t \in Removers |-> "idle"]
  /\ todo = [t \in Removers |-> {}]
  /\ accountLock = Nobody /\ writer = Nobody
  /\ crashes = 0

--------------------------------------------------------------------------------
(* Import Runs.                                                            *)

(* The partial unique index allows one running run per account.            *)
SlotFree == ~Running

CreateRun(r) ==
  /\ CanTransactFor(r) /\ SlotFree
  /\ status[r] = "none"
  /\ status' = [status EXCEPT ![r] = "running"]
  /\ \E s \in Stages : stage' = [stage EXCEPT ![r] = s]
  /\ UNCHANGED <<counted, stamp, held, convs, trashed, files, told, missed, batchVars,
                 removerVars, accountLock, writer, crashes>>

SetStage(r, s) ==
  /\ CanTransactFor(r)
  /\ status[r] = "running"
  /\ stage' = [stage EXCEPT ![r] = s]
  /\ UNCHANGED <<status, counted, stamp, held, convs, trashed, files, told, missed,
                 batchVars, removerVars, accountLock, writer, crashes>>

(* Mutant: a handler ends a run without sweeping.                          *)
NoSweep(r) == "done"

(* The two handlers that end a run sweep the store after it.  The import   *)
(* command ends its run through OwnedSession::finish, which does not.      *)
AfterRun(r) == IF r \in CliRuns THEN "done" ELSE "pending"

(* What its client was told no longer counts once the run has ended.       *)
ForgetTold(r) == told' = [told EXCEPT ![r] = {}]

CompleteRun(r, s) ==
  /\ CanTransactFor(r)
  /\ status[r] = "running"
  /\ r \in CliRuns => pcR[r] = "finishing"
  /\ status' = [status EXCEPT ![r] = s]
  /\ stage' = [stage EXCEPT ![r] = NoStage]
  /\ counted' = [counted EXCEPT ![r] = Cardinality(StampedBy(r))]
  /\ pcR' = [pcR EXCEPT ![r] = AfterRun(r)]
  /\ ForgetTold(r)
  /\ missed' = IF r \in CliRuns THEN files \ Named ELSE missed
  /\ UNCHANGED <<stamp, held, convs, trashed, files, batchVars, todo,
                 accountLock, writer, crashes>>

(* Discarding, over HTTP or with `imports discard` (another process, which *)
(* needs no connection of the pool), always sweeps.                        *)
DiscardRun(r) ==
  /\ WriteLockFree
  /\ status[r] = "running"
  /\ status' = [status EXCEPT ![r] = "cancelled"]
  /\ stage' = [stage EXCEPT ![r] = NoStage]
  /\ pcR' = [pcR EXCEPT ![r] = "pending"]
  /\ ForgetTold(r)
  /\ UNCHANGED <<counted, stamp, held, convs, trashed, files, missed, batchVars,
                 todo, accountLock, writer, crashes>>

--------------------------------------------------------------------------------
(* Uploads.  HEAD /v1/assets/{sha256} answers that a file is stored, and   *)
(* PUT or a completed multipart upload stores it; neither touches the      *)
(* database.  A client that gets the answer while its run is running may   *)
(* rely on the file.                                                       *)

TellRunning(x) ==
  told' = [r \in Runs |-> IF status[r] = "running" THEN told[r] \cup {x} ELSE told[r]]

HeadAsset(x) ==
  /\ x \in files /\ Running
  /\ TellRunning(x)
  /\ UNCHANGED <<rows, files, missed, batchVars, removerVars, accountLock, writer,
                 crashes>>

StoreAsset(x) ==
  /\ Running \/ StrayUploads
  /\ files' = files \cup {x}
  /\ TellRunning(x)
  /\ missed' = IF Running \/ x \in Named THEN missed ELSE missed \cup {x}
  /\ UNCHANGED <<rows, batchVars, removerVars, accountLock, writer, crashes>>

--------------------------------------------------------------------------------
(* Batches.                                                                *)

(* Mutant: a batch and a delete of all messages do not take the lock.      *)
NoAccountLock == TRUE

AccountFree == accountLock = Nobody

(* The run is checked once before the body is read, with no lock held...   *)
AdmitBatch(b, r, S) ==
  /\ pcB[b] = "idle" /\ ConnectionFree
  /\ status[r] = "running" /\ r \notin CliRuns
  /\ S \subseteq OfSource(RunSource[r])
  /\ pcB' = [pcB EXCEPT ![b] = "admitted"]
  /\ runB' = [runB EXCEPT ![b] = r]
  /\ msgsB' = [msgsB EXCEPT ![b] = S]
  /\ UNCHANGED <<rows, files, told, missed, modeB, removerVars, accountLock, writer, crashes>>

TakePermit(b) ==
  /\ pcB[b] = "admitted" /\ PermitFree
  /\ pcB' = [pcB EXCEPT ![b] = "permitted"]
  /\ UNCHANGED <<rows, files, told, missed, runB, msgsB, modeB, removerVars, accountLock,
                 writer, crashes>>

LockAccount(b) ==
  /\ pcB[b] = "permitted" /\ AccountFree
  /\ pcB' = [pcB EXCEPT ![b] = "locked"]
  /\ accountLock' = b
  /\ UNCHANGED <<rows, files, told, missed, runB, msgsB, modeB, removerVars, writer, crashes>>

(* A replace run wipes its source once: on the batch that finds no message *)
(* stamped by the run.  Decided under the account's lock, outside the      *)
(* batch's transaction.                                                    *)
FirstBatch(r) == StampedBy(r) = {}

BatchMode(r) == IF RunMode[r] = "replace" /\ FirstBatch(r) THEN "replace" ELSE "append"

OpenBatch(b) ==
  /\ pcB[b] = "locked" /\ ConnectionFree
  /\ pcB' = [pcB EXCEPT ![b] = "opened"]
  /\ modeB' = [modeB EXCEPT ![b] = BatchMode(runB[b])]
  /\ UNCHANGED <<rows, files, told, missed, runB, msgsB, removerVars, accountLock, writer,
                 crashes>>

(* ... and again inside the transaction, under the write lock.             *)
StillRunning(r) == status[r] = "running"

(* Mutant: a message that is there already passes to the run.              *)
PromoteRestamps(r, S, mode, onDisk) ==
  LET kept == IF mode = "replace" THEN Stored \ OfSource(RunSource[r]) ELSE Stored
  IN /\ stamp' = [g \in Guids |-> IF g \in S THEN r
                                  ELSE IF g \in kept THEN stamp[g] ELSE NoRun]
     /\ held' = (held \cap kept) \cup {g \in S : AssetOf[g] \in onDisk}
     /\ convs' = convs \cup {ConvOf[g] : g \in S}

(* What staging and promoting the messages S of run r does to the rows.    *)
(* In replace mode the source's messages go first.  A message the source   *)
(* already holds is skipped; its attachment takes the file if it had none. *)
Promote(r, S, mode, onDisk) ==
  LET kept == IF mode = "replace" THEN Stored \ OfSource(RunSource[r]) ELSE Stored
  IN /\ stamp' = [g \in Guids |-> IF g \in kept THEN stamp[g]
                                  ELSE IF g \in S THEN r ELSE NoRun]
     /\ held' = (held \cap kept) \cup {g \in S : AssetOf[g] \in onDisk}
     /\ convs' = convs \cup {ConvOf[g] : g \in S}

(* What a row names now is not forgotten any more.                         *)
NameMissed == missed' = missed \ Named'

CommitBatch(b) ==
  /\ pcB[b] = "opened" /\ WriteLockFree
  /\ StillRunning(runB[b])
  /\ Promote(runB[b], msgsB[b], modeB[b], files)
  /\ NameMissed
  /\ pcB' = [pcB EXCEPT ![b] = "stored"]
  /\ UNCHANGED <<status, stage, counted, trashed, files, told, runB, msgsB, modeB,
                 removerVars, accountLock, writer, crashes>>

(* The request is answered, and what it held goes with it.                 *)
AnswerBatch(b) ==
  /\ pcB' = [pcB EXCEPT ![b] = "done"]
  /\ runB' = [runB EXCEPT ![b] = NoRun]
  /\ msgsB' = [msgsB EXCEPT ![b] = {}]
  /\ modeB' = [modeB EXCEPT ![b] = "append"]
  /\ accountLock' = IF accountLock = b THEN Nobody ELSE accountLock
  /\ UNCHANGED <<rows, files, told, missed, removerVars, writer, crashes>>

(* The pass that flags duplicates, a transaction of its own, comes before  *)
(* the answer.                                                             *)
FinishBatch(b) == pcB[b] = "stored" /\ WriteLockFree /\ AnswerBatch(b)

(* The run ended meanwhile: nothing is stored.                             *)
RefuseBatch(b) ==
  pcB[b] = "opened" /\ WriteLockFree /\ ~StillRunning(runB[b]) /\ AnswerBatch(b)

(* The body never arrives whole; a wait times out; staging or promoting    *)
(* fails and the transaction rolls back; or the pass for duplicates fails. *)
FailBatch(b) ==
  pcB[b] \in {"admitted", "permitted", "locked", "opened", "stored"} /\ AnswerBatch(b)

(* The import command: one transaction for the whole folder, without the   *)
(* account's lock, and then OwnedSession::finish.  Staging copies the      *)
(* files it finds into the store; when the transaction rolls back they     *)
(* stay there and the rows stay as they were.                              *)
CliImport(r, S) ==
  /\ WriteLockFree
  /\ r \in CliRuns /\ status[r] = "running" /\ pcR[r] = "idle"
  /\ S \subseteq OfSource(RunSource[r])
  /\ files' = files \cup AssetsOf(S)
  /\ \/ Promote(r, S, RunMode[r], files') /\ NameMissed
     \/ UNCHANGED <<stamp, held, convs, missed>>
  /\ pcR' = [pcR EXCEPT ![r] = "finishing"]
  /\ UNCHANGED <<status, stage, counted, trashed, told, batchVars, todo,
                 accountLock, writer, crashes>>

--------------------------------------------------------------------------------
(* Trash and permanent deletion.                                           *)

MoveToTrash(c) ==
  /\ CanTransact /\ c \in convs
  /\ trashed' = trashed \cup {c}
  /\ UNCHANGED <<status, stage, counted, stamp, held, convs, files, told, missed,
                 batchVars, removerVars, accountLock, writer, crashes>>

Restore(c) ==
  /\ CanTransact /\ c \in convs
  /\ trashed' = trashed \ {c}
  /\ UNCHANGED <<status, stage, counted, stamp, held, convs, files, told, missed,
                 batchVars, removerVars, accountLock, writer, crashes>>

(* The files only the messages `gone` name.                                *)
Orphaned(gone) == AssetsOf(held \cap gone) \ AssetsOf(held \ gone)

DeleteRows(C) ==
  LET gone == InConvs(C)
  IN /\ stamp' = [g \in Guids |-> IF g \in gone THEN NoRun ELSE stamp[g]]
     /\ held' = held \ gone
     /\ convs' = convs \ C
     /\ trashed' = trashed \ C

(* Delete one trashed conversation, or everything in the trash.  The rows  *)
(* go in one transaction; the files it reports go later.                   *)
DeleteTrashed(d, C) ==
  /\ pcR[d] = "idle" /\ CanTransact
  /\ C # {} /\ C \subseteq trashed
  /\ DeleteRows(C)
  /\ todo' = [todo EXCEPT ![d] = Orphaned(InConvs(C))]
  /\ pcR' = [pcR EXCEPT ![d] = "pending"]
  /\ UNCHANGED <<status, stage, counted, files, told, missed, batchVars, accountLock,
                 writer, crashes>>

(* Deleting all of an account's messages: the connection it was admitted   *)
(* with is given back before it waits for the account's import lock, which *)
(* it holds from before the rows go until the request's task is done.      *)
AdmitDeleteAll(d) ==
  /\ pcR[d] = "idle" /\ ConnectionFree
  /\ pcR' = [pcR EXCEPT ![d] = "admitted"]
  /\ UNCHANGED <<rows, files, told, missed, batchVars, todo, accountLock, writer, crashes>>

LockForDeleteAll(d) ==
  /\ pcR[d] = "admitted" /\ AccountFree
  /\ pcR' = [pcR EXCEPT ![d] = "locked"]
  /\ accountLock' = d
  /\ UNCHANGED <<rows, files, told, missed, batchVars, todo, writer, crashes>>

OpenDeleteAll(d) ==
  /\ pcR[d] = "locked" /\ ConnectionFree
  /\ pcR' = [pcR EXCEPT ![d] = "opened"]
  /\ UNCHANGED <<rows, files, told, missed, batchVars, todo, accountLock, writer, crashes>>

DeleteAllRows(d) ==
  /\ pcR[d] = "opened" /\ WriteLockFree
  /\ DeleteRows(Convs)
  /\ pcR' = [pcR EXCEPT ![d] = "pending"]
  /\ UNCHANGED <<status, stage, counted, files, told, missed, batchVars, todo,
                 accountLock, writer, crashes>>

--------------------------------------------------------------------------------
(* Removing files.                                                         *)

(* Mutant: files are removed without looking for a running run.            *)
RemoveAnyway == TRUE

(* No file is removed while a run is running: it may have been told of one *)
(* that no row names yet.                                                  *)
MayRemove == ~Running

(* Mutant: the sweep takes every name for unused.                          *)
TakeAll == Assets

(* What a remover goes through once it holds the write lock: the sweep     *)
(* walks the store and spares every name a row holds, deleting all         *)
(* messages removes the folder, and a trash delete keeps to its list.      *)
Unnamed == Assets \ Named

ToRemove(t) ==
  CASE t \in Runs -> Unnamed
    [] t \in AllDeletes -> Assets
    [] t \in ConvDeletes -> todo[t]

ReleaseAccount(t) == accountLock' = IF accountLock = t THEN Nobody ELSE accountLock

(* What remover t still had to remove when it ends before its time.        *)
Unfinished(t) ==
  CASE pcR[t] \in {"pending", "connected"} -> ToRemove(t)
    [] pcR[t] = "removing" -> todo[t]
    [] OTHER -> {}

(* Files that no row names and nobody is going to remove now.              *)
Miss(X) == missed' = missed \cup ((files \cap X) \ Named)

(* unless_import_running and sweep_holding_lock are tasks of their own:    *)
(* they take a connection, then the write lock, then look for a running    *)
(* run.                                                                    *)
Connect(t) ==
  /\ pcR[t] = "pending" /\ ConnectionFree
  /\ pcR' = [pcR EXCEPT ![t] = "connected"]
  /\ UNCHANGED <<rows, files, told, missed, batchVars, todo, accountLock, writer, crashes>>

(* A sweep lists the store anew, so it tries again what others left.       *)
BeginRemoval(t) ==
  /\ pcR[t] = "connected" /\ WriteLockFree
  /\ MayRemove
  /\ pcR' = [pcR EXCEPT ![t] = "removing"]
  /\ todo' = [todo EXCEPT ![t] = ToRemove(t)]
  /\ writer' = t
  /\ missed' = IF t \in Runs THEN {} ELSE missed
  /\ UNCHANGED <<rows, files, told, batchVars, accountLock, crashes>>

SkipRemoval(t) ==
  /\ pcR[t] = "connected" /\ WriteLockFree
  /\ ~MayRemove
  /\ pcR' = [pcR EXCEPT ![t] = "done"]
  /\ todo' = [todo EXCEPT ![t] = {}]
  /\ ReleaseAccount(t)
  /\ UNCHANGED <<rows, files, told, missed, batchVars, writer, crashes>>

RemoveFile(t, x) ==
  /\ pcR[t] = "removing" /\ x \in todo[t]
  /\ todo' = [todo EXCEPT ![t] = @ \ {x}]
  /\ files' = files \ {x}
  /\ missed' = missed \ {x}
  /\ UNCHANGED <<rows, told, batchVars, pcR, accountLock, writer, crashes>>

(* A file that cannot be removed is logged and stays.  The rest go on,     *)
(* except that remove_dir_all stops at its first error.                    *)
KeepFile(t, x) ==
  /\ pcR[t] = "removing" /\ x \in todo[t] \cap files
  /\ LET kept == IF t \in AllDeletes THEN todo[t] ELSE {x}
     IN todo' = [todo EXCEPT ![t] = @ \ kept] /\ Miss(kept)
  /\ UNCHANGED <<rows, files, told, batchVars, pcR, accountLock, writer, crashes>>

FinishRemoval(t) ==
  /\ pcR[t] = "removing" /\ todo[t] = {}
  /\ pcR' = [pcR EXCEPT ![t] = "done"]
  /\ writer' = Nobody
  /\ ReleaseAccount(t)
  /\ UNCHANGED <<rows, files, told, missed, batchVars, todo, crashes>>

(* A delete or a removal that ends early: no connection or no write lock   *)
(* in time, a query or the walk fails, the task stops, or the client goes  *)
(* away before the removal has its own task.  It is logged at most.        *)
GiveUp(t) ==
  /\ pcR[t] \in {"admitted", "locked", "opened", "pending", "connected", "removing"}
  /\ pcR' = [pcR EXCEPT ![t] = "done"]
  /\ todo' = [todo EXCEPT ![t] = {}]
  /\ Miss(Unfinished(t))
  /\ writer' = IF writer = t THEN Nobody ELSE writer
  /\ ReleaseAccount(t)
  /\ UNCHANGED <<rows, files, told, batchVars, crashes>>

(* The client goes away once the removal is a task of its own: the task    *)
(* goes on, and only the account's lock, which the handler held, is let go.*)
DropHandler(t) ==
  /\ t \in Droppable /\ pcR[t] \in {"pending", "connected", "removing"}
  /\ accountLock = t
  /\ accountLock' = Nobody
  /\ UNCHANGED <<rows, files, told, missed, batchVars, removerVars, writer, crashes>>

(* The server process dies: every request and task with it, and the locks. *)
(* Rows, files and the import command's own process stay.                  *)
Crash ==
  /\ crashes < MaxCrashes
  /\ crashes' = crashes + 1
  /\ pcB' = [b \in Batches |-> IF pcB[b] = "idle" THEN "idle" ELSE "done"]
  /\ runB' = [b \in Batches |-> NoRun]
  /\ msgsB' = [b \in Batches |-> {}]
  /\ modeB' = [b \in Batches |-> "append"]
  /\ pcR' = [t \in Removers |-> IF pcR[t] \in {"idle", "finishing"} THEN pcR[t] ELSE "done"]
  /\ todo' = [t \in Removers |-> {}]
  /\ Miss(UNION {Unfinished(t) : t \in Removers})
  /\ accountLock' = Nobody /\ writer' = Nobody
  /\ UNCHANGED <<rows, files, told>>

--------------------------------------------------------------------------------
RunStep ==
  \E r \in Runs :
    \/ CreateRun(r)
    \/ \E s \in Stages : SetStage(r, s)
    \/ \E s \in Outcomes : CompleteRun(r, s)
    \/ DiscardRun(r)
    \/ \E S \in SUBSET Guids : CliImport(r, S)

UploadStep == \E x \in Assets : HeadAsset(x) \/ StoreAsset(x)

BatchStep(b) ==
  \/ TakePermit(b) \/ LockAccount(b) \/ OpenBatch(b)
  \/ CommitBatch(b) \/ RefuseBatch(b) \/ FinishBatch(b)

(* What comes from outside: the request, and whatever makes it fail.       *)
BatchOutside(b) ==
  \/ \E r \in Runs, S \in SUBSET Guids : AdmitBatch(b, r, S)
  \/ FailBatch(b)

TrashStep ==
  \/ \E c \in Convs : MoveToTrash(c) \/ Restore(c)
  \/ \E d \in ConvDeletes : \E C \in {{c} : c \in Convs} \cup {trashed} : DeleteTrashed(d, C)
  \/ \E d \in AllDeletes : AdmitDeleteAll(d)

RemoverStep(t) ==
  \/ t \in AllDeletes /\ (LockForDeleteAll(t) \/ OpenDeleteAll(t) \/ DeleteAllRows(t))
  \/ Connect(t) \/ BeginRemoval(t) \/ SkipRemoval(t) \/ FinishRemoval(t)
  \/ \E x \in Assets : RemoveFile(t, x)

(* What may go wrong with it, or who goes away.                            *)
RemoverOutside(t) == GiveUp(t) \/ DropHandler(t) \/ \E x \in Assets : KeepFile(t, x)

Next ==
  \/ RunStep \/ UploadStep \/ TrashStep
  \/ \E b \in Batches : BatchOutside(b) \/ BatchStep(b)
  \/ \E t \in Removers : RemoverStep(t) \/ RemoverOutside(t)
  \/ Crash

Spec == Init /\ [][Next]_vars

(* A request or task that has begun goes on when what it waits for comes   *)
(* free: the runtime schedules it.  Nothing is assumed of clients (no run  *)
(* need end, nobody need upload, send or delete anything) and nothing need *)
(* fail, so the timeouts of the pool and of the write lock are not relied  *)
(* upon.                                                                   *)
Fairness ==
  /\ \A b \in Batches : WF_vars(BatchStep(b))
  /\ \A t \in Removers : WF_vars(RemoverStep(t))

FairSpec == Spec /\ Fairness

--------------------------------------------------------------------------------
(* Correctness.                                                            *)

TypeOK ==
  /\ status \in [Runs -> ImportStatuses]
  /\ stage \in [Runs -> Stages \cup {NoStage}]
  /\ counted \in [Runs -> Nat]
  /\ stamp \in [Guids -> Runs \cup {NoRun}]
  /\ held \subseteq Stored /\ convs \subseteq Convs /\ trashed \subseteq convs
  /\ files \subseteq Assets
  /\ told \in [Runs -> SUBSET Assets]
  /\ missed \subseteq Assets
  /\ pcB \in [Batches -> {"idle", "admitted", "permitted", "locked", "opened", "stored",
                         "done"}]
  /\ runB \in [Batches -> Runs \cup {NoRun}]
  /\ \A b \in Batches : pcB[b] \notin {"idle", "done"} => runB[b] \in Runs \ CliRuns
  /\ msgsB \in [Batches -> SUBSET Guids]
  /\ modeB \in [Batches -> {"append", "replace"}]
  /\ pcR \in [Removers -> {"idle", "finishing", "admitted", "locked", "opened", "pending",
                          "connected", "removing", "done"}]
  /\ todo \in [Removers -> SUBSET Assets]
  /\ accountLock \in Batches \cup AllDeletes \cup {Nobody}
  /\ writer \in Removers \cup {Nobody}
  /\ crashes \in 0..MaxCrashes

(* Once a client has been told, during its running Import Run, that the    *)
(* server has a file, the file stays until the run ends, whatever is       *)
(* deleted and however removals, dropped requests and crashes fall         *)
(* (asset_store.rs: an original is removed only under the write lock and   *)
(* while no run is running).                                               *)
ToldKept == \A r \in Runs : told[r] \subseteq files

(* So a message lands only while its run is running, however long ago its  *)
(* batch was admitted, and never without its file if the run's client was  *)
(* told that the file is there.                                            *)
LandsAsPromised ==
  [][\A g \in Guids, r \in Runs : stamp[g] # r /\ stamp'[g] = r =>
       /\ status[r] = "running"
       /\ AssetOf[g] \in told[r] => g \in held']_vars

(* The sweep at a run's end never removes a file a row names, not even one *)
(* while it walks the store.                                               *)
SweepSparesNamed ==
  \A r \in Runs : pcR[r] = "removing" => todo[r] \cap Named = {}

(* A run that has ended is its permanent record: its status and count      *)
(* never change and it gains no message, although a batch checked that it  *)
(* was running long before it committed.                                   *)
EndedRunsFrozen ==
  [][\A r \in Runs : status[r] \in EndStatuses =>
       /\ status'[r] = status[r] /\ counted'[r] = counted[r]
       /\ \A g \in Guids : stamp'[g] = r => stamp[g] = r]_vars

(* A stored message leaves the store, or passes to another run, only when  *)
(* its conversation is deleted or when a running replace run of its source *)
(* wipes what earlier runs stored, so no batch of a replace run destroys   *)
(* what an earlier batch of that run stored.                               *)
OnlyReplaceRewrites ==
  [][\A g \in Stored : stamp'[g] # stamp[g] =>
       \/ ConvOf[g] \notin convs'
       \/ \E r \in Runs :
            /\ status[r] = "running" /\ stamp[g] # r
            /\ RunMode[r] = "replace" /\ RunSource[r] = SourceOf[g]]_vars

(* A trash delete removes by a list that may be stale by then, and a delete *)
(* of all whose client went away has let go of the account's lock.  Every  *)
(* other remover acts on what the rows say at the moment a file goes.      *)
OutOfDate(t) == t \in ConvDeletes \/ (t \in AllDeletes /\ accountLock # t)

(* No other remover takes a file that a row names.                         *)
UpToDateSpareNamed ==
  [][\A t \in Removers, x \in files \ files' :
       x \in todo[t] \ todo'[t] /\ ~OutOfDate(t) => x \notin Named]_vars

(* Where nobody is out of date, and no import command goes on beside a     *)
(* delete of all, whose lock it does not take, nothing that a row names is *)
(* removed.                                                                *)
NoStaleRemoval ==
  /\ ConvDeletes = {}
  /\ AllDeletes \cap Droppable = {}
  /\ AllDeletes = {} \/ CliRuns = {}

(* Every file a row names is on disk (where NoStaleRemoval holds), however *)
(* batches, uploads, sweeps and deletes of all messages interleave.        *)
NamedOnDisk == Named \subseteq files

(* A removal takes only files no row names at the moment it goes: "any     *)
(* attachment file no other message still uses".                           *)
RemovesOnlyUnused == [][(files \ files') \cap Named = {}]_vars

(* When the server is at rest - no run running and nothing being removed   *)
(* or imported - an unnamed file is on disk only if, since the last sweep  *)
(* listed the store, a removal failed on it, ended early or died with the  *)
(* server, the import command ended without a sweep, or it was uploaded    *)
(* with no run to sweep it.                                                *)
AtRest ==
  /\ ~Running
  /\ \A t \in Removers : pcR[t] \in {"idle", "done"}
  /\ \A b \in Batches : pcB[b] \in {"idle", "done"}

NothingLeftBehind == AtRest => files \ Named \subseteq missed

(* A batch that was admitted is answered and an admitted delete finishes:  *)
(* nobody waits for ever for a permit, the account's lock, a connection or *)
(* the write lock, also beside tasks whose handler went away.              *)
EveryRequestAnswered ==
  /\ \A b \in Batches : (pcB[b] = "admitted") ~> (pcB[b] = "done")
  /\ \A t \in Removers : (pcR[t] \in {"admitted", "pending"}) ~> (pcR[t] = "done")

=============================================================================
