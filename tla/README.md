# Message Crate: a verification development

Message Crate keeps people's phone messages on a server of their own. A desktop
application or a command line program reads a phone backup, turns it into
conversation files, and pushes them to the server: attachments first, by
SHA-256 fingerprint, then messages in batches of an *Import Run*. The server
stores rows in SQLite and attachment files (*Assets*) in a folder beside it.

This directory holds TLA+ models of the parts of that system where the order of
steps decides whether something is lost, TLC runs that check them on small
instances, and TLAPS proofs of the results that matter most.

    tlasany ImportStore.tla                                # parse a module
    tlc -workers 2 -config ImportStore_races.cfg MCImportStore   # check a run
    tlapm ImportStore_proofs.tla                           # check proofs

`PROJECT.json` lists the runs, the lines each definition was translated from,
the hazards of the code with the properties that cover them, a mutant for every
checked property, and the theorems. Where code and documentation disagree is in
section 3.

| Module | About | Checked by | Proved in |
| --- | --- | --- | --- |
| `ImportStore` | runs, batches, deletes, removal of files | `MCImportStore`, 2 configurations | `ImportStore_proofs` |
| `Push` | the client that sends a folder | `MCPush`, 2 configurations | `Push_proofs` |
| `AssetUploads` | how one file's bytes reach the store | `MCAssetUploads`, 2 configurations | `AssetUploads_proofs` |
| `Staging` | a folder of conversation files: writers, media pass, resume | `MCStaging`, 1 configuration | `Staging_proofs` |
| `Previews` | conversion of attachments beside deletes and sweeps | `MCPreviews`, 1 configuration | `Previews_proofs` |
| `DemoAccount` | builds of the Demo Account, serve, reset-demo | `MCDemoAccount`, 1 configuration | `DemoAccount_proofs` |
| `LocalServer` | the server that the desktop app runs for itself, and its jobs | `LocalServer.cfg` | `LocalServer_proofs` |
| `Pull` | an export to a folder: Export Runs and the client that reads one | `MCPull`, 1 configuration | `Pull_proofs` |
| `KeyedLocks` | one async mutex per key | `KeyedLocks.cfg` | `ImportStore_proofs` |
| `KeyedMutex` | what `KeyedLocks` promises | as a property of `KeyedLocks` | with `KeyedLocks` |


## 1. Inventory of the system

Paths are under `src/`. "Server" is `crates/server/server/src`.

### Server: storing and removing

**Import Runs and batches** (`imports_api/`, `db/imports.rs`, `import_cli.rs`).
*State:* a row per run (status, stage, counts, mode, source), messages stamped
with the run that stored them. *Operations:* create, set stage, complete,
discard, send a batch; the server's own `import` command does all of it at
once. *Meets:* the account's import lock (with the delete of all messages), the
write lock, the asset store. *Hard:* a batch is admitted long before it commits;
a replace run wipes its source once, decided from rows; a client that goes away
mid-batch; a crash between a run's end and its sweep. *Correct when:* an ended
run is a permanent record, the wipe happens once and before anything the run
stored, every admitted request is answered.

**Asset store and its removers** (`asset_store.rs`). *State:* files under a
fingerprint, abandoned uploads. *Operations:* removal of the files of a delete,
of an account, of what an ended run left, of uploads nobody goes on with.
*Meets:* every writer of rows, through the write lock; uploads, which do not
take it. *Hard:* deciding which files are unused and removing them are apart;
clients skip uploading what they were told is there. *Correct when:* no row
names a file that was removed, what a running run was told stays, and nothing
unnamed stays for ever.

**Trash and permanent deletion** (`db/trash.rs`, `trash_api.rs`,
`conversations_api.rs`). *State:* trash markers on conversations and contacts.
*Operations:* move to trash, restore, delete. *Hard:* the list of files to remove is
made in the transaction and used after it.

**Delete of all messages** (`accounts_api.rs`). Account lock, one transaction,
then the removal of the folder in a task of its own. *Hard:* the task outlives
the handler that holds the lock.

**Asset uploads** (`asset_uploads.rs`, `assets_api.rs`). *State:* a session
folder per upload (manifest, temporary manifest, parts, lock file, assembled
file), the completion lock. *Operations:* PUT a whole file; start, send a part,
complete, abort; sweep abandoned uploads at every start. *Hard:* handlers are
dropped while their blocking threads go on; removals of a folder go file by file
through requests at work in it. *Correct when:* wrong bytes never get a
fingerprint, acknowledged parts stay, an answer of stored, gone or aborted is
true.

**Keyed locks** (`keyed_locks.rs`). *State:* a map from keys to counted
mutexes. *Users:* batches and the delete of all messages (key: account),
completions (key: account and fingerprint). *Hard:* an entry leaves the map
while its mutex is still locked, and may be made anew beside it. *Correct when:*
it behaves as one mutex per key, no waiter is stranded, and the map does not
grow.

**Promotion, dedupe and message identity** (`imports_api/promote.rs`,
`dedupe.rs`). SQL from staged rows to messages; which message is which. *Correct
when:* sending a backup again stores nothing twice.

**Previews** (`process_assets.rs`). *State:* what each attachment row names, a
file per Preview. *Operations:* a pass lists the blobs, converts those without a
Preview and names it in every row; deletes and sweeps remove what no row names.
*Meets:* the write lock, for its one `UPDATE` only. *Hard:* listed state is used
after deletes; a Preview is on disk before any row names it, and only its age
keeps the sweep away. *Correct when:* what a pass stored is there when it names
it, and a pass repairs what an earlier one or a delete left.

**Demo Account, serve, reset-demo, operation lock** (`operation_lock.rs`,
`server.rs`, `server_api.rs`, `reset_demo.rs`, `db/demo_account_build.rs`,
`open_db.rs`). *State:* a lock file, the ready marker, the database and its
copies in work folders, the record of an unfinished build, the state of the
build in memory. *Operations:* serve (seeding a database that does not exist),
the owner's builds, recovery at a start, `reset-demo` with its snapshot, swap and
rollback. *Hard:* a process killed at any step, renames that fail while others
are undone, a shutdown in the middle of a build. *Correct when:* other accounts
lose nothing, the marker is true, and nobody enters a part-built account.

**Contacts and their Trash** (`contacts_api.rs`, `db/contacts.rs`,
`db/import_contacts.rs`, `db/handles.rs`). Imports discard a contact's trash
marker (ADR 0013) while a person restores or purges it.

**Sessions, tokens, roles** (`session_api.rs`, `credentials.rs`,
`db/session_tokens.rs`, `db/permissions.rs`, `db/ownership.rs`). Expiry, and the
rule that a server keeps an owner.

**Exports and paging** (`exports_api.rs`, `paging.rs`, `db/exports.rs`). *State:* a
row per Export Run (status, counts, how many messages were delivered) and the list
of messages it matched when it was made. *Operations:* create, read a page, complete,
cancel. *Hard:* a run is read one request at a time while messages are imported,
trashed and deleted, and may be closed while a page is read. *Correct when:* a run
hands over what it listed, and nothing is handed over that its record does not tell.

**Search, named sets, audit trail, settings, schema.** Single transactions or
query compilation. No interleaving of their own.

### Client

**Push** (`crates/libs/push`). *State:* the journal of what was sent, in memory
and on disk; per file, a worker that prepares it; one request in flight.
*Operations:* claim and upload attachments, cut messages into chunks, send,
settle, cancel, report, resume. *Meets:* the server through ImportStore's and
AssetUploads' promises; other pushes through the journal. *Hard:* workers
share attachments; results come out of order and are consumed in order; one file
spans several requests; failures, cancels and crashes leave a journal a later
push trusts. *Correct when:* what is reported and journalled as sent is on the
server, with its files, and every push ends.

**HTTP retries** (`crates/libs/http`). A request is tried again after a timeout;
an answer may be lost after the server committed.

**Staging** (`crates/libs/staging`, `ir/src/durable.rs`, and the attachment jobs
of `crates/core/message-crate-core`). *State:* a folder of conversation files,
attachments, derivatives and notes; a queue of conversations shared by writer
threads. *Operations:* the writers stage a conversation's attachments and then
write its file; the media pass converts the originals one by one, patching the
files that name them. *Hard:* documents share attachments; a run is cancelled,
fails or is killed at any step, and the next resumes from nothing but the folder.
*Correct when:* what a conversation file names can always be found, and a resumed
folder is what one undisturbed run would have made.

**Pull** (`crates/libs/pull`). *State:* the messages fetched so far, attachments and
conversation files in a folder, a journal. *Operations:* create a run, page through it,
download attachments in parallel, link one to its other paths, write the
conversations, close the run. *Meets:* the server through Export Runs; earlier pulls
through the folder. *Hard:* requests are tried again after their work was done; the
folder holds what a pull that was killed or cancelled left, and what is there is
skipped by its name. *Correct when:* a pull that reports success has written all that
its run listed, and every pull ends.

**Exporters, formats, small libraries, iMessage reader.** Sequential parsers and
conversions of data. No shared state.

**Desktop application: local server** (`src-tauri/src/local_server.rs`,
`commands/jobs.rs`). *State:* per window, what is known of the address, the server
process with its generation, the setting it was started with and the one that is
wanted, the number of jobs. *Operations:* the screens ask for a server, the person
opens it to the network or closes the app; probes of the address, the thread that
watches a server, and the ends of jobs report back. *Meets:* other windows and
servers through the port and the lock of the data folder. *Hard:* answers, exits and
the end of a job arrive in any order, for a state that has moved on; a server may
hang, crash or be locked out; a restart must not hit a job. *Correct when:* the
screens never wait for nothing, the server that runs is the one the window speaks
of, and the setting is applied without cutting off an import.

**Desktop application: the rest** (`src-tauri/src`). One slot for a job with a
cancel flag; staging folders; commands that call the libraries.

**Web applications, demo seed, packaging, vendored `sqlx-sqlite`.** User
interface, test data and third-party code.

### How the parts interact

    LocalServer <- count of jobs - desktop job
    desktop job -> extract -> Staging (a folder of conversation files) -> Push
    Push     -- PUT / parts ------->  AssetUploads --+
    Push     -- batches, end ------>  ImportStore  --+--> rows and files
    person   -- trash, delete ----->  ImportStore  --+
    Push     <- journal (disk) -> the next Push
    Pull     -- pages, files <-----  Export Runs, the store -> a folder
    Previews -- names in rows ---->  the account's database and files <-- DemoAccount
    ImportStore, AssetUploads -- account key, fingerprint key --> KeyedLocks


## 2. What is modelled, and how it corresponds to the code

### ImportStore

One account. Rows are `stamp` (the run that stored each message), `held` (the
messages whose attachment row names its file), `convs` and `trashed`; the store
is `files`; `told[r]` is what clients were told, during run `r`, is stored
(history, read by properties only), and `missed` the unnamed files that nobody is
going to remove any more (history too).

- **Four waits, in one order.** A batch waits for a permit to import (the semaphore,
  `TakePermit`), for the account's import lock (`LockAccount`), for a connection of
  the pool (`OpenBatch`) and for SQLite's write lock. A delete of all waits for the
  last three, and the task that removes files for the last two (`Connect`). `Connected`
  says who keeps a connection across steps: not the handler that waits for that task,
  which is the order the comment at `asset_store.rs:241-245` asks for. A request of one
  transaction has its connection within its step. What other accounts take of the pool
  is a smaller `PoolSize`.
- **What one step is.** SQLite has one write lock. A transaction that only
  touches rows is one step that finds it free (`WriteLockFree`). A removal of
  files holds it while it deletes one file after another: `BeginRemoval`,
  a `RemoveFile` per file, `FinishRemoval`. The account lock is
  `accountLock`; a batch is admitted (`AdmitBatch`: the checks before it waits),
  gets what it waits for, commits, and is answered after the pass that flags
  duplicates (`CommitBatch`, `FinishBatch`), or is refused or fails
  (`RefuseBatch`, `FailBatch`).
- **Runs.** `CreateRun` needs `SlotFree` (the partial unique index: one running
  run an account). `CompleteRun` and `DiscardRun` end it and spawn its sweep.
- **Promotion.** `Promote` stores a batch: messages not stored yet are stamped;
  in replace mode the batch that finds nothing stamped by its run
  (`FirstBatch`, decided under the account lock) wipes what other runs stored of
  the source. A message whose file is not on disk is stored with no file named.
- **Deletes.** `DeleteTrashed` makes the list of files no row names any more;
  its removal follows. `DeleteAllRows` needs the account lock.
- **Removals that fail.** `KeepFile` is a file that cannot be removed: it is logged and
  the rest go on, except that `remove_dir_all` stops at its first error. `GiveUp` is a
  removal that ends early, at whatever point: no connection or no write lock in time, a
  query or the walk that fails, a task that stops. Both put what stays into `missed`;
  a sweep lists the store anew and so takes that up again (`BeginRemoval`).
- **Clients that go away.** A batch or a delete that is dropped is `FailBatch` or
  `GiveUp`; `DropHandler` drops the handler of a delete whose removal goes on
  in a task of its own, and with the handler the account lock.
- **Crash** ends every request and task, keeps rows and files, and releases both
  locks. The run stays `running`, as in the code.
- **CliImport** is the `import` command, another process: no account lock, no
  sweep.

Message contents, issues, contact groups and dedupe are left out: no property
tells them apart. A wait ends in an error after the pool's and SQLite's timeouts:
that is among the reasons of `FailBatch` and `GiveUp`, and no liveness rests on it.
Previews have a module of their own. Staging is part of the
batch's step: staged rows are private to the batch, and the lists of named files
include them in the same transaction.

### Push

One person's folder, pushed up to `MaxPushes` times. Workers are per file
(`work[f]`): `StartPrepare`, `Claim`/`ClaimNext`/`ClaimsDone` (the mutex of
`RunJournal` is one step), `UploadOk`/`UploadFails`, `RecordUpload`,
`AwaitOthers`/`WaitOver`, `BuildChunks`. The main thread's program counter
follows `run.rs`: `LoopTop`, `Submit`, `WaitOne`, `Consume`, `QueueChunk`,
`FlushFull`, `FinishQueueing`, `Shutdown`, `SettlePush`, `JoinLast`, `Report`.
One request is in flight on a thread of its own (`post`): `PostStored` is the
server's commit, `PostAnswered` the answer, and a failure may come after
either. `Settle` is the settling of a request's files, with the journal
write.

The server is what ImportStore proves or checks of itself for a client: an
Import Run that is running or ended, the messages and files it stores, the wipe
of a replace run's first batch, and the removal of unnamed files when the run
ends (`EndRun`). `RunEnds` is anybody else ending the run. The promises used
are `LandsAsPromised` (a file uploaded during the run is there when its message
lands) and `OnlyReplaceRewrites` (the wipe happens once a run).

`Abort`, `Cancel` and `Crash` stop a push at any step. A crash loses memory and
keeps the journal on disk.

Left out: body-size limits, the hash cache, `skip_attachments`, missing or
oversized attachments, failures of journal writes, profiles and totals, journal
entries of other servers. Two steps are coarser than the code: `SettlePush` looks at
the cancel flag after the request has ended, where the code looks before it joins
(`run.rs:541-544`), and `Settle` makes one step of the two appends to the journal that
follow one request (`pipeline.rs:558`, `:676`).

### AssetUploads

All requests for one account and one fingerprint. A request occupies a slot;
`pc` is where its blocking work is, and every file operation that another
request can meet is a step: the lock file is taken (`LockSession`: never waited
for), the manifest read, the part written, the manifest written beside and
renamed over. `store_verified` and `install_blob` are `Look` (hash what is
there, or copy and hash) and `Install` (rename, or find that another request's
file came first). A removal lists the folder and deletes file by file
(`BeginRemoval`, `RemoveOne`), then the folder (`RemoveDir`), which fails when a
file came in meanwhile; `NotEmptied` is what an abort answers then.

`DropWaiting` and `DropHandler` are a client that goes away: a handler that
waits ends, a handler whose blocking work has begun loses what it holds (the
completion lock) while the work goes on. An instance may begin with uploads of an
earlier server whose parts have all come (`Sent`). `Age` makes an untouched upload a day
old; `Harm` removes or spoils the stored file, which is what the other parts
of the system (a delete, a disk) may do to it.

Left out: size limits and parts of wrong length, MIME metadata, reading back
(GET), torn writes of a part within one step, the `.part` files of interrupted
PUTs, and the parent folders of a session. Making the session folder with its
manifest is one step.

### Staging

Documents and originals; a document is `NoFile` or a record for each original it
names (`AttsOf`). Two documents may name one original, as files with the same
bytes get the same name.

- **The write queue.** A writer thread is a record in `work`: `CheckAbort`,
  `Pop`, `StartUnit` (`write_one_unit`, which skips a file that is complete),
  `Stage`/`Copy`/`Rename` for each attachment (the copy is written under a name of
  its own, synced, and renamed), then `WriteConversation`. An error sets `abort`
  and ends the thread; `Join` waits for all of them.
- **The media pass.** `Transcodes`, `Heals`, `Repoints`, `DroppedTooLarge` and
  `Unrecoverable` are the cases of `pending_in`; `Settle`, `EncodeFails`,
  `EncodeDeclined` and the two sequences `WriteNote`, `PatchTooLarge`,
  `DropTooLarge` and `PatchConverted`, `Commit`, `DropConverted`, `DropNote` are
  what is done about them, one file operation a step. `verdict` is what the media
  step can make of each original, chosen once and never read by anything that
  the code could not know.
- **Stops.** `Cancel` sets the flag the threads look at; `Kill` ends the process;
  `PowerCut` also loses a note, the one file that is written without a sync.

Left out: progress, room on disk, summaries, the bytes ffmpeg makes.

### Previews

Rows name a Preview, nothing, or are absent; `files` are Previews on disk, young
or older than the grace period. A pass is `StartPass` (the list), then for each
item `PlanItem` (the list against the disk), `Compare`, `Write` or `Touch`
(`store_derived_bytes`) and `Name`, or `Share`. Only `Name` and `Share` wait for
the write lock, which a sweep holds while it walks. `DeleteRow` and `DeleteAll`
make a list whose files are removed later, one at a time, without the lock
(`RemoveListed`). `PassesSlow` and `SweepsSlow` say whether the two assumptions
the code makes about time may fail. `owes` and `struck` are history.

Left out: kinds of media, dry runs, temporary files. A conversion is a function of the
blob (`MakesOf`): that a forced pass with another ffmpeg, or with the name hint of
another row of the blob, makes another Preview is left out, and with it the case that
rows of one blob name different Previews and the three `MAX(derived_*)` columns of the
list (`process_assets.rs:396-398`) come from different rows.

### DemoAccount

A database is the other accounts' rows, how much of the Demo Account it holds,
the record of an unfinished build, and whether a Session of it is open.

- **The build** (`BuildWorks`, `BuildFails`) is the same code for three callers,
  and one set of actions here: `builder` says whose it is, and so which database
  and folder it writes (`Write`, `Files`).
- **serve**: `StartServe`, `CheckNew` (a database that is not there is seeded
  beside its path and placed), `OpenDatabase` with the marker, `Recover`.
- **The owner's build** of a running server: `MarkBuild`, `StartTask`,
  `TaskEnds`, `TaskPanics`; `Shutdown`, `AbortTask`, `Stopped`. A login and a
  delete check the build and act later, as in the code.
- **reset-demo**: marker, snapshot, build, verification, four renames, and the
  rollback of any prefix of them, each of whose renames may fail too.
- **Kills** (`KillServe`, `KillReset`) at any step; locks and memory go, work
  folders stay.

Left out: the rows of the Demo Account itself, write-ahead logs, Server Settings
and the server's other routes. A build ends the Sessions of the account
(`server_api.rs:725-738`); its API Tokens, which can be used until the wipe, are left
out. So is a checkpoint or a rename that fails after a seed that succeeded
(`reset_demo.rs:355-366`), which leaves the seed in its work folder as a seed that
fails does.

### LocalServer

The code decides with one pure function, `step`, from a window's state and an
event, and does what `step` asks for before it lets go of the lock. The module does
the same: `Requested`, `Configured`, `Checked`, `Probed`, `ChildExited`, `CountedOut`
and `Stopped` map one window's record to the next, and one action per event applies
them. `Spawn` may fail (the program cannot be started).

- **Probes** are threads: `Connect` finds the port taken or free, `Hear` what
  answers, `Report` brings the answer to a window that may have moved on.
- **Watchers** belong to a generation. `SeeExit` reaps the server and lets go of the
  lock to read its output to the end; `ReportExit` looks at the generation again.
  `SeeDeadline` is `START_TIMEOUT`, `SeeListening` the listening line.
- **Servers** boot in the order of the code: the lock of the data folder
  (`TakeFolder`), the port (`Bind`), the line that says so (`Say`). Each step may
  never come. `Crash` ends one at any time.
- **The outside** (`foreign`) is a program at the port, a Message Crate in Docker, or
  a server left by an app that crashed, which also holds the folder.
- **Jobs**: a slot per window; the slot is free (`EndJob`) before the job is counted
  out (`JobEnded`), so jobs overlap in the count.

Left out: the wording of the status and whether this is the first start, the
address's host part (a server open to the network takes the same port), and that a
busy server may fail to answer a probe within its 15 seconds. A command that fails
between taking the slot and starting the job's thread (`commands/jobs.rs:47-59`) is
never counted, and is left out.

### Pull

Client and server in one module, as neither is of interest without the other. The
main thread's program counter is `pc`, in the order of `run.rs`; `job[s]` is the
download of one attachment, on a worker thread.

- **The run.** `CreateRun` lists what is not in the Trash, in one transaction
  (`listed`). A page is three steps, as in `list_export_messages`: `CheckRunning`,
  `ReadPage`, and `HandOver`, whose record is one statement that fails if the run is
  not running any more (`ClosedMeanwhile`). `Place` is the fixed place of a message
  in the list; `MorePages` is `next_offset`. `handed` is history.
- **Requests** may fail before the server did anything (`RequestFails`), be refused
  (`RequestRefused`), or do their work and lose the answer, which is the second
  alternative of `CreateRun`, `HandOver` and `CloseRun`. `Retry` counts the tries.
- **Attachments.** `PlanJobs` takes those whose first path (`First`) holds no file;
  `TakeJob`, `Get`, `GetBreaks`, `GetRefused` and `Rename` are a download, `part` the
  temporary files; `PlaceOther` puts a file at its other paths.
- **Ends.** A failure, and a cancel, go to `close` with the outcome "failed"; a close
  that fails changes nothing about the outcome. `Crash` keeps the folder and leaves
  the run running, for good.
- **The account** goes on: `Import`, `Trash`, `Restore`, `Delete`, and `RemoveBlob`
  once no row names a file. `CloseElsewhere` is another client.

Left out: the journal, which names what was downloaded and changes only the counts (a
file that is there is never fetched again, one that is not always is);
`skip_attachments`, which leaves the downloads out; the names of conversation files; sorted pages; scopes other than everything; a rename that fails
although its file is there.

### KeyedLocks and KeyedMutex

`Lookup` finds or makes an entry under the map's mutex; `Acquire` and `Queue`
are the tokio mutex; `Cancel` a task dropped while it waits. The guard's drop is
three steps as in the code: `DropGuard` (under the map's mutex the key goes if
the strong count is two), `Unlock`, `DropArc`. Allocations are reused once
nothing refers to them. `KeyedMutex` knows only who wants and who has each key.
The refinement mapping: a task `has` its key from `Acquire` to `DropGuard`, not
to `Unlock`. Between the two the task no longer uses what the lock protects, and
a new entry for the key may already be locked by another task, so the later
moment would not be a mutex.


## 3. The runs

Properties in *italics* are temporal or action properties, the rest invariants.
Every property a passing run checks has a mutant in `PROJECT.json`: a plausible
bug, written as an operator beside the one it would replace (`NoSweep` beside
`AfterRun`), that breaks the property in that run's instance.

### Runs that pass

| Run | Instance | Shows |
| --- | --- | --- |
| `races` | a run of the `import` command, a client's replace run, 2 batches, 2 messages sharing 1 file, a trash delete, removals that fail or stop anywhere, stray uploads, 1 crash | `SweepSparesNamed`, `NothingLeftBehind`; *`LandsAsPromised`*, *`OnlyReplaceRewrites`* |
| `store_live` | two clients' runs, 1 message, 2 batches, 1 permit, 2 connections, a delete of all whose handler may go away, removals that fail; no crash or stray upload; `FairSpec` | *`UpToDateSpareNamed`*, *`EveryRequestAnswered`* |
| `resume` | 3 files, 5 messages, 2 attachments shared across files, 2 workers, 2 pushes into one run, a fault in each, 1 crash, forced or not | `ClaimsExact`, `StoredWithFile`, `JournalTrue`, `UndisturbedPushSucceeds`, *`SendsOnlyUnlisted`* |
| `push_live` | 2 files sharing 2 attachments crosswise, 4 messages, 2 replace pushes with a run each, a fault in each, cancelled anywhere, `FairSpec` | `DoneMeansAll`, `OkMeansStored` across wipes; *`CancelledIsJournalled`*, *`PushEnds`* |
| `uploads_folder` | 3 slots, 1 upload, 2 parts, 5 requests, an upload that ages, 1 crash | `AckedPartsKept`, `AbortedIsGone` |
| `uploads_store` | 2 slots, 2 uploads of 1 part that an earlier server took, another that may start, PUTs of right and wrong bytes, 1 harm, 3 requests, `FairSpec` | `AnsweredMeansStored`, `CreatedOnce`, *`OnlyRightBytes`*, *`EveryRequestEnds`* |
| `pulls` | 5 messages, one of them imported later and one in the Trash at first, in 2 conversations, 2 attachments, one with two paths; pages of 2, 2 downloads at a time, 1 extra try of a request; 2 pulls and 2 runs; 1 change to a message; 1 kill, cancel, lost file or close by another client; `FairSpec` | `OkMeansWhole`, `NothingUnrecorded`; *`PullEnds`* |
| `locks` | 3 tasks, 2 keys, 5 allocations, `LocksFairSpec` | *`ImplementsMutex`*, *`WaiterServed`* |
| `staging` | 2 documents sharing one of 2 originals, 2 writers, 3 runs, 1 kill or power cut, disk and ffmpeg that fail at any step, `FairSpec` | `NothingLost`, `ResumedLikeFresh`, *`RunEnds`* |
| `previews` | 3 rows of 2 blobs that convert to one Preview, 2 passes, a delete, imports, wipes and sweeps without number | `StoredKept`, `PassHeals` |
| `local_server` | 1 window, 2 job threads, 3 jobs, 3 inputs, a server that hangs, 1 crash, 1 move of another program, which may hold the folder, `FairSpec` | `WaitsAttended`, `ServerAccounted`; *`RestartSparesJobs`*, *`StartSettles`*, *`SettingApplied`* |
| `demo` | 5 starts of serve, of a reset or of a build, 1 failing step, 2 failing renames, 2 kills, 2 rows of other accounts | `OthersKept`, `ReadyTrue`, `DemoWhole`, *`BuildEnds`* |

### Where the code and its documentation disagree

Each can be seen by a change to an instance above, with the statement as its only
property. First those where an invariant or action property of the module fails:

| Statement | Change | What TLC shows |
| --- | --- | --- |
| `StoredWithFile` | `Push_resume.cfg`: `OwnRun = TRUE`, `NFiles = 2`, `Guids = {1, 2, 3, 4}`, `BatchSize = 2` | A push that makes its own run and fails leaves a file journalled as uploaded that the run's end removes. The next push sends a message whose file is gone, although "the journal says the server already has the file" (`prepare.rs:92-93`). |
| `RemovesOnlyUnused` | `ImportStore_live.cfg`: `SPECIFICATION Spec`, `ConvDeletes = {d1}`, `AllDeletes = {}`, `Droppable = {}`, `Guids = {g1, g2}`, `Convs = {c1, c2}` | A trash delete removes the files on the list it made in its transaction (`remove_unreferenced`, `asset_store.rs:137`), without looking again once it holds the write lock. A run that names one of them and ends in between loses the file, although the delete is to take "any attachment file no other message still uses" (`conversations_api.rs:292-294`). |
| `RemovesOnlyUnused` | `ImportStore_live.cfg`: `SPECIFICATION Spec` (with `Droppable = {}` it holds) | The client of a delete of all goes away; the account lock goes with the handler (`accounts_api.rs:1176-1180`), and a batch names a file that the removal task then takes. |
| `OkMeansStored` | `Push_live.cfg`: `Modes = {"append", "replace"}`, `MaxPushes = 3`, `AssetOf <- NoMedia` | A replace push that does not finish leaves an earlier push's journal on disk. The next append push skips messages that were wiped and reports ok (`journal.rs:234`). The desktop application sends append pushes only. |
| `PreparedBounded` | `Push_live.cfg`: `NFiles = 4`, `FileOf <- OneEach`, `AssetOf <- NoMedia` | Results wait without bound behind a slow first file (`prepare.rs:957-958`: "at most `capacity` jobs are waiting or running"). |
| `ForgottenWhenLeft` | `KeyedLocks.cfg` | A waiter that was counted when the guard was dropped, and then goes away, leaves its key in the map (`keyed_locks.rs:1-2`). |
| `NoFault` | `AssetUploads_folder.cfg` | A part writes the manifest back after a removal took it; a request that missed it in between answers with a fault of the server, not with "gone" (`asset_uploads.rs:263-271`). |
| `OneCompletionStores` | `AssetUploads_store.cfg` | A completion whose client went away goes on storing without the completion lock, beside a second one (`keyed_locks.rs:6-7`). What is stored stays right. |
| `SweepTakesAbandoned` | `AssetUploads_folder.cfg` | An upload resumed after the sweep judged it by age is removed, with the part that was just acknowledged (`asset_store.rs:501-502`). |
| `FailureKeepsOriginal` | `Staging_resume.cfg`: `SPECIFICATION Spec`, `DiskFails = FALSE`, `MaxRuns = 1`, `MaxStops = 0` | ffmpeg failed on a file in one document; its record points at the original, "still on disk, untouched", so that "a resume retries it" (`transcode.rs:63-66`). Another document of the same pass that names the same original then converts it and removes it (`transcode.rs:592`, `:671`). The first document names a file that is gone until a resume repoints it. |
| `KillCutsOwnWorkOnly` | `LocalServer.cfg`: `SPECIFICATION Spec`, `Windows = {w1, w2}`, `Jobs = {j1}`, `LockedOutProbes = 1`, `MaxInputs = 4`, `MaxJobs = 1`, `MaxCrashes = 0`, `MaxForeign = 0` | "The only work a kill can interrupt is an import this app was running anyway" (`local_server.rs:27-29`). A second window (`:76-78`) finds the first one's server and imports into it. The first counts only its own jobs: closing it, or changing its network setting, kills the server under the other's import. |
| `StoredKept` | `Previews_passes.cfg`: `PassesSlow = TRUE`, or `SweepsSlow = TRUE` | A pass that names a Preview later than `PREVIEW_GRACE_SECS` after storing it, or a file reused between the sweep's look and its removal, leaves rows that name a file that is gone. The next pass heals them. |
| `DemoWhole` | `DemoAccount_builds.cfg`: `DeletesRace = TRUE` | A login checked before a build is marked opens its Session inside the part-built account (`session_api.rs:184`). A delete's folder thread takes the files of a build that started meanwhile (`accounts_api.rs:943-950`; "No account can take that id again", `asset_store.rs:294-295`, is not so for the Demo Account's id). |
| `DemoWhole` | `RecordFails = TRUE` | A build whose record could not be written is wiped without one; killed during that wipe, it leaves a part of the Demo Account that nothing removes and that is shown as ready (`server_api.rs:597-600`). |
| `DemoWhole` | `MaxFaults = 2` | A build fails, and so does its removal: the state becomes `failed`, and the part-built account can be entered until the next start (`server_api.rs:629-640`). |
| `ReadyTrue` | `FreshResets = TRUE` | A reset that fails where there was no database writes the marker on its way out (`operation_lock.rs:144`). |
| `OkMeansWhole` | `Pull_folder.cfg`: `PartOf <- SameStem`, `Parts = {"1.part", "3.part"}` | Two paths that differ in their extensions only share one temporary file, `dest.with_extension("part")`, and two downloads write it at once. The first rename takes the other's bytes, the second finds no file and fails that pull; the next pull skips the file that is there and reports ok. "The file is renamed into place only when their SHA-256 is `sha256`" (`http.rs:124` of `pull`). |
| `OkMeansWhole` | `Pull_folder.cfg`, with message 3 sent with the path `p1` too (`MCSentPath`) | Two fingerprints under one path: the file that is there stands for both, although "every asset this run saw is on disk" (`run.rs:605-606`). Staging gives a file a path by date and fingerprint, so neither case comes from Message Crate's own exporters. |
| `OthersKept` | `CommandsRace = TRUE` | What a command writes between the verification and the swap, or a database made while one is seeded, is lost with the file it was in (`reset_demo.rs:1015`). |

And some that the properties leave out on purpose, each named in the definition
that does so:

- A file that no row names may stay in the store: a removal that fails is logged and
  goes on (`asset_store.rs:27-29`, `:117-130`, `:271-277`, `:376-384`), a crash ends it,
  an upload with no run running has no sweep to come, and `OwnedSession::finish` does
  not sweep, so the files of an `import` that rolled back stay, although the sweep
  is to take "every unnamed Asset of an account, when a run ends" (`asset_store.rs:38-39`). `missed`
  names these files, and `NothingLeftBehind` says that there are no others and that the
  next sweep takes them up.
- `UpToDateSpareNamed` speaks of the removers that act on what the rows say when a
  file goes (`OutOfDate` names the other two, which the table above shows).
- A power cut may take the note of a file dropped as too large, which is written
  without a sync (`transcode.rs:552-557`); its other documents then report it
  missing (`NoteLost`).
- A delete removes the Previews on its list without looking again, also one that
  a pass has stored or shared since (`struck`, `owes`); the next pass heals it.
- The handler of the request for a build may be dropped between marking it and
  starting it (`DropPut`). The state stays `building`, and logins, deletes and
  builds are refused until the server restarts. `BuildEnds` speaks of builds that
  were started.
- A server that listens but was not yet seen to is restarted at once for a changed
  setting, also while a job runs (`RestartSparesJobs` speaks of a ready one): a job
  counts from its start, and may have been started against another server.
- A reset killed in the middle of its swap, or whose rollback failed, leaves no
  database at its path. The next serve seeds a new one, and the other accounts'
  rows are in the work folder that was kept (`kept`; `torn` ends `DemoWhole`).

### Bounds

Every bound is a constant or the size of a constant set.

- *ImportStore*: the races are between a batch, a run's end and one removal, so
  two runs (the second is where a stale decision about the first bites), two
  batches, and two messages that share a file put every pair and triple of
  actors in every order. One crash: what it leaves (a run still running, files without
  rows) is a state the next run meets, and a second crash leaves no other kind. In
  `races` two permits and two connections let both batches come as far as the account
  lock, and the delete of all is left to `store_live`. There one permit makes one batch
  wait for the other before either has the lock, and two connections are as many as a
  delete and a sweep whose requests kept theirs would hold between them, with none left
  for the two tasks (the mutant `ConnectedWhilePending`). Failures are not bounded.
- *Push*: three files are the fewest in which one file's worker waits for
  another's upload while a third is consumed out of order; two attachments shared
  crosswise are the fewest that could wait in a circle. With fewer messages to a
  request than a file has, it spans several. Two pushes show a resume, and a
  journal that outlives the run it speaks of. `MaxFaults` counts within a push,
  `MaxCrashes` over all.
- *AssetUploads*: three slots are two requests at work in a folder that a third
  removes; two parts are the fewest whose manifests can overwrite each other.
  Five requests are a start, both parts, and two that end the upload. With uploads
  whose parts an earlier server took (`Sent`), three requests are two completions
  of different uploads, one of which may have lost its client, and a PUT.
- *KeyedLocks*: three tasks are a holder, a waiter counted on the old entry and
  one that makes a new one. Five allocations are one for each key and task.
- *Staging*: one original in both documents and one in the first alone put a
  shared file before and after one that is not. Two writers copy it at the same
  time. Three runs are one that is stopped, one that is cancelled or fails while
  it resumes, and one that ends well. Every step may fail or be the last, so one
  kill meets every state.
- *Previews*: a blob with two rows is the least that can share, a second blob with
  the same Preview the least whose deletes and passes meet in one file. Two passes
  meet each other; runs, wipes and sweeps are not bounded.
- *DemoAccount*: five starts are a seed or a reset, a serve that recovers and its
  builds. Two renames that fail are one of the swap and one of its rollback, two
  kills one of a reset and one of the serve that follows. Two rows are one stored
  before and one during an operation.

- *LocalServer*: three inputs are a request, a change of the setting and a change
  back or a close. Three jobs on two threads are one that ends while the next runs
  and one more; two probes of a locked-out window are one that is answered "free"
  and the one after it. One window suffices here because `foreign` plays the other
  one's server; with two windows and one job, one crash and two inputs TLC finds the
  same, and the invariants are proved for any number.

- *Pull*: three listed messages, with one that may come in between them and one that
  may come back from the Trash, on pages of two are a page that is not the last, one
  that may become short or empty and an end that a deletion must not move. Two attachments are two downloads at once; one that
  has two paths is first named on one page and again on the next. Two pulls are one
  that leaves something and one that finds it; with one extra try every request may
  lose one answer, and two runs suffice for two pulls, or for one whose create is
  tried twice. `MaxStops` bounds kills, cancels, lost files and closes by others
  together: with one of them, what a pull leaves is met by a pull that nothing else
  disturbs.

Symmetry sets are used only in runs that check no leads-to property, over
batches, deletes, slots, uploads, passes and the rows of one blob, which no operator
tells apart.
`CHECK_DEADLOCK FALSE` is set where the instance's requests or pushes run out,
after which the system rightly stops; the liveness runs show that nothing
admitted is left waiting.

### Fairness

No client and no person is ever assumed to act.

- *ImportStore*: weak fairness of each admitted batch and of each delete and removal
  task. They are tasks of the runtime and wait only for a permit, the account lock, a
  connection and the write lock, whose holders are such tasks too; tokio's semaphore
  and mutex and the pool serve in the order of asking. Nothing need fail or time out,
  no client need act, and any request or removal may end early.
- *Push*: weak fairness of the main thread, the reporting, the request in flight
  (answered or timed out: `http` sets timeouts) and of each worker.
- *AssetUploads*: weak fairness of each request's next step (blocking threads run
  to their end) and strong fairness of taking the completion lock.
- *KeyedLocks*: weak fairness of the three steps of a drop, strong fairness of
  `Acquire`: tokio's mutex is documented to be first in, first out, so a waiter
  is not passed over for ever. That a holder drops its guard at all is the users'
  part; ImportStore and AssetUploads check it for theirs.
- *LocalServer*: weak fairness of the steps of a probe (a connect and an answer have
  timeouts), of the watcher (it polls, and `START_TIMEOUT` passes), and of a job's
  steps. Nothing is assumed of a server, of a person or of other programs.
- *Staging*: weak fairness of each writer thread, of the join and of the media
  pass: threads that run on, and no lock that one could wait for. A run that is
  cancelled ends as well. Nobody has to start one.
- *DemoAccount*: weak fairness of the build's steps and of the task that waits for
  it, both tasks of the runtime. Nobody has to ask for a build, stop or start.
- *Pull*: weak fairness of the client's next step: its threads run on, and its requests
  have timeouts. Nothing is assumed of the server's answers.
- *Previews* states no liveness: a pass ends when nothing kills it, trivially.


## 4. The proofs

Each theorem holds for all values of the constants that meet the modules' named
assumptions (the `ASSUME`s beside the declarations: functions have their domains,
the names of actors are distinct, bounds are natural numbers, and sets are finite
where the code counts their members). TLC evaluates the same assumptions in every
run.

**ImportStore.** `TypeCorrect` is inductive as it stands. Everything about files
rests on `RemovalExclusive`: whoever is removing holds the write lock and no run
is running meanwhile, because a remover looks for a running run after it has the
lock, and a run is created only with the lock. `ToldKept` is not inductive alone:
`ToldInv` adds that nothing counts as told to a run that is not running
(`ToldWhileRunning`), so a removal takes nothing that anybody was told.
`LandsPromised` then looks at the one step that stamps a message.
`SweepCorrect` adds nothing but that commits wait for the write lock.
`EndedFrozen` looks at the status check inside the batch's transaction.
`ReplaceOnce` needs `ReplaceInv`: the account lock belongs to a batch that is
locked (`LockHeld`), and its mode was decided while nothing could stamp for its
run (`ReplaceDecided`).
A delete of all keeps the account lock from before its transaction to its last file
unless its handler goes away (`DeleteAllKeepsLock`), and its transaction leaves no row,
so while it holds the lock no row names anything, if no import command works beside it,
which does not take the lock (`DeleteAllAlone`). With `SweepCorrect` that is
`UpToDateSpares`. Under `NoStaleRemoval`, a condition on the constants that excludes
what section 3 shows to be harmful, every remover is up to date, which gives
`RemovalsUnused` and, with what a commit names, `NamedFilesOnDisk` (`FreshInv`).
`NothingIsLeft` (`NothingLeftBehind`) has no hypothesis: crashes, failed and abandoned
removals, dropped requests, import commands and uploads at any time are all in it. The
invariant is `SweptInv`: a file that no row names is in `missed`, or has somebody who
will come to it: a running run, whose sweep is still to come, or a remover that
has yet to list the unnamed files or has it on its list (`Awaits`). A delete that makes
a file unnamed puts it on its own list in the same transaction, and a sweep may clear
`missed` when it begins because its list then holds every file that no row names.
Lemmas with `Frame` in their names say once what a step of another actor leaves alone.

**Push.** `ClaimsAreExact`: the fingerprints in flight are exactly what workers
hold, and no two workers hold the same. `ClaimInv` adds only as much of the type
of `work` as a step needs. It is the safety half of "no conversation waits for
ever"; `push_live` checks the other half.
`DoneFilesComplete` says that a conversation listed as done has all its messages in
the journal. `DoneInv` is why: every message of a file in the main thread's hands,
or whose chunks are all queued, is still owed by a request or already journalled
(`Owed`); the chunks of a prepared file hold whatever the journal lacks (`ChunksOwed`,
which rests on `ChunksWhole`: rounding up to whole chunks leaves no message out);
and a file settles well only when nothing is owed. What is in memory is on disk
too, so a crash and a resume start from a journal of which the same holds.
`JournalIsTrue` is proved for pushes of one mode (`OneMode`: all append or all
replace; section 3 shows what the mixture does). `SentInv` says that a request
answered well was stored, and that a replace wipes only before anything of its
push was stored (`WipesFirst`), so no wipe takes back what the journal in memory
lists.
`StoredWithTheirFiles` is proved for pushes into a run that is not their own
(`~OwnRun`; section 3 shows what a run of their own does). `FileInv` follows a
fingerprint from the worker's list through claim, wait and upload to the journal
(`SeenTo`): when chunks are built every attachment of the file is in the journal,
and while the run is running what the journal lists is on the server (`Uploaded`).
Chunks, batch and request inherit it (`AllCovered`).
`OkReportsAreTrue`, again for pushes of one mode, adds the report to `DoneInv` and
`SentInv`: a row says ok only of a file whose settling wrote it to the journal
(`OkInv`). `UndisturbedSucceeds` is the other direction, for folders that are not
empty (`NFiles # 0`): as long as no fault, cancel or kill happened, nothing any thread
holds is marked failed (`NothingFailed`), so the report of a push that ends is all
well. The two action properties: `ListedNotSentAgain` rests on what `Unlisted` says of
every chunk, batch and request, that its messages are not in the journal and in
no other of them; `CancelledAreListed` on `FirstJournalled`, by which all that a
first push without faults has stored is in the journal on disk or in the request
in flight, whose answer even a cancelled push waits for.

**KeyedLocks** (at the end of `ImportStore_proofs`, whose requests take these locks).
`LocksImplementMutex` is the refinement: every step is a step of
`KeyedMutex` or a stutter. The invariant `LockInv` says that a task that waits or
holds has the mutex that is its key's in the map (`UsersFollowMap`) and that a
locked mutex is its holder's (`HolderOwns`). The lemma `LastIsAlone` is the
heart: a strong count of two means that the map and the guard are alone, by
cardinality, so removing the key strands nobody.

**LocalServer.** Every action but those of jobs and other programs puts one new
record in place of one window's, so the invariant `AppInv` is about one record, and
the proof has one lemma for each function of `step`. `WaitsAttended` needs that
every phase that waits has what it waits for (`Attended`); `ServerAccounted` that a
server runs only in the two phases that own one, started as they say, and that what
was read of it was said (`Accounted`, `SaidTrue`); both need that watchers are of
this generation or an earlier one (`WatchersPast`), that a window that is closed
stays so (`StaysStopped`), and that probes do not meet (`Single`), which is a
theorem of its own (`ProbesDoNotMeet`: no older answer decides about a later
question). They hold for any number of windows, so also for one window's server
against another's. `RestartsSpareJobs` is an action property and has no hypothesis: the
count that `Restarts` looks at is the number of jobs that run or are about to end
(`JobsCounted`, an equation between a counter and the cardinality of a set), and a
start that is not a restart finds the window in a phase without a server.

**Staging.** `NothingIsLost`: what a conversation file names is on disk or can be
found from what is, for any number of documents, writers, runs and stops.
`NothingLost` is not inductive. `DiskInv` adds that only what shrank enough has a
derivative, that only what did not has a note, and that no staged file is
partial. `WritersInv` says what a writer knows: all that it staged is whole, so
the conversation file it writes vouches for nothing that is missing; and that
there are no writers once the media pass runs. `PassInv` says what the media pass
knows between two file operations on an item; for example, that it removes an
original only when the derivative or the note that stands for it is there. That
is what makes a removal safe for the other documents that name the file.
`ResumesLikeFresh`, if there is a writer at all (`Workers # {}`), says more of a run
that ends well: the folder is what one run would have made. `FreshInv` follows the
reasons: a missing record, a note and a derivative each have the verdict that alone
can cause them (`ReasonsInv`); a document is written, queued, or in a writer's hands
(`QueueInv`), so at the join all are written; and the media pass leaves behind it only
documents with nothing left to do (`PassFresh`).

**Previews.** `StoredPreviewsKept`, under `InTime`: naming takes less than the
grace period, and no touch falls between the sweep's look and its removal.
`YoungUntilNamed` is the strengthening: what is stored and not named yet is
young, and no sweep is after it. `TypeCorrect` needs `ItemFits`: what a pass works
on comes from its list. `PassesHeal`, also under `InTime`, is about the rows that a
pass owes since it began: each is still on the pass's list or in its hands, or its
Preview is on disk (`HealInv`), and no sweep is after a Preview that a row names
(`SweepSparesNamed`).

**DemoAccount.** `RowsAreKept`, if no command writes beside a reset: other
accounts' rows are in the database, in the backup of a swap at work, or in a
work folder that is kept. `SwapKeepsRows` says which of them at each step of the
swap and of the rollback, and `DatabasesFit` which databases there are at which
step. `ReadyIsTrue`, if besides no reset runs where there is no database, follows
from the same invariant and where the marker is away. `ShownDemoIsWhole` is proved
under `Undisturbed`: what section 3 shows to tear the account does not happen, which is
commands or requests that outlive the start of a build, a reset without a database,
a second fault, and a fault of the first write of a build. `WholeInv` says what every
step of a build has made so far (`BuildMade`); that nobody enters or deletes the
account meanwhile (`BuildAlone`); that a build which failed was wiped to its end
before anything is served (`NoneStopped`); that a swap and its rollback have at each
step a whole account before or behind them (`SwapWhole`); and that otherwise
database and folder fit each other (`AtRest`).

**AssetUploads.** Three invariants, each for any number of requests, uploads and
parts, dropped clients and crashes.
- `Verified`: a request about to install has verified its source, and nothing
  writes a source after it was hashed. `NeverWrongBytes` follows: no step but
  outside harm puts wrong bytes under the fingerprint.
- `StoreInv`: while nothing harmed the file it is right as soon as anybody was told
  or is still owed "created" or "present"; one request at most owes "created", and
  only while nobody was told it. `AnswersAreTrue` and `MadeOnce` follow. A completion
  owes its answer through the removal of its folder, which is why the invariant
  speaks of what is owed and not only of what was said.
- `FolderInv`: an upload whose removal has not begun has its folder and manifest,
  and the parts that were acknowledged in both (`FolderFits`); a request at work in
  such a folder holds its lock, has read the list that the manifest still has and
  finds the files it relies on (`RequestFits`, `Knows`). None of that is claimed of a
  doomed folder, whose lock file may be gone under its holder. `AckedPartsStay`,
  `GoneMeansGone` and `AbortedStaysGone` follow.

**Pull.** `ExportsAreRecorded` has no hypothesis. A place in a list never moves once the
run is made (`MadeStays`), and a page that waits to be handed over lies on the places
its record is about to name (`PageListed`). `OkPullsAreWhole` needs `NamesApart`: no two
attachments write to one name, `.part` names included; section 3 shows what happens
otherwise. Three invariants carry it. `WalkInv`: at each offset the pull has fetched
every message below it that is not deleted since, and a page read while the run is
running has all that is left of its places; with a list that only loses messages
from the middle the walk therefore misses none. `FolderInv`: a file that is there holds
the attachment its path names (`FilesRight`), also after kills, because bytes come
under a final name only by a rename of a finished download or from the first path of
the same fingerprint; and after the downloads, and after the links, every path that
is needed has its file (`FirstsThere`, `AllThere`). `DocInv`: a conversation written is
what was fetched of it. A pull that was killed leaves nothing in the folder that
these would have to exclude, which is why skipping by name is right.

Only model-checked: liveness, which is one property of each of `store_live`, `push_live`,
`staging`, `demo`, `locks`, `pulls` and `uploads_store` and two of `local_server`: fairness
and `ENABLED` are out of the prover's reach. Every other property that a run checks is
stated by a theorem. The other way round, `ToldKept`, `EndedRunsFrozen`, `NamedOnDisk`,
`RemovesOnlyUnused` and `GoneIsTrue` are proved and no run repeats them.


## 5. Not modelled

`PROJECT.json` lists every component with its status. In short: contacts, sessions,
the desktop's cancel flag and import screen are planned (below).
Search, schema, exporters, formats, small libraries, the spool and the summaries
of staging are sequential conversions of data or SQL whose meaning is SQLite's.
The web applications, demo seed, packaging and vendored code are not models'
subjects.


## 6. Plan

In order of what a wrong step would cost.

1. `StorePromise`: an abstract store of messages and files, refined by
   ImportStore under `NoStaleRemoval` and used by Push in place of its inline
   server.
2. `ImportScreen`: the import wizard (`web/src/screens/import/useImportJob.ts`) with
   the desktop's job slot and cancel flag. Reading it raises three questions that a
   model should settle: whether an approval that waits while an error of an earlier
   one is shown (`running` is false then) can lose its place to a cancel and another
   account's import; whether a second resume at the review, which only the mounted
   screen guards against, can delete the folder that the first one's media job works
   in; and whether a late cancel can reach a later job (`jobs.rs:8-9`).
3. `ContactTrash` (ADR 0013) and `LastOwner`.
4. `UploadClient`: the client's multipart upload over AssetUploads.
5. Algorithms over bounded inputs: dedupe and promotion order, MMS part
   matching, phone normalisation.

Theorems still worth proving: that ImportStore implements `StorePromise`, and, below
the liveness properties, the safety half of each: that a state in which somebody waits
has somebody who will act.
