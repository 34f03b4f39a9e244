---------------------------------- MODULE Push ----------------------------------
(***************************************************************************)
(* message-crate-push: sending a folder of conversation files to a server. *)
(*                                                                         *)
(* One push run is a main thread, a bounded pool of workers that prepare   *)
(* the files (upload their attachments, cut their messages into chunks)    *)
(* and at most one import request in flight on a thread of its own.  They  *)
(* share the journal, under one mutex: what succeeded so far, in memory    *)
(* and on disk, and the fingerprints some worker is uploading now.  The    *)
(* main thread takes the files in folder order, however the workers finish.*)
(*                                                                         *)
(* A push may be cancelled or die and be run again.  The server is reduced *)
(* to what ImportStore promises a client: an Import Run, the messages and  *)
(* files it stores, and the removal of unnamed files when the run ends.    *)
(***************************************************************************)
EXTENDS Integers, Sequences, FiniteSets

CONSTANTS
  NFiles,        \* the conversation files are 1..NFiles, in folder order
  Guids,         \* the messages, numbered in file order
  Digests,       \* the attachments, by fingerprint, in their upload order
  FileOf,        \* the file of each message
  AssetOf,       \* the attachment of each message, or NoAsset
  SourceOf,      \* the backup source of each file
  BatchSize,     \* messages per chunk and per import request
  OverlapMin,    \* a pending batch this large is sent before the next file
  Ahead,         \* prepare_ahead: files waiting for or with a worker
  Workers,       \* prepare_workers
  OwnRun,        \* each push creates and completes its own Import Run
  Modes, Forces, \* the configurations a push may be started with
  MaxPushes, MaxFaults, MaxCrashes,  \* bounds
  NoAsset

Files == 1..NFiles

ASSUME FolderAssumption ==
  /\ NFiles \in Nat
  /\ Guids \subseteq Nat /\ IsFiniteSet(Guids)
  /\ Digests \subseteq Nat /\ IsFiniteSet(Digests)
  /\ NoAsset \notin Digests
  /\ FileOf \in [Guids -> Files]
  /\ AssetOf \in [Guids -> Digests \cup {NoAsset}]
  /\ DOMAIN SourceOf = Files

ASSUME ConfigAssumption ==
  /\ {BatchSize, OverlapMin, Ahead, Workers} \subseteq Nat \ {0}
  /\ Workers <= Ahead
  /\ OwnRun \in BOOLEAN
  /\ Modes \subseteq {"append", "replace"} /\ Forces \subseteq BOOLEAN
  /\ {MaxPushes, MaxFaults, MaxCrashes} \subseteq Nat

VARIABLES
  disk, mem, inFlight,   \* the journal on disk and in memory; assets_in_flight
  work,                  \* per file: its prepare worker's progress
  submitted, got, taken, \* next_submit - 1, results received, next_consume - 1
  pc, aborted,           \* the main thread
  toQueue,               \* the chunks the main thread has still to queue
  outstanding,           \* per file: messages not yet accepted
  queued,                \* files whose chunks are all queued
  failed,                \* files a failed request marked
  result,                \* per file: its row in the report
  pending, post,         \* the batch being filled, the request in flight
  cancelled, mode, force,
  lastOk,                \* the last report said ok
  run, stamped, stored, held, files,  \* the server
  pushes, faults, crashes

journalVars == <<disk, mem, inFlight>>
queueVars == <<submitted, got, taken>>
mainVars == <<pc, aborted, toQueue>>
pipeVars == <<outstanding, queued, failed, result, pending>>
configVars == <<cancelled, mode, force>>
serverVars == <<run, stamped, stored, held, files>>
countVars == <<lastOk, pushes, crashes>>
vars == <<journalVars, work, queueVars, mainVars, pipeVars, post, configVars,
          serverVars, countVars, faults>>

--------------------------------------------------------------------------------
(* The folder and the journal.                                             *)

MessagesOf(f) == {g \in Guids : FileOf[g] = f}
DigestsOf(f) == {AssetOf[g] : g \in MessagesOf(f)} \ {NoAsset}
FilesOf(S) == {FileOf[g] : g \in S}
Least(S) == CHOOSE x \in S : \A y \in S : x <= y

Blank == [assets |-> {}, messages |-> {}, files |-> {}]

(* Each success goes to memory and, in the same call, to the disk.         *)
Add(j, key, S) == [j EXCEPT ![key] = @ \cup S]
Journal(key, S) == mem' = Add(mem, key, S) /\ disk' = Add(disk, key, S)

(* Mutant: a replace push trusts what an earlier push sent.                *)
OpenTrusting(m, fo) == IF fo THEN Blank ELSE disk

(* Force mode and replace mode start from an empty journal in memory; the  *)
(* journal on disk stays as it is.                                         *)
Open(m, fo) == IF fo \/ m = "replace" THEN Blank ELSE disk

AlreadyImported(f) == mode = "append" /\ ~force /\ f \in mem.files

Idle == [st |-> "none", todo |-> {}, busy |-> {}, held |-> {}, up |-> {}, bad |-> {},
         chunks |-> <<>>]

NoPost == [st |-> "none", msgs |-> {}, stored |-> FALSE]

Init ==
  /\ disk = Blank /\ mem = Blank /\ inFlight = {}
  /\ work = [f \in Files |-> Idle]
  /\ submitted = 0 /\ got = {} /\ taken = 0
  /\ pc = "idle" /\ aborted = FALSE /\ toQueue = <<>>
  /\ outstanding = [f \in Files |-> {}]
  /\ queued = {} /\ failed = {}
  /\ result = [f \in Files |-> "none"]
  /\ pending = {} /\ post = NoPost
  /\ cancelled = FALSE
  /\ mode \in Modes /\ force \in Forces
  /\ lastOk = FALSE
  /\ run = IF OwnRun THEN "none" ELSE "running"
  /\ stamped = {} /\ stored = {} /\ held = {} /\ files = {}
  /\ pushes = 0 /\ faults = 0 /\ crashes = 0

(* Some request or local read fails for good, past every retry.            *)
Fault == faults < MaxFaults /\ faults' = faults + 1

--------------------------------------------------------------------------------
(* A prepare worker.                                                       *)

InWork == {"claiming", "uploading", "waiting"}
Preparing == {f \in Files : work[f].st \in InWork}
Waiting == {f \in Files : work[f].st = "queued"}
Finished == {f \in Files : work[f].st \in {"prepared", "failed"}}

StartPrepare(f) ==
  /\ f \in Waiting /\ f = Least(Waiting)
  /\ Cardinality(Preparing) < Workers
  /\ work' = [work EXCEPT ![f].st = "claiming", ![f].todo = DigestsOf(f)]
  /\ UNCHANGED <<journalVars, serverVars, faults>>

(* Mutant: an error leaves the claims behind.                              *)
GiveUpKeeping(f) ==
  /\ work' = [work EXCEPT ![f] = [Idle EXCEPT !.st = "failed"]]
  /\ UNCHANGED inFlight

(* An error drops AssetClaims: what the worker still claims is let go.     *)
GiveUp(f) ==
  /\ work' = [work EXCEPT ![f] = [Idle EXCEPT !.st = "failed"]]
  /\ inFlight' = inFlight \ work[f].held

(* Mutant: a digest another worker is uploading counts as settled.         *)
ClaimEager(f, d) ==
  IF d \in inFlight \/ (~force /\ d \in mem.assets)
  THEN work' = [work EXCEPT ![f].todo = @ \ {d}] /\ UNCHANGED inFlight
  ELSE /\ work' = [work EXCEPT ![f].todo = @ \ {d}, ![f].held = @ \cup {d}]
       /\ inFlight' = inFlight \cup {d}

(* claim_asset: another worker's claim first, then the journal.            *)
Claim(f, d) ==
  \/ /\ d \in inFlight
     /\ work' = [work EXCEPT ![f].todo = @ \ {d}, ![f].busy = @ \cup {d}]
     /\ UNCHANGED inFlight
  \/ /\ d \notin inFlight /\ ~force /\ d \in mem.assets
     /\ work' = [work EXCEPT ![f].todo = @ \ {d}]
     /\ UNCHANGED inFlight
  \/ /\ d \notin inFlight /\ (force \/ d \notin mem.assets)
     /\ work' = [work EXCEPT ![f].todo = @ \ {d}, ![f].held = @ \cup {d}]
     /\ inFlight' = inFlight \cup {d}

ClaimNext(f) ==
  /\ work[f].st = "claiming" /\ work[f].todo # {}
  /\ IF cancelled THEN GiveUp(f) ELSE Claim(f, Least(work[f].todo))
  /\ UNCHANGED <<disk, mem, serverVars, faults>>

ClaimsDone(f) ==
  /\ work[f].st = "claiming" /\ work[f].todo = {}
  /\ work' = [work EXCEPT ![f].st = "uploading"]
  /\ UNCHANGED <<journalVars, serverVars, faults>>

(* The claimed files go up in parallel, each with its retries.  HEAD finds *)
(* the file or PUT stores it.                                              *)
UploadOk(f, d) ==
  /\ work[f].st = "uploading" /\ d \in work[f].held \ (work[f].up \cup work[f].bad)
  /\ work' = [work EXCEPT ![f].up = @ \cup {d}]
  /\ files' = files \cup {d}
  /\ UNCHANGED <<journalVars, run, stamped, stored, held, faults>>

(* After a cancel a job not yet begun is not begun.  A failed upload may   *)
(* have stored the file all the same.                                      *)
UploadFails(f, d) ==
  /\ work[f].st = "uploading" /\ d \in work[f].held \ (work[f].up \cup work[f].bad)
  /\ work' = [work EXCEPT ![f].bad = @ \cup {d}]
  /\ \/ cancelled /\ UNCHANGED <<files, faults>>
     \/ Fault /\ files' \in {files, files \cup {d}}
  /\ UNCHANGED <<journalVars, run, stamped, stored, held>>

(* Once all have an answer the successes are recorded, in order, up to the *)
(* first failure.                                                          *)
RecordUpload(f) ==
  LET w == work[f]
      d == Least(w.held)
  IN /\ w.st = "uploading" /\ w.held # {} /\ w.held \subseteq w.up \cup w.bad
     /\ IF d \in w.up
        THEN /\ work' = [work EXCEPT ![f].held = @ \ {d}]
             /\ inFlight' = inFlight \ {d}
             /\ Journal("assets", {d})
        ELSE GiveUp(f) /\ UNCHANGED <<disk, mem>>
     /\ UNCHANGED <<serverVars, faults>>

(* With nothing of its own left to upload, a worker waits for the files    *)
(* others are uploading; it holds no claim meanwhile.                      *)
AwaitOthers(f) ==
  /\ work[f].st = "uploading" /\ work[f].held = {} /\ work[f].busy # {}
  /\ work' = [work EXCEPT ![f].st = "waiting", ![f].up = {}]
  /\ UNCHANGED <<journalVars, serverVars, faults>>

(* Then it goes through those again: one that failed is its own to upload. *)
WaitOver(f) ==
  /\ work[f].st = "waiting"
  /\ \/ /\ work[f].busy \cap inFlight = {}
        /\ work' = [work EXCEPT ![f].st = "claiming", ![f].todo = work[f].busy,
                                ![f].busy = {}]
        /\ UNCHANGED inFlight
     \/ /\ work[f].busy \cap inFlight # {} /\ cancelled
        /\ GiveUp(f)
  /\ UNCHANGED <<disk, mem, serverVars, faults>>

(* Mutant: the journal is not asked which messages were sent.              *)
UnsentAll(f) == MessagesOf(f)

(* The messages the journal has are left out; the rest is cut into chunks  *)
(* of at most BatchSize.                                                   *)
Unsent(f) == IF force THEN MessagesOf(f) ELSE MessagesOf(f) \ mem.messages

Chunks(U) ==
  LET rank(g) == Cardinality({h \in U : h < g})
  IN [i \in 1..((Cardinality(U) + BatchSize - 1) \div BatchSize) |->
        {g \in U : rank(g) \div BatchSize = i - 1}]

BuildChunks(f) ==
  /\ work[f].st = "uploading" /\ work[f].held = {} /\ work[f].busy = {}
  /\ IF cancelled /\ MessagesOf(f) # {}
     THEN GiveUp(f)
     ELSE /\ work' = [work EXCEPT ![f] = [Idle EXCEPT !.st = "prepared",
                                                      !.chunks = Chunks(Unsent(f))]]
          /\ UNCHANGED inFlight
  /\ UNCHANGED <<disk, mem, serverVars, faults>>

(* A file cannot be read, an attachment vanished, or the first question to *)
(* the server (preflight_existing_asset) finds no answer.                  *)
PrepareFails(f) ==
  /\ \/ work[f].st = "claiming"
     \/ work[f].st = "uploading" /\ work[f].held # {} /\ work[f].up \cup work[f].bad = {}
  /\ Fault
  /\ GiveUp(f)
  /\ UNCHANGED <<disk, mem, serverVars>>

--------------------------------------------------------------------------------
(* The import request, on its own thread.                                  *)

(* Mutant: every batch of a replace run wipes the source.                  *)
WipesAlways == mode = "replace"

(* A replace run wipes the source on the batch that finds nothing stamped  *)
(* by the run.                                                             *)
Wipes == mode = "replace" /\ stamped = {}

(* The server stores a batch.  A message keeps the name of its attachment  *)
(* only if the file is there.                                              *)
StoreBatch(S) ==
  LET kept == IF Wipes THEN {} ELSE stored
  IN /\ stored' = kept \cup S
     /\ stamped' = (stamped \cap kept) \cup (S \ kept)
     /\ held' = (held \cap kept) \cup {g \in S : AssetOf[g] \in files \cup {NoAsset}}

(* A request may be stored more than once: its answer is lost and it is    *)
(* sent again.                                                             *)
PostStored ==
  /\ post.st = "sending" /\ run = "running"
  /\ StoreBatch(post.msgs)
  /\ post' = [post EXCEPT !.stored = TRUE]
  /\ UNCHANGED <<run, files, faults>>

PostAnswered ==
  /\ post.st = "sending" /\ post.stored
  /\ post' = [post EXCEPT !.st = "ok"]
  /\ UNCHANGED <<serverVars, faults>>

(* The retries are spent, whatever the server did, or the run is over.     *)
PostFails ==
  /\ post.st = "sending"
  /\ \/ Fault
     \/ run # "running" /\ UNCHANGED faults
  /\ post' = [post EXCEPT !.st = "err"]
  /\ UNCHANGED serverVars

--------------------------------------------------------------------------------
(* The main thread: applying a request that has ended.                     *)

Joinable == post.st # "sending"

(* Mutant: a request counts as accepted whatever its answer.               *)
AcceptedAnyway == post.msgs

Accepted == IF post.st = "ok" THEN post.msgs ELSE {}

(* Mutant: a file is settled once its last chunk is queued.                *)
SettlesEarly(f, out, fail, qd) == f \in fail \/ f \in qd

(* finish_file_if_settled: a file is settled when it failed, or when all   *)
(* its chunks are queued and every message was accepted.                   *)
Settles(f, out, fail, qd) == f \in fail \/ (f \in qd /\ out[f] = {})

Verdict(f, fail) == IF f \in fail THEN "failed" ELSE "ok"

Settle(F, out, fail, qd, j) ==
  LET now == {f \in F : result[f] = "none" /\ Settles(f, out, fail, qd)}
      fine == now \ fail
  IN /\ result' = [f \in Files |-> IF f \in now THEN Verdict(f, fail) ELSE result[f]]
     /\ mem' = Add(Add(mem, "messages", j), "files", fine)
     /\ disk' = Add(Add(disk, "messages", j), "files", fine)

(* join_inflight and apply_outcome.                                        *)
Join ==
  LET lost == IF post.st = "err" THEN FilesOf(post.msgs) ELSE {}
  IN /\ Joinable
     /\ outstanding' = [f \in Files |-> outstanding[f] \ Accepted]
     /\ failed' = failed \cup lost
     /\ Settle(FilesOf(post.msgs), outstanding', failed', queued, Accepted)

(* flush: join the request in flight, then send the pending batch, which   *)
(* is dropped instead once the run is cancelled.  Whether the run goes on. *)
Flush ==
  /\ Join
  /\ pending' = {}
  /\ post' = IF pending = {} \/ cancelled
             THEN NoPost ELSE [NoPost EXCEPT !.st = "sending", !.msgs = pending]

GoesOn == ~cancelled \/ (post.st # "err" /\ pending = {})

--------------------------------------------------------------------------------
(* The main thread: the loop of drive.                                     *)

Abort == pc' = "shutdown" /\ aborted' = TRUE

InQueue == {f \in Files : f <= submitted /\ work[f].st # "skipped"} \ got
Ready(f) == f \in Files /\ f <= submitted /\ (f \in got \/ work[f].st = "skipped")

NoPipe == UNCHANGED <<pipeVars, post, disk, mem>>

LoopTop ==
  /\ pc = "loop"
  /\ \/ /\ taken = NFiles
        /\ pc' = "shutdown" /\ UNCHANGED aborted /\ NoPipe
     \/ /\ taken < NFiles /\ cancelled
        /\ Abort /\ NoPipe
     \/ /\ taken < NFiles /\ ~cancelled /\ Cardinality(pending) >= OverlapMin
        /\ Flush /\ UNCHANGED queued
        /\ pc' = "submit" /\ UNCHANGED aborted
     \/ /\ taken < NFiles /\ ~cancelled /\ Cardinality(pending) < OverlapMin
        /\ pc' = "submit" /\ UNCHANGED aborted /\ NoPipe
  /\ UNCHANGED <<queueVars, toQueue, work>>

RoomForNext == submitted < NFiles /\ Cardinality(InQueue) < Ahead

(* submit_file, as long as there are files and room.                       *)
Submit ==
  /\ pc = "submit"
  /\ IF RoomForNext
     THEN LET f == submitted + 1
          IN /\ submitted' = f
             /\ IF AlreadyImported(f)
                THEN /\ work' = [work EXCEPT ![f].st = "skipped"]
                     /\ result' = [result EXCEPT ![f] = "skipped"]
                ELSE /\ work' = [work EXCEPT ![f].st = "queued"]
                     /\ UNCHANGED result
             /\ UNCHANGED pc
     ELSE /\ pc' = "wait"
          /\ UNCHANGED <<submitted, work, result>>
  /\ UNCHANGED <<got, taken, aborted, toQueue, outstanding, queued, failed, pending, post,
                 disk, mem>>

(* wait_one, unless the next file's result is there already.               *)
WaitOne ==
  /\ pc = "wait"
  /\ IF Ready(taken + 1) THEN UNCHANGED got
     ELSE \E f \in Finished \ got : got' = got \cup {f}
  /\ pc' = "consume"
  /\ UNCHANGED <<submitted, taken, aborted, toQueue, work>> /\ NoPipe

(* Mutant: a resumed file waits for messages it does not send.             *)
TrackedAll(f) == MessagesOf(f)

(* What has to be accepted before the file is done: what its chunks hold.  *)
Tracked(f) == UNION {work[f].chunks[i] : i \in DOMAIN work[f].chunks}

(* One request only ever carries one source.                               *)
OtherSource(f) == \E g \in pending : SourceOf[FileOf[g]] # SourceOf[f]

FlushOtherSource ==
  LET f == taken + 1
  IN /\ pc = "consume" /\ Ready(f) /\ work[f].st = "prepared" /\ OtherSource(f)
     /\ Flush
     /\ IF GoesOn THEN UNCHANGED <<pc, aborted>> ELSE Abort
     /\ UNCHANGED <<queueVars, toQueue, work, queued>>

(* Every consecutive result from the next file on.                         *)
Consume ==
  LET f == taken + 1
  IN /\ pc = "consume"
     /\ \/ /\ ~Ready(f)
           /\ pc' = "loop"
           /\ UNCHANGED <<taken, toQueue, outstanding, result>>
        \/ /\ Ready(f) /\ work[f].st \in {"skipped", "failed"}
           /\ taken' = f
           /\ result' = [result EXCEPT ![f] = work[f].st]
           /\ UNCHANGED <<pc, toQueue, outstanding>>
        \/ /\ Ready(f) /\ work[f].st = "prepared" /\ ~OtherSource(f)
           /\ pc' = "queue" /\ toQueue' = work[f].chunks
           /\ outstanding' = [outstanding EXCEPT ![f] = Tracked(f)]
           /\ UNCHANGED <<taken, result>>
     /\ UNCHANGED <<submitted, got, aborted, work, queued, failed, pending, post, disk, mem>>

(* What is left of the file's chunks is dropped once a request failed it.  *)
AfterFlush(f, next) ==
  IF ~GoesOn THEN Abort /\ toQueue' = <<>>
  ELSE /\ pc' = "queue" /\ UNCHANGED aborted
       /\ toQueue' = IF f \in failed' THEN <<>> ELSE next

QueueChunk ==
  LET f == taken + 1
      chunk == Head(toQueue)
      overflow == pending # {} /\ Cardinality(pending) + Cardinality(chunk) > BatchSize
  IN /\ pc = "queue" /\ toQueue # <<>>
     /\ \/ /\ overflow
           /\ Flush /\ AfterFlush(f, toQueue)
        \/ /\ ~overflow
           /\ pending' = pending \cup chunk
           /\ toQueue' = Tail(toQueue)
           /\ pc' = IF Cardinality(pending') >= BatchSize THEN "full" ELSE "queue"
           /\ UNCHANGED <<aborted, outstanding, failed, result, post, disk, mem>>
     /\ UNCHANGED <<queueVars, work, queued>>

FlushFull ==
  /\ pc = "full"
  /\ Flush /\ AfterFlush(taken + 1, toQueue)
  /\ UNCHANGED <<queueVars, work, queued>>

FinishQueueing ==
  LET f == taken + 1
  IN /\ pc = "queue" /\ toQueue = <<>>
     /\ queued' = queued \cup {f}
     /\ Settle({f}, outstanding, failed, queued', {})
     /\ taken' = f /\ pc' = "consume"
     /\ UNCHANGED <<submitted, got, aborted, toQueue, work, outstanding, failed, pending,
                    post>>

(* The workers finish what they were given before they exit.               *)
Shutdown ==
  /\ pc = "shutdown"
  /\ Preparing \cup Waiting = {}
  /\ pc' = "settle"
  /\ UNCHANGED <<queueVars, aborted, toQueue, work>> /\ NoPipe

(* Mutant: a push that was cancelled does not wait for its request.        *)
SettleAtOnce ==
  /\ pc = "settle"
  /\ \/ /\ aborted \/ cancelled
        /\ aborted' = TRUE /\ pc' = "report"
        /\ post' = NoPost /\ pending' = {}
        /\ UNCHANGED <<outstanding, failed, result, disk, mem>>
     \/ /\ ~aborted /\ ~cancelled
        /\ Flush
        /\ pc' = "last" /\ UNCHANGED aborted
  /\ UNCHANGED <<queueVars, toQueue, work, queued>>

(* settle: the last batch goes out; an aborted push still waits for the    *)
(* request in flight, so that the journal stays consistent.                *)
SettlePush ==
  /\ pc = "settle"
  /\ \/ /\ aborted \/ cancelled
        /\ Join
        /\ aborted' = TRUE /\ pc' = "report"
        /\ post' = NoPost /\ pending' = {}
     \/ /\ ~aborted /\ ~cancelled
        /\ Flush
        /\ pc' = "last" /\ UNCHANGED aborted
  /\ UNCHANGED <<queueVars, toQueue, work, queued>>

JoinLast ==
  /\ pc = "last"
  /\ Join
  /\ aborted' = (cancelled /\ post.st = "err")
  /\ pc' = "report" /\ post' = NoPost
  /\ UNCHANGED <<queueVars, toQueue, work, queued, pending>>

MainStep ==
  \/ LoopTop \/ Submit \/ WaitOne \/ FlushOtherSource \/ Consume \/ QueueChunk
  \/ FlushFull \/ FinishQueueing \/ Shutdown \/ SettlePush \/ JoinLast

--------------------------------------------------------------------------------
(* A push from start to report, and what happens around it.                *)

NamedFiles == {AssetOf[g] : g \in held} \ {NoAsset}

(* The Import Run ends and the server removes what no row names.           *)
EndRun == run' = "ended" /\ files' = NamedFiles

StartPush(m, fo) ==
  /\ pc = "idle" /\ pushes < MaxPushes
  /\ IF OwnRun
     THEN /\ run # "running"
          /\ run' = "running" /\ stamped' = {}
          /\ mode' = m
     ELSE UNCHANGED <<run, stamped, mode>>
  /\ force' = fo
  /\ mem' = Open(mode', fo) /\ inFlight' = {}
  /\ work' = [f \in Files |-> Idle]
  /\ submitted' = 0 /\ got' = {} /\ taken' = 0
  /\ pc' = "loop" /\ aborted' = FALSE /\ toQueue' = <<>>
  /\ outstanding' = [f \in Files |-> {}]
  /\ queued' = {} /\ failed' = {}
  /\ result' = [f \in Files |-> "none"]
  /\ pending' = {} /\ post' = NoPost
  /\ cancelled' = FALSE /\ lastOk' = FALSE
  /\ pushes' = pushes + 1 /\ faults' = 0
  /\ UNCHANGED <<disk, stored, held, files, crashes>>

(* Files without a result are reported cancelled; a clean journal is       *)
(* written anew; the push completes the run it created, if it can.         *)
Report ==
  LET rows == [f \in Files |-> IF result[f] = "none" THEN "cancelled" ELSE result[f]]
      ok == ~aborted /\ \A f \in Files : rows[f] # "failed"
  IN /\ pc = "report"
     /\ result' = rows
     /\ lastOk' = ok
     /\ disk' = IF ok THEN mem ELSE disk
     /\ \/ OwnRun /\ run = "running" /\ EndRun /\ UNCHANGED faults
        \/ OwnRun /\ run = "running" /\ Fault /\ UNCHANGED <<run, files>>
        \/ ~(OwnRun /\ run = "running") /\ UNCHANGED <<run, files, faults>>
     /\ pc' = "idle"
     /\ UNCHANGED <<mem, inFlight, work, queueVars, aborted, toQueue, outstanding, queued,
                    failed, pending, post, configVars, stamped, stored, held, pushes,
                    crashes>>

Cancel ==
  /\ pc # "idle" /\ ~cancelled
  /\ cancelled' = TRUE
  /\ UNCHANGED <<journalVars, work, queueVars, mainVars, pipeVars, post, mode, force,
                 serverVars, countVars, faults>>

(* The run is completed or discarded from elsewhere, at any moment.        *)
RunEnds ==
  /\ run = "running" /\ EndRun
  /\ UNCHANGED <<journalVars, work, queueVars, mainVars, pipeVars, post, configVars,
                 stamped, stored, held, countVars, faults>>

(* The process dies between any two steps; the journal on disk stays.      *)
Crash ==
  /\ pc # "idle" /\ crashes < MaxCrashes
  /\ crashes' = crashes + 1
  /\ pc' = "idle" /\ mem' = Blank /\ inFlight' = {}
  /\ work' = [f \in Files |-> Idle]
  /\ submitted' = 0 /\ got' = {} /\ taken' = 0
  /\ outstanding' = [f \in Files |-> {}] /\ queued' = {} /\ failed' = {}
  /\ result' = [f \in Files |-> "none"]
  /\ post' = NoPost /\ pending' = {} /\ toQueue' = <<>>
  /\ UNCHANGED <<disk, aborted, configVars, serverVars, lastOk, pushes, faults>>

PrepareStep(f) ==
  /\ pc # "idle"
  /\ \/ StartPrepare(f) \/ ClaimNext(f) \/ ClaimsDone(f) \/ RecordUpload(f)
     \/ AwaitOthers(f) \/ WaitOver(f) \/ BuildChunks(f)
     \/ \E d \in Digests : UploadOk(f, d)
  /\ UNCHANGED <<queueVars, mainVars, pipeVars, post, configVars, countVars>>

PrepareFault(f) ==
  /\ PrepareFails(f) \/ \E d \in Digests : UploadFails(f, d)
  /\ UNCHANGED <<queueVars, mainVars, pipeVars, post, configVars, countVars>>

PostStep ==
  /\ PostStored \/ PostAnswered \/ (run # "running" /\ PostFails)
  /\ UNCHANGED <<journalVars, work, queueVars, mainVars, pipeVars, configVars, countVars>>

PostFault ==
  /\ PostFails
  /\ UNCHANGED <<journalVars, work, queueVars, mainVars, pipeVars, configVars, countVars>>

Main ==
  /\ MainStep
  /\ UNCHANGED <<inFlight, configVars, serverVars, countVars, faults>>

Next ==
  \/ \E m \in Modes, fo \in Forces : StartPush(m, fo)
  \/ Main \/ Report
  \/ \E f \in Files : PrepareStep(f) \/ PrepareFault(f)
  \/ PostStep \/ PostFault
  \/ Cancel \/ RunEnds \/ Crash

Spec == Init /\ [][Next]_vars

(* Every thread goes on, and every request is answered or times out.       *)
(* Nothing is assumed of the person (who need not start or cancel a push). *)
Fairness ==
  /\ WF_vars(Main) /\ WF_vars(Report) /\ WF_vars(PostStep)
  /\ \A f \in Files : WF_vars(PrepareStep(f))

FairSpec == Spec /\ Fairness

--------------------------------------------------------------------------------
(* Correctness.                                                            *)

Journals == [assets : SUBSET Digests, messages : SUBSET Guids, files : SUBSET Files]
Progress == {"none", "queued", "prepared", "failed", "skipped"} \cup InWork

Worker == [st : Progress, todo : SUBSET Digests, busy : SUBSET Digests,
           held : SUBSET Digests, up : SUBSET Digests, bad : SUBSET Digests,
           chunks : Seq(SUBSET Guids)]

TypeOK ==
  /\ disk \in Journals /\ mem \in Journals /\ inFlight \subseteq Digests
  /\ work \in [Files -> Worker]
  /\ submitted \in 0..NFiles /\ taken \in 0..submitted /\ got \subseteq Finished
  /\ pc \in {"idle", "loop", "submit", "wait", "consume", "queue", "full", "shutdown",
             "settle", "last", "report"}
  /\ toQueue \in Seq(SUBSET Guids)
  /\ outstanding \in [Files -> SUBSET Guids]
  /\ queued \subseteq Files /\ failed \subseteq Files
  /\ result \in [Files -> {"none", "ok", "failed", "skipped", "cancelled"}]
  /\ pending \subseteq Guids
  /\ post \in [st : {"none", "sending", "ok", "err"}, msgs : SUBSET Guids, stored : BOOLEAN]
  /\ {aborted, cancelled, force, lastOk} \subseteq BOOLEAN /\ mode \in Modes
  /\ run \in {"none", "running", "ended"}
  /\ held \subseteq stored /\ stored \subseteq Guids /\ stamped \subseteq stored
  /\ files \subseteq Digests
  /\ pushes \in 0..MaxPushes /\ faults \in 0..MaxFaults /\ crashes \in 0..MaxCrashes

(* One worker at a time uploads a fingerprint, and nobody else's claim or  *)
(* failure leaves one in flight that no worker is uploading - the next     *)
(* conversation that names it would wait for ever (#1076).                 *)
ClaimsExact ==
  /\ inFlight = UNION {work[f].held : f \in Files}
  /\ \A f, e \in Files : f # e => work[f].held \cap work[e].held = {}

(* No message is stored before its attachment's file is there, whichever   *)
(* conversation's worker uploaded it, in this push or in one it resumes    *)
(* (#1076: "the server never stores an attachment whose file is still on   *)
(* its way").                                                              *)
StoredWithFile == stored \subseteq held

(* What a push in progress believes was sent is on the server, so nothing  *)
(* it skips is missing there.                                              *)
JournalTrue ==
  pc # "idle" => mem.messages \cup UNION {MessagesOf(f) : f \in mem.files} \subseteq stored

(* A conversation is journalled as done only when each of its messages was *)
(* accepted, over however many pushes: cancelled and failed ones are sent  *)
(* again.                                                                  *)
DoneMeansAll ==
  \A f \in Files : f \in mem.files => MessagesOf(f) \subseteq mem.messages

(* A push that reports ok has every message of the folder on the server.   *)
OkMeansStored == lastOk => Guids \subseteq stored

(* A push that nothing disturbed succeeds, whatever an earlier one left    *)
(* behind: it resumes after a failure, a cancel or a crash.                *)
UndisturbedPushSucceeds ==
  /\ pc = "idle" /\ \A f \in Files : result[f] # "none"
  /\ faults = 0 /\ ~cancelled /\ run = "running"
  => lastOk /\ \A f \in Files : result[f] \in {"ok", "skipped"}

(* A push sends only messages the journal does not list.                   *)
SendsOnlyUnlisted ==
  [][post.st # "sending" /\ post'.st = "sending" /\ ~force
     => post'.msgs \cap mem.messages = {}]_vars

(* Where no request fails for good, the messages of a cancelled            *)
(* conversation that did reach the server are in the journal by the time a *)
(* first push reports, so the next one does not send them again.           *)
CancelledIsJournalled ==
  [][pc = "report" /\ run = "running" /\ pushes = 1 /\ faults = 0
     => \A f \in Files : result'[f] = "cancelled"
                          => stored \cap MessagesOf(f) \subseteq disk.messages]_vars

(* Every push ends: no worker waits for ever for another's upload, and the *)
(* main thread never for a result that does not come.                      *)
PushEnds == pc # "idle" ~> pc = "idle"

--------------------------------------------------------------------------------
(* What the documentation says and the code does not keep; the README      *)
(* names the instances that show it.                                       *)

(* "So hundreds of chats are not prepared (and held in memory) before the  *)
(* import loop catches up": no more conversations are prepared and waiting *)
(* for the main thread than the queue has room for.                        *)
PreparedBounded ==
  Cardinality({f \in Finished : f > taken /\ work[f].st = "prepared"}) <= Ahead

=============================================================================
