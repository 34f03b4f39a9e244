----------------------------- MODULE AssetUploads -----------------------------
(***************************************************************************)
(* How the bytes of one Asset reach the store (asset_uploads.rs and the    *)
(* upload handlers of assets_api.rs): whole, with PUT, or in parts, with   *)
(* uploads that each have a session folder under .incoming - a manifest of *)
(* the parts received, the parts, a lock file, and what completing makes.  *)
(*                                                                         *)
(* Requests of any client meet in a folder that a completion, an abort or  *)
(* the sweep of abandoned uploads may be removing, one file after another. *)
(* A request works on a blocking thread that goes on when its client goes  *)
(* away; what the handler held (the completion lock) goes at once.         *)
(***************************************************************************)
EXTENDS Integers, FiniteSets

CONSTANTS
  Slots,        \* requests that may be worked on at the same time
  Ups,          \* uploads, by upload id
  Sent,         \* those whose parts an earlier server has all taken
  Parts,        \* the parts of the file, by number
  Kinds,        \* the requests clients send
  Bodies,       \* whether the bytes they send are right
  MaxRequests, MaxCrashes, MaxAges, MaxHarms,   \* bounds
  NoUp, NoPart, Nobody

(* The files of a session folder.                                          *)
Names == {"manifest", "tmp", "lock", "assembled"} \cup Parts

ASSUME UploadAssumption ==
  /\ Parts \cap {"manifest", "tmp", "lock", "assembled"} = {}
  /\ NoUp \notin Ups /\ NoPart \notin Parts /\ Nobody \notin Slots
  /\ Sent \subseteq Ups
  /\ Kinds \subseteq {"put", "start", "part", "complete", "abort"}
  /\ Bodies \subseteq BOOLEAN
  /\ {MaxRequests, MaxCrashes, MaxAges, MaxHarms} \subseteq Nat

VARIABLES
  asset,               \* the file in the store: absent, right or wrong bytes
  dirs, ents,          \* session folders, and the files in each
  received, draft,     \* the parts the manifest lists, and its temporary file
  good,                \* the parts whose file holds the right bytes
  aged,                \* folders whose manifest is a day old
  locked, completer,   \* who holds each lock file and the completion lock
  pc, req,             \* each request
  answers, acked,      \* what clients were told, and the parts they know stored
  created, doomed,     \* answers of 201, and folders whose removal has begun
  requests, crashes, ages, harms

sessionVars == <<dirs, ents, received, draft, good, aged, doomed>>
lockVars == <<locked, completer>>
clientVars == <<answers, acked, created>>
countVars == <<requests, crashes, ages, harms>>
vars == <<asset, sessionVars, lockVars, pc, req, clientVars, countVars>>

(* A request: what it asks, the parts it read in a manifest, whether the   *)
(* bytes it carries or has assembled are right, the folders a sweep has    *)
(* still to look at, the files a removal listed, and the answer it owes.   *)
NoRequest ==
  [kind |-> "none", up |-> NoUp, part |-> NoPart, right |-> FALSE, seen |-> {},
   scan |-> {}, left |-> {}, owes |-> "none"]

OfSent(X) == [u \in Ups |-> IF u \in Sent THEN X ELSE {}]

Init ==
  /\ asset = "absent"
  /\ dirs = Sent /\ ents = OfSent({"manifest", "lock"} \cup Parts)
  /\ received = OfSent(Parts) /\ draft = [u \in Ups |-> {}] /\ good = OfSent(Parts)
  /\ aged = {} /\ doomed = {}
  /\ locked = [u \in Ups |-> Nobody] /\ completer = Nobody
  /\ pc = [r \in Slots |-> "idle"] /\ req = [r \in Slots |-> NoRequest]
  /\ answers = [u \in Ups \cup {NoUp} |-> IF u \in Sent THEN {"started", "ok"} ELSE {}]
  /\ acked = OfSent(Parts) /\ created = 0
  /\ requests = 0 /\ crashes = 0 /\ ages = 0 /\ harms = 0

--------------------------------------------------------------------------------
(* Steps of a request.                                                     *)

Upload(r) == req[r].up
Files(r) == ents[Upload(r)]
Go(r, p) == pc' = [pc EXCEPT ![r] = p]

(* Mutant: the completion lock stays taken.                                *)
KeepKey(r) == UNCHANGED completer

ReleaseKey(r) == completer' = IF completer = r THEN Nobody ELSE completer

(* A lock file is let go with its handle.                                  *)
Unlock(r) == locked' = [u \in Ups |-> IF locked[u] = r THEN Nobody ELSE locked[u]]

(* The answer, and the end of the handler.                                 *)
Answer(r, a) ==
  /\ pc' = [pc EXCEPT ![r] = "idle"]
  /\ req' = [req EXCEPT ![r] = NoRequest]
  /\ answers' = [answers EXCEPT ![Upload(r)] = @ \cup {a}]
  /\ acked' = IF a = "ok" THEN [acked EXCEPT ![Upload(r)] = @ \cup {req[r].part}] ELSE acked
  /\ created' = IF a = "created" THEN created + 1 ELSE created
  /\ ReleaseKey(r) /\ Unlock(r)

(* The files of a folder become E.  While there is no manifest the age of  *)
(* the folder itself counts, and that changes with its files.              *)
Fill(u, E) ==
  /\ ents' = [ents EXCEPT ![u] = E]
  /\ aged' = IF "manifest" \in E THEN aged ELSE aged \ {u}

Quiet == UNCHANGED <<asset, sessionVars, countVars>>
Silent == UNCHANGED clientVars

(* A request arrives.  Its client knows the uploads it was told of.        *)
Started == {u \in Ups : "started" \in answers[u]}

Arrive(r, k) ==
  /\ pc[r] = "idle" /\ k \in Kinds
  /\ requests < MaxRequests /\ requests' = requests + 1
  /\ UNCHANGED <<asset, sessionVars, crashes, ages, harms>>

(* gone_if_removed: an error is an upload that is gone if the manifest is  *)
(* missing by then, and otherwise a fault of the server.                   *)
GoneOrFault(r) == IF "manifest" \in Files(r) THEN "fault" ELSE "notFound"

Judge(r) ==
  /\ pc[r] = "judge"
  /\ Answer(r, GoneOrFault(r))
  /\ Quiet

--------------------------------------------------------------------------------
(* One part: read the part size, take the body, lock, read the manifest,   *)
(* write the part, write the manifest anew.                                *)

BeginPart(r, u, p, b) ==
  /\ Arrive(r, "part")
  /\ u \in dirs
  /\ req' = [req EXCEPT ![r] = [NoRequest EXCEPT !.kind = "part", !.up = u, !.part = p,
                                                 !.right = b]]
  /\ Go(r, IF "manifest" \in ents[u] THEN "body" ELSE "judge")
  /\ UNCHANGED lockVars /\ Silent

(* The folder of the upload a request names is not there.                  *)
NameGone(r, k, u) ==
  /\ Arrive(r, k)
  /\ u \notin dirs
  /\ answers' = [answers EXCEPT ![u] = @ \cup {IF k = "abort" THEN "aborted" ELSE "notFound"}]
  /\ UNCHANGED <<pc, req, lockVars, acked, created>>

(* Mutant: two requests may work in the same folder.                       *)
LockAnyway(u) == TRUE

LockFree(u) == locked[u] = Nobody

(* lock_session: not waited for.                                           *)
LockSession(r, next, ifGone) ==
  LET u == Upload(r)
  IN \/ u \notin dirs /\ Answer(r, ifGone) /\ UNCHANGED <<ents, aged>>
     \/ u \in dirs /\ ~LockFree(u) /\ Answer(r, "locked") /\ UNCHANGED <<ents, aged>>
     \/ /\ u \in dirs /\ LockFree(u)
        /\ locked' = [locked EXCEPT ![u] = r]
        /\ Fill(u, Files(r) \cup {"lock"})
        /\ Go(r, next)
        /\ UNCHANGED <<req, completer>> /\ Silent

SessionOnly == UNCHANGED <<asset, dirs, received, draft, good, doomed, countVars>>

LockPart(r) ==
  /\ pc[r] = "body"
  /\ LockSession(r, "read", "notFound")
  /\ SessionOnly

ReadManifest(r) ==
  /\ pc[r] = "read"
  /\ \/ "manifest" \notin Files(r) /\ Answer(r, "notFound")
     \/ /\ "manifest" \in Files(r)
        /\ req' = [req EXCEPT ![r].seen = received[Upload(r)]]
        /\ Go(r, IF req[r].kind = "part" THEN "write" ELSE "check")
        /\ UNCHANGED lockVars /\ Silent
  /\ Quiet

WritePart(r) ==
  LET u == Upload(r)
      p == req[r].part
  IN /\ pc[r] = "write"
     /\ \/ u \notin dirs /\ Answer(r, "notFound") /\ UNCHANGED <<ents, aged, good>>
        \/ /\ u \in dirs
           /\ Fill(u, Files(r) \cup {p})
           /\ good' = [good EXCEPT ![u] = IF req[r].right THEN @ \cup {p} ELSE @ \ {p}]
           /\ Go(r, "draft")
           /\ UNCHANGED <<req, lockVars>> /\ Silent
     /\ UNCHANGED <<asset, dirs, received, draft, doomed, countVars>>

WriteDraft(r) ==
  LET u == Upload(r)
  IN /\ pc[r] = "draft"
     /\ \/ u \notin dirs /\ Answer(r, "notFound") /\ UNCHANGED <<ents, aged, draft>>
        \/ /\ u \in dirs
           /\ Fill(u, Files(r) \cup {"tmp"})
           /\ draft' = [draft EXCEPT ![u] = req[r].seen \cup {req[r].part}]
           /\ Go(r, "rename")
           /\ UNCHANGED <<req, lockVars>> /\ Silent
     /\ UNCHANGED <<asset, dirs, received, good, doomed, countVars>>

RenameDraft(r) ==
  LET u == Upload(r)
  IN /\ pc[r] = "rename"
     /\ \/ "tmp" \notin Files(r) /\ Answer(r, "notFound") /\ UNCHANGED <<ents, aged, received>>
        \/ /\ "tmp" \in Files(r)
           /\ ents' = [ents EXCEPT ![u] = (@ \ {"tmp"}) \cup {"manifest"}]
           /\ aged' = aged \ {u}
           /\ received' = [received EXCEPT ![u] = draft[u]]
           /\ Answer(r, "ok")
     /\ UNCHANGED <<asset, dirs, draft, good, doomed, countVars>>

--------------------------------------------------------------------------------
(* Into the store: store_verified and install_blob.                        *)

(* Mutant: the source is taken at its word.                                *)
Unverified(r) == TRUE

(* The bytes are hashed while they are copied, or when a file is there     *)
(* already: they have to match the fingerprint in both cases.              *)
Matches(r) == req[r].right

SourceThere(r) == req[r].kind # "put" => "assembled" \in Files(r)

(* What the request will answer.  A completion lets go of its lock and     *)
(* removes its folder first, whatever the outcome.                         *)
Owe(r, a) ==
  IF req[r].kind = "put" THEN Answer(r, a)
  ELSE /\ req' = [req EXCEPT ![r].owes = a, ![r].left = ents'[Upload(r)]]
       /\ Go(r, "remove")
       /\ Unlock(r)
       /\ UNCHANGED completer /\ Silent

(* A completion consumes its source once the store has it.                 *)
Consume(r) ==
  IF req[r].kind = "put" THEN UNCHANGED <<ents, aged>>
  ELSE Fill(Upload(r), Files(r) \ {"assembled"})

(* A removal that begins is one the upload does not come back from.        *)
Dooms(r) ==
  doomed' = IF pc'[r] = "remove" THEN doomed \cup ({Upload(r)} \cap dirs) ELSE doomed

StoreOnly(r) == Dooms(r) /\ UNCHANGED <<dirs, received, draft, good, countVars>>

(* A look at the destination: a right file there makes a copy needless, a  *)
(* wrong one will be replaced.                                             *)
Look(r) ==
  /\ pc[r] = "store"
  /\ \/ /\ ~SourceThere(r)
        /\ UNCHANGED <<ents, aged>> /\ Owe(r, GoneOrFault(r))
     \/ /\ SourceThere(r) /\ ~Matches(r)
        /\ UNCHANGED <<ents, aged>> /\ Owe(r, "mismatch")
     \/ /\ SourceThere(r) /\ Matches(r) /\ asset = "right"
        /\ Consume(r) /\ Owe(r, "present")
     \/ /\ SourceThere(r) /\ Matches(r) /\ asset # "right"
        /\ Go(r, IF asset = "wrong" THEN "replace" ELSE "install")
        /\ UNCHANGED <<req, lockVars, ents, aged>> /\ Silent
  /\ UNCHANGED asset /\ StoreOnly(r)

Bytes(r) == IF req[r].right THEN "right" ELSE "wrong"

(* Mutant: the copy always replaces what is there.                         *)
Clobbers(r) == TRUE

(* Only a file seen to be wrong is replaced.                               *)
Replaces(r) == pc[r] = "replace" \/ asset = "wrong"

(* The verified copy takes the file's place, unless another upload's did.  *)
Install(r) ==
  /\ pc[r] \in {"install", "replace"}
  /\ Consume(r)
  /\ \/ /\ asset = "absent" \/ Replaces(r)
        /\ asset' = Bytes(r)
        /\ Owe(r, "created")
     \/ /\ asset # "absent" /\ ~Replaces(r)
        /\ Owe(r, "present") /\ UNCHANGED asset
  /\ StoreOnly(r)

(* PUT: the handler looks first, then takes the body.                      *)
BeginPut(r, b) ==
  /\ Arrive(r, "put")
  /\ \/ /\ asset = "right"
        /\ answers' = [answers EXCEPT ![NoUp] = @ \cup {"present"}]
        /\ UNCHANGED <<pc, req, acked, created>>
     \/ /\ asset # "right"
        /\ req' = [req EXCEPT ![r] = [NoRequest EXCEPT !.kind = "put", !.right = b]]
        /\ Go(r, "store") /\ Silent
  /\ UNCHANGED lockVars

--------------------------------------------------------------------------------
(* Completing an upload.                                                   *)

(* A file that another upload stored makes the rest needless: the folder   *)
(* is dropped, if that can be done, and the answer is the same either way. *)
BeginComplete(r, u) ==
  LET owes == IF asset = "right" THEN "present" ELSE "none"
  IN /\ Arrive(r, "complete")
     /\ req' = [req EXCEPT ![r] = [NoRequest EXCEPT !.kind = "complete", !.up = u,
                                                    !.owes = owes]]
     /\ Go(r, IF asset = "right" THEN "abort" ELSE "key")
     /\ UNCHANGED lockVars /\ Silent

TakeKey(r) ==
  /\ pc[r] = "key" /\ completer = Nobody
  /\ completer' = r
  /\ Go(r, "session")
  /\ UNCHANGED <<req, locked>> /\ Silent /\ Quiet

LockComplete(r) ==
  /\ pc[r] = "session"
  /\ LockSession(r, "read", "notFound")
  /\ SessionOnly

(* A part that never came is the client's fault.                           *)
MissingPart(r) == IF "manifest" \in Files(r) THEN "missing" ELSE "notFound"

CheckParts(r) ==
  /\ pc[r] = "check"
  /\ \/ ~(Parts \subseteq req[r].seen \cap Files(r)) /\ Answer(r, MissingPart(r))
     \/ /\ Parts \subseteq req[r].seen \cap Files(r)
        /\ Go(r, "join") /\ UNCHANGED <<req, lockVars>> /\ Silent
  /\ Quiet

JoinParts(r) ==
  LET u == Upload(r)
  IN /\ pc[r] = "join"
     /\ \/ /\ u \notin dirs
           /\ Answer(r, "notFound") /\ UNCHANGED <<ents, aged>>
        \/ /\ u \in dirs /\ ~(Parts \subseteq Files(r))
           /\ Fill(u, Files(r) \cup {"assembled"}) /\ Answer(r, "notFound")
        \/ /\ u \in dirs /\ Parts \subseteq Files(r)
           /\ Fill(u, Files(r) \cup {"assembled"})
           /\ req' = [req EXCEPT ![r].right = Parts \subseteq good[u]]
           /\ Go(r, "store")
           /\ UNCHANGED lockVars /\ Silent
     /\ SessionOnly

--------------------------------------------------------------------------------
(* Starting an upload, and removing folders.                               *)

(* First the sweep of abandoned uploads, in any order.                     *)
BeginStart(r) ==
  /\ Arrive(r, "start")
  /\ req' = [req EXCEPT ![r] = [NoRequest EXCEPT !.kind = "start", !.scan = dirs]]
  /\ Go(r, "sweep")
  /\ UNCHANGED lockVars /\ Silent

Abandoned == dirs \cap aged

Sweep(r) ==
  /\ pc[r] = "sweep"
  /\ \E u \in req[r].scan :
       IF u \in Abandoned
       THEN /\ req' = [req EXCEPT ![r].scan = @ \ {u}, ![r].up = u, ![r].left = ents[u]]
            /\ doomed' = doomed \cup {u}
            /\ Go(r, "remove")
       ELSE req' = [req EXCEPT ![r].scan = @ \ {u}] /\ UNCHANGED <<pc, doomed>>
  /\ UNCHANGED <<asset, dirs, ents, received, draft, good, aged, lockVars, countVars>>
  /\ Silent

(* Upload ids are clock readings: a new one has not been used.             *)
Unused == {u \in Ups : answers[u] = {}}

StartUpload(r) ==
  /\ pc[r] = "sweep" /\ req[r].scan = {}
  /\ \/ asset = "right" /\ Answer(r, "present") /\ UNCHANGED <<dirs, ents, aged>>
     \/ /\ asset # "right"
        /\ \E u \in Unused :
             /\ dirs' = dirs \cup {u}
             /\ Fill(u, {"manifest"})
             /\ answers' = [answers EXCEPT ![u] = @ \cup {"started"}]
        /\ pc' = [pc EXCEPT ![r] = "idle"] /\ req' = [req EXCEPT ![r] = NoRequest]
        /\ UNCHANGED <<acked, created, lockVars>>
     \/ /\ asset # "right" /\ Unused = {}   \* the bound on Ups
        /\ Answer(r, "none") /\ UNCHANGED <<dirs, ents, aged>>
  /\ UNCHANGED <<asset, received, draft, good, doomed, countVars>>

(* Abort: a request at work in the folder holds its lock; with the lock    *)
(* free it is let go again at once, before the removal.                    *)
BeginAbort(r, u) ==
  /\ Arrive(r, "abort")
  /\ req' = [req EXCEPT ![r] = [NoRequest EXCEPT !.kind = "abort", !.up = u]]
  /\ Go(r, "abort")
  /\ UNCHANGED lockVars /\ Silent

Outcome(r, a) == IF req[r].owes # "none" THEN req[r].owes ELSE a

ProbeLock(r) ==
  LET u == Upload(r)
  IN /\ pc[r] = "abort"
     /\ \/ u \notin dirs /\ Answer(r, Outcome(r, "aborted")) /\ UNCHANGED <<ents, aged>>
        \/ /\ u \in dirs /\ ~LockFree(u)
           /\ Answer(r, Outcome(r, "locked")) /\ UNCHANGED <<ents, aged>>
        \/ /\ u \in dirs /\ LockFree(u)
           /\ locked' = [locked EXCEPT ![u] = r]
           /\ Fill(u, Files(r) \cup {"lock"})
           /\ Go(r, "probed")
           /\ UNCHANGED <<req, completer>> /\ Silent
     /\ SessionOnly

(* remove_dir_all: what the folder holds when it is listed goes, and what  *)
(* comes later may; then the folder, if it is empty.                       *)
BeginRemoval(r) ==
  /\ pc[r] = "probed"
  /\ Unlock(r)
  /\ req' = [req EXCEPT ![r].left = Files(r)]
  /\ doomed' = doomed \cup ({Upload(r)} \cap dirs)
  /\ Go(r, "remove")
  /\ UNCHANGED <<asset, dirs, ents, received, draft, good, aged, completer, countVars>>
  /\ Silent

RemoveOne(r, e) ==
  LET u == Upload(r)
  IN /\ pc[r] = "remove" /\ e \in Files(r)
     /\ Fill(u, Files(r) \ {e})
     /\ req' = [req EXCEPT ![r].left = @ \ {e}]
     /\ locked' = IF e = "lock" THEN [locked EXCEPT ![u] = Nobody] ELSE locked
     /\ UNCHANGED <<asset, dirs, received, draft, good, doomed, pc, completer, countVars>>
     /\ Silent

Empty(u) == ents[u] = {}

(* The end of a removal.  A sweep goes on with the next folder.            *)
Removed(r, a) ==
  IF req[r].kind = "start"
  THEN /\ req' = [req EXCEPT ![r].up = NoUp, ![r].left = {}]
       /\ Go(r, "sweep")
       /\ UNCHANGED lockVars /\ Silent
  ELSE Answer(r, Outcome(r, a))

(* Mutant: a folder that could not be removed is passed over.              *)
Shrug == "aborted"

(* A request that took the lock after it was probed made a file.           *)
NotEmptied == "locked"

RemoveDir(r) ==
  LET u == Upload(r)
  IN /\ pc[r] = "remove" /\ req[r].left \cap Files(r) = {}
     /\ \/ (u \notin dirs \/ Empty(u))
           /\ dirs' = dirs \ {u} /\ aged' = aged \ {u}
           /\ Removed(r, "aborted")
        \/ u \in dirs /\ ~Empty(u) /\ Removed(r, NotEmptied) /\ UNCHANGED <<dirs, aged>>
     /\ UNCHANGED <<asset, ents, received, draft, good, doomed, countVars>>

--------------------------------------------------------------------------------
(* Around the requests.                                                    *)

(* A client goes away.  A handler that waits - for a body or the key -     *)
(* ends, and one whose blocking work has begun only lets go of the key.    *)
DropWaiting(r) ==
  /\ pc[r] \in {"body", "key"} \/ (pc[r] = "store" /\ req[r].kind = "put")
  /\ pc' = [pc EXCEPT ![r] = "idle"] /\ req' = [req EXCEPT ![r] = NoRequest]
  /\ UNCHANGED lockVars /\ Silent /\ Quiet

DropHandler(r) ==
  /\ completer = r
  /\ completer' = Nobody
  /\ UNCHANGED <<pc, req, locked>> /\ Silent /\ Quiet

(* A folder grows a day old.                                               *)
Age(u) ==
  /\ u \in dirs \ aged /\ ages < MaxAges
  /\ aged' = aged \cup {u} /\ ages' = ages + 1
  /\ UNCHANGED <<asset, dirs, ents, received, draft, good, doomed, lockVars, pc, req,
                 requests, crashes, harms>>
  /\ Silent

(* The stored file is removed (ImportStore) or goes bad on disk.           *)
Harm ==
  /\ harms < MaxHarms /\ harms' = harms + 1
  /\ asset # "absent" /\ asset' \in {"absent", "wrong"}
  /\ UNCHANGED <<sessionVars, lockVars, pc, req, requests, crashes, ages>>
  /\ Silent

(* The server dies; the folders stay.                                      *)
Crash ==
  /\ crashes < MaxCrashes /\ crashes' = crashes + 1
  /\ pc' = [r \in Slots |-> "idle"] /\ req' = [r \in Slots |-> NoRequest]
  /\ locked' = [u \in Ups |-> Nobody] /\ completer' = Nobody
  /\ UNCHANGED <<asset, sessionVars, requests, ages, harms>>
  /\ Silent

Request(r) ==
  \/ BeginStart(r)
  \/ \E b \in Bodies : BeginPut(r, b)
  \/ \E u \in Started :
       \/ \E p \in Parts, b \in Bodies : BeginPart(r, u, p, b)
       \/ BeginComplete(r, u) \/ BeginAbort(r, u)
       \/ \E k \in {"part", "abort"} : NameGone(r, k, u)

Step(r) ==
  \/ LockPart(r) \/ ReadManifest(r) \/ WritePart(r) \/ WriteDraft(r) \/ RenameDraft(r)
  \/ Judge(r) \/ Look(r) \/ Install(r)
  \/ TakeKey(r) \/ LockComplete(r) \/ CheckParts(r) \/ JoinParts(r)
  \/ Sweep(r) \/ StartUpload(r)
  \/ ProbeLock(r) \/ BeginRemoval(r) \/ (\E e \in Names : RemoveOne(r, e)) \/ RemoveDir(r)

Next ==
  \/ \E r \in Slots : Request(r) \/ Step(r) \/ DropWaiting(r) \/ DropHandler(r)
  \/ \E u \in Ups : Age(u)
  \/ Harm \/ Crash

Spec == Init /\ [][Next]_vars

(* A request that has begun goes on: bodies arrive or break off, blocking  *)
(* threads run, and the completion lock serves its waiters in turn.        *)
Fairness == \A r \in Slots : SF_vars(TakeKey(r)) /\ WF_vars(Step(r))

FairSpec == Spec /\ Fairness

--------------------------------------------------------------------------------
(* Correctness.                                                            *)

Requests ==
  [kind : Kinds \cup {"none"}, up : Ups \cup {NoUp}, part : Parts \cup {NoPart},
   right : BOOLEAN, seen : SUBSET Parts, scan : SUBSET Ups, left : SUBSET Names,
   owes : {"none", "created", "present", "mismatch", "notFound", "fault"}]

TypeOK ==
  /\ asset \in {"absent", "right", "wrong"}
  /\ dirs \subseteq Ups /\ aged \subseteq dirs /\ doomed \subseteq Ups
  /\ ents \in [Ups -> SUBSET Names] /\ \A u \in Ups \ dirs : ents[u] = {}
  /\ received \in [Ups -> SUBSET Parts] /\ draft \in [Ups -> SUBSET Parts]
  /\ good \in [Ups -> SUBSET Parts]
  /\ locked \in [Ups -> Slots \cup {Nobody}] /\ completer \in Slots \cup {Nobody}
  /\ pc \in [Slots -> {"idle", "judge", "body", "read", "write", "draft", "rename", "store",
                       "install", "replace", "key", "session", "check", "join", "sweep",
                       "abort", "probed", "remove"}]
  /\ req \in [Slots -> Requests]
  /\ answers \in [Ups \cup {NoUp} ->
                    SUBSET {"started", "ok", "created", "present", "aborted", "notFound",
                            "locked", "missing", "mismatch", "fault", "none"}]
  /\ acked \in [Ups -> SUBSET Parts]
  /\ created \in 0..MaxRequests /\ requests \in 0..MaxRequests
  /\ crashes \in 0..MaxCrashes /\ ages \in 0..MaxAges /\ harms \in 0..MaxHarms

(* An upload never puts wrong bytes under a fingerprint, whatever parts    *)
(* met in its folder and whatever file it found there (install_blob).      *)
OnlyRightBytes == [][asset' = "wrong" => asset = "wrong" \/ Harm]_vars

(* A client told that the file is stored, by whichever request, can rely   *)
(* on it, unless the file was removed or harmed since.                     *)
AnsweredMeansStored ==
  (\E u \in Ups \cup {NoUp} : answers[u] \cap {"created", "present"} # {})
    => asset = "right" \/ harms > 0

(* Of all uploads of one file, in parts or whole, one is told that it made *)
(* it ("this completion made nothing", complete_asset_upload).             *)
CreatedOnce == harms = 0 => created <= 1

(* A part a client was told is stored stays in the manifest and on disk    *)
(* until a removal of the upload begins: uploads of other parts at the     *)
(* same time do not lose it (ManifestLock).                                *)
AckedPartsKept ==
  \A u \in Ups \ doomed : acked[u] \subseteq received[u] \cap ents[u]

(* "Gone" is answered only for an upload whose removal has begun           *)
(* (gone_if_removed, assemble).                                            *)
GoneIsTrue == \A u \in Ups : "notFound" \in answers[u] => u \in doomed

(* An upload that a client was told is aborted leaves nothing, and no      *)
(* request still at work brings it back (abort_upload).                    *)
AbortedIsGone == \A u \in Ups : "aborted" \in answers[u] => u \notin dirs

(* Every request is answered: nothing waits for a folder's lock, and the   *)
(* completion lock is always let go.                                       *)
EveryRequestEnds == \A r \in Slots : pc[r] # "idle" ~> pc[r] = "idle"

--------------------------------------------------------------------------------
(* What the documentation says and the code does not keep; the README      *)
(* names the instances that show it.                                       *)

(* A failure to read or write the files of an upload that is removed is an *)
(* upload that is gone, "not a server that cannot store the file"          *)
(* (gone_if_removed).                                                      *)
NoFault == \A u \in Ups \cup {NoUp} : "fault" \notin answers[u]

(* "So two clients cannot race store_verified on one SHA-256": one         *)
(* completion at a time is storing (keyed_locks.rs).                       *)
OneCompletionStores ==
  \A r, q \in Slots :
    /\ req[r].kind = "complete" /\ pc[r] \in {"store", "install", "replace"}
    /\ req[q].kind = "complete" /\ pc[q] \in {"store", "install", "replace"}
    => r = q

(* "Only a temp left untouched this long is removed" (asset_store.rs): a   *)
(* sweep removes no upload whose manifest is younger than a day.           *)
SweepTakesAbandoned ==
  \A r \in Slots :
    /\ req[r].kind = "start" /\ pc[r] = "remove"
    /\ "manifest" \in ents[Upload(r)]
    => Upload(r) \in aged

===============================================================================
