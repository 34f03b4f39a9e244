---------------------------------- MODULE Pull ----------------------------------
(***************************************************************************)
(* An export to a folder: the Export Runs of the server (exports_api.rs,   *)
(* db/exports.rs) and the client that reads one and writes the folder      *)
(* (crates/libs/pull).                                                     *)
(*                                                                         *)
(* A run lists the messages its scope matches when it is created and hands *)
(* them over page by page, while messages come, are trashed and are        *)
(* deleted.  The client downloads the attachments those messages name,     *)
(* writes a file per conversation, and closes the run.  It may be killed   *)
(* at any step; the next pull into the folder makes a run of its own and   *)
(* skips every attachment whose file is already there.                     *)
(***************************************************************************)
EXTENDS Integers, FiniteSets, FiniteSetsExt

CONSTANTS
  Msgs,         \* messages, numbered in the order an export hands them over
  Later,        \* those that are imported while exports are under way
  InTrash,      \* those in the Trash at first
  Shas, Paths, Parts, Convs,
  ConvOf,       \* the conversation of each message
  ShaOf,        \* the fingerprint of its attachment, or NoSha
  SentPath,     \* the path the server sends for it, or NoPath if that is none or refused
  OwnPath,      \* attachments/{sha256}, for each fingerprint
  PartOf,       \* the temporary name beside each path: its extension becomes part
  Runs,         \* ids of Export Runs, 1 to some number
  Limit,        \* places on a page
  Workers,      \* downloads at the same time
  MaxRetries,   \* extra tries of a request
  MaxPulls, MaxChanges, MaxStops,   \* bounds
  NoSha, NoPath, NoFile, NoRun

ASSUME PullAssumption ==
  /\ Msgs \subseteq Nat /\ IsFiniteSet(Msgs)
  /\ Later \subseteq Msgs /\ InTrash \subseteq Msgs \ Later
  /\ ConvOf \in [Msgs -> Convs] /\ ShaOf \in [Msgs -> Shas \cup {NoSha}]
  /\ SentPath \in [Msgs -> Paths \cup {NoPath}] /\ OwnPath \in [Shas -> Paths]
  /\ PartOf \in [Paths -> Parts]
  /\ NoSha \notin Shas /\ NoPath \notin Paths /\ NoFile \notin Shas /\ "short" \notin Shas
  /\ Runs \subseteq Nat \ {0} /\ NoRun \notin Runs
  /\ Limit \in Nat \ {0} /\ Workers \in Nat \ {0} /\ MaxRetries \in Nat
  /\ {MaxPulls, MaxChanges, MaxStops} \subseteq Nat

VARIABLES
  life,                     \* each message: new, stored, trashed or gone
  blobs,                    \* attachments on the server
  status, listed,           \* each run, and the messages it listed when it was made
  delivered,                \* messages_delivered: how many places its pages reached
  pc, tries, run, offset,   \* the client
  page,                     \* what the server has read for the page asked for
  fetched, cancelled, outcome,
  job, jobTries,            \* each download
  written,                  \* conversations whose files are written
  file, part,               \* attachments in the folder, and files still being written
  doc,                      \* the messages in each conversation file
  handed,                   \* history: what the server answered in each run's pages
  pulls, changes, stops

serverVars == <<life, blobs, status, listed, delivered, handed>>
pagingVars == <<offset, page, fetched>>
jobVars == <<job, jobTries>>
folderVars == <<file, part, doc>>
boundVars == <<pulls, changes, stops>>
memory == <<run, pagingVars, cancelled, jobVars, written>>
vars == <<serverVars, pc, tries, memory, outcome, folderVars, boundVars>>

Stored == {m \in Msgs : life[m] \in {"stored", "trashed"}}
Named == {ShaOf[m] : m \in Stored} \ {NoSha}

Init ==
  /\ life = [m \in Msgs |->
       CASE m \in Later -> "new" [] m \in InTrash -> "trashed" [] OTHER -> "stored"]
  /\ blobs = {ShaOf[m] : m \in Msgs \ Later} \ {NoSha}
  /\ status = [e \in Runs |-> "none"] /\ listed = [e \in Runs |-> {}]
  /\ delivered = [e \in Runs |-> 0] /\ handed = [e \in Runs |-> {}]
  /\ pc = "idle" /\ tries = 0 /\ run = NoRun /\ offset = 0 /\ page = {}
  /\ fetched = {} /\ cancelled = FALSE /\ outcome = "none"
  /\ job = [s \in Shas |-> "none"] /\ jobTries = [s \in Shas |-> 0]
  /\ written = {}
  /\ file = [p \in Paths |-> NoFile] /\ part = [q \in Parts |-> NoFile]
  /\ doc = [c \in Convs |-> {}]
  /\ pulls = 0 /\ changes = 0 /\ stops = 0

--------------------------------------------------------------------------------
(* Requests are tried again after a transient failure.                     *)

(* Mutant: as often as it takes.                                           *)
TriesForEver == TRUE

MayRetry == tries < MaxRetries

(* A pull that fails closes its run, if it has one.  A close that fails is *)
(* a warning: the outcome stands.                                          *)
EndPull ==
  /\ pc' = "idle" /\ tries' = 0 /\ outcome' = "none"
  /\ run' = NoRun /\ offset' = 0 /\ page' = {} /\ fetched' = {}
  /\ cancelled' = FALSE /\ written' = {}
  /\ job' = [s \in Shas |-> "none"] /\ jobTries' = [s \in Shas |-> 0]

GiveUp ==
  IF pc \in {"create", "close"}
  THEN EndPull
  ELSE pc' = "close" /\ tries' = 0 /\ outcome' = "failed" /\ page' = {}
       /\ UNCHANGED <<run, offset, fetched, cancelled, written, jobVars>>

Retry(p) ==
  IF MayRetry
  THEN tries' = (tries + 1) % (MaxRetries + 1) /\ pc' = p /\ page' = {}
       /\ UNCHANGED <<outcome, run, offset, fetched, cancelled, written, jobVars>>
  ELSE GiveUp

Go(p) == pc' = p /\ tries' = 0

(* A request that does not reach the server, or whose connection breaks,   *)
(* and one that is refused for good.                                       *)
Asking == pc \in {"create", "ask", "close"}

RequestFails ==
  /\ Asking /\ Retry(pc)
  /\ UNCHANGED <<serverVars, folderVars, boundVars>>

RequestRefused ==
  /\ Asking /\ GiveUp
  /\ UNCHANGED <<serverVars, folderVars, boundVars>>

(* run, login, prepare_out_dir: what is in the folder stays.               *)
StartPull ==
  /\ pc = "idle" /\ pulls < MaxPulls /\ pulls' = pulls + 1
  /\ Go("create")
  /\ UNCHANGED <<serverVars, run, pagingVars, cancelled, outcome, jobVars, written,
                 folderVars, changes, stops>>

(* Nothing is recorded for a run the caller already gave up on.            *)
StopBeforeCreate ==
  /\ pc = "create" /\ tries = 0 /\ cancelled
  /\ GiveUp
  /\ UNCHANGED <<serverVars, folderVars, boundVars>>

(* start_export_run, one transaction.  The scope is everything that is not *)
(* in the Trash.  When the answer is lost the next try makes another run.  *)
Unused == {e \in Runs : status[e] = "none"}

CreateRun ==
  /\ pc = "create" /\ Unused # {} /\ (tries > 0 \/ ~cancelled)
  /\ LET e == Min(Unused) IN
       /\ status' = [status EXCEPT ![e] = "running"]
       /\ listed' = [listed EXCEPT ![e] = {m \in Msgs : life[m] = "stored"}]
       /\ \/ /\ run' = e /\ Go("page")
             /\ UNCHANGED <<pagingVars, cancelled, outcome, jobVars, written>>
          \/ Retry("create")
  /\ UNCHANGED <<life, blobs, delivered, handed, folderVars, boundVars>>

--------------------------------------------------------------------------------
(* Paging.                                                                 *)

Total(e) == Cardinality(listed[e])

(* A message's place in a run is fixed; when it is deleted its place stays *)
(* empty.                                                                  *)
Place(e, m) == Cardinality({k \in listed[e] : k <= m})
OnPage(e, o) == {m \in listed[e] : o < Place(e, m) /\ Place(e, m) <= o + Limit}

(* The cancel flag is looked at once a page, not once a try.               *)
NextPage ==
  /\ pc = "page"
  /\ IF cancelled THEN GiveUp ELSE Go("ask") /\ UNCHANGED <<memory, outcome>>
  /\ UNCHANGED <<serverVars, folderVars, boundVars>>

(* Mutants: what a page reads, and whether it is counted, whatever became  *)
(* of the run.                                                             *)
AnyRun(e) == TRUE

StillRunning(e) == status[e] = "running"

(* running_export, before the page is read.                                *)
CheckRunning ==
  /\ pc = "ask"
  /\ IF status[run] = "running"
     THEN pc' = "read" /\ UNCHANGED <<tries, memory, outcome>>
     ELSE GiveUp
  /\ UNCHANGED <<serverVars, folderVars, boundVars>>

(* export_messages.  A run that was closed meanwhile has no list any more. *)
ReadPage ==
  /\ pc = "read" /\ pc' = "record"
  /\ page' = IF status[run] = "running" THEN OnPage(run, offset) \cap Stored ELSE {}
  /\ UNCHANGED <<serverVars, tries, run, offset, fetched, cancelled, outcome,
                 jobVars, written, folderVars, boundVars>>

(* Mutant: a page that is not full is the last one.                        *)
UntilShort(e, o) == o + Limit < Total(e) /\ Cardinality(page) = Limit

(* next_offset: the walk steps by the limit and ends at the run's total.   *)
MorePages(e, o) == o + Limit < Total(e)

Reached(e, o) == Min({o + Limit, Total(e)})

(* record_delivered, and the answer, which may be lost.                    *)
HandOver ==
  /\ pc = "record" /\ StillRunning(run)
  /\ delivered' = [delivered EXCEPT
       ![run] = IF status[run] = "running" THEN Max({@, Reached(run, offset)}) ELSE @]
  /\ handed' = [handed EXCEPT ![run] = @ \cup page]
  /\ \/ /\ fetched' = fetched \cup page /\ page' = {}
        /\ IF MorePages(run, offset)
           THEN offset' = offset + Limit /\ Go("page")
           ELSE offset' = 0 /\ Go("plan")
        /\ UNCHANGED <<run, cancelled, outcome, jobVars, written>>
     \/ Retry("ask")
  /\ UNCHANGED <<life, blobs, status, listed, folderVars, boundVars>>

ClosedMeanwhile ==
  /\ pc = "record" /\ ~StillRunning(run) /\ GiveUp
  /\ UNCHANGED <<serverVars, folderVars, boundVars>>

--------------------------------------------------------------------------------
(* Attachments.                                                            *)

(* export_path: a path that would leave the folder is not used.            *)
Rel(m) == IF SentPath[m] # NoPath THEN SentPath[m] ELSE OwnPath[ShaOf[m]]

(* note_asset_refs: the first message with a fingerprint decides where the *)
(* file is downloaded to; the other paths get it from there.               *)
With(s) == {m \in fetched : ShaOf[m] = s}
Mentioned == {s \in Shas : With(s) # {}}
First(s) == Rel(Min(With(s)))
Others(s) == {Rel(m) : m \in With(s)} \ {First(s)}

IsFile(p) == file[p] # NoFile

(* assets_needing_download and the list of jobs.  Whether the journal      *)
(* names the fingerprint makes no difference: a file that is there is not  *)
(* fetched, one that is not there is.                                      *)
PlanJobs ==
  /\ pc = "plan"
  /\ Go("download")
  /\ job' = [s \in Shas |->
       IF s \in Mentioned /\ ~IsFile(First(s)) THEN "todo" ELSE "none"]
  /\ UNCHANGED <<serverVars, run, pagingVars, cancelled, outcome, jobTries,
                 written, folderVars, boundVars>>

Busy == {s \in Shas : job[s] \in {"get", "got"}}

JobStep(s, from, to) ==
  /\ pc = "download" /\ job[s] = from
  /\ job' = [job EXCEPT ![s] = to]
  /\ UNCHANGED <<serverVars, pc, tries, run, pagingVars, cancelled, outcome,
                 written, doc, boundVars>>

TakeJob(s) ==
  /\ Cardinality(Busy) < Workers
  /\ JobStep(s, "todo", IF cancelled THEN "failed" ELSE "get")
  /\ UNCHANGED <<jobTries, file, part>>

(* download_asset: the bytes are hashed as they come in, and go to a file  *)
(* of another name.                                                        *)
Get(s) ==
  /\ s \in blobs
  /\ JobStep(s, "get", "got")
  /\ part' = [part EXCEPT ![PartOf[First(s)]] = s]
  /\ UNCHANGED <<jobTries, file>>

(* What was begun of the file is removed.                                  *)
TidyUp(s) == part' \in {part, [part EXCEPT ![PartOf[First(s)]] = NoFile]}

GetBreaks(s) ==
  /\ JobStep(s, "get", IF jobTries[s] < MaxRetries THEN "get" ELSE "failed")
  /\ jobTries' = [jobTries EXCEPT ![s] = (@ + 1) % (MaxRetries + 1)]
  /\ TidyUp(s) /\ UNCHANGED file

(* Not there any more, or not the bytes that were asked for.               *)
GetRefused(s) ==
  /\ JobStep(s, "get", "failed")
  /\ TidyUp(s) /\ UNCHANGED <<jobTries, file>>

(* rename_into_place.  It fails for good when the .part file is not there. *)
Rename(s) ==
  LET q == PartOf[First(s)] IN
  /\ JobStep(s, "got", IF part[q] = NoFile THEN "failed" ELSE "done")
  /\ file' = IF part[q] = NoFile THEN file ELSE [file EXCEPT ![First(s)] = part[q]]
  /\ part' = [part EXCEPT ![q] = NoFile]
  /\ UNCHANGED jobTries

JobsEnd ==
  /\ pc = "download" /\ \A s \in Shas : job[s] \in {"none", "done", "failed"}
  /\ IF \E s \in Shas : job[s] = "failed" THEN GiveUp
     ELSE Go("place") /\ UNCHANGED <<memory, outcome>>
  /\ UNCHANGED <<serverVars, folderVars, boundVars>>

(* place_other_paths: a hard link, or a copy made beside it and renamed.   *)
ToPlace(s) == {p \in Others(s) : ~IsFile(p)}

PlaceOther ==
  /\ pc = "place"
  /\ \E s \in Mentioned : \E p \in ToPlace(s) :
       file' = [file EXCEPT ![p] = file[First(s)]]
  /\ UNCHANGED <<serverVars, pc, tries, run, pagingVars, cancelled, outcome,
                 jobVars, written, part, doc, boundVars>>

Placed ==
  /\ pc = "place" /\ (\A s \in Mentioned : ToPlace(s) = {}) /\ Go("docs")
  /\ UNCHANGED <<serverVars, run, pagingVars, cancelled, outcome, jobVars,
                 written, folderVars, boundVars>>

--------------------------------------------------------------------------------
(* Conversation files, each written beside its name and renamed.           *)

ToWrite == {ConvOf[m] : m \in fetched} \ written

WriteConversation ==
  /\ pc = "docs"
  /\ \E c \in ToWrite :
       /\ doc' = [doc EXCEPT ![c] = {m \in fetched : ConvOf[m] = c}]
       /\ written' = written \cup {c}
  /\ UNCHANGED <<serverVars, pc, tries, run, pagingVars, cancelled, outcome,
                 jobVars, file, part, boundVars>>

DiskFails ==
  /\ pc \in {"place", "docs"} /\ GiveUp
  /\ UNCHANGED <<serverVars, folderVars, boundVars>>

Finish ==
  /\ pc = "docs" /\ ToWrite = {}
  /\ Go("close") /\ outcome' = "ok"
  /\ UNCHANGED <<serverVars, run, pagingVars, cancelled, jobVars, written,
                 folderVars, boundVars>>

--------------------------------------------------------------------------------
(* Closing.  Check and write are one statement: the first closer wins.     *)

CloseAs == IF outcome = "ok" THEN "completed" ELSE "cancelled"

CloseRun ==
  /\ pc = "close" /\ status[run] = "running"
  /\ status' = [status EXCEPT ![run] = CloseAs]
  /\ EndPull \/ Retry("close")
  /\ UNCHANGED <<life, blobs, listed, delivered, handed, folderVars, boundVars>>

--------------------------------------------------------------------------------
(* What else happens: to the account, to the run, to the process and to    *)
(* the folder.                                                             *)

Change == changes < MaxChanges /\ changes' = changes + 1
Stop == stops < MaxStops /\ stops' = stops + 1

clientVars == <<tries, run, pagingVars, outcome, jobVars, written>>

(* An import, a move to the Trash and back, a permanent delete.            *)
Becomes(m, from, to) ==
  /\ Change /\ life[m] \in from /\ life' = [life EXCEPT ![m] = to]
  /\ UNCHANGED <<status, listed, delivered, handed, pc, clientVars, cancelled,
                 folderVars, pulls, stops>>

Import(m) == Becomes(m, {"new"}, "stored") /\ blobs' = blobs \cup ({ShaOf[m]} \ {NoSha})
Trash(m) == Becomes(m, {"stored"}, "trashed") /\ UNCHANGED blobs
Restore(m) == Becomes(m, {"trashed"}, "stored") /\ UNCHANGED blobs
Delete(m) == Becomes(m, {"stored", "trashed"}, "gone") /\ UNCHANGED blobs

RemoveBlob(s) ==
  /\ s \in blobs \ Named /\ blobs' = blobs \ {s}
  /\ UNCHANGED <<life, status, listed, delivered, handed, pc, clientVars, cancelled,
                 folderVars, boundVars>>

(* Another client of the account closes the run.                           *)
CloseElsewhere(e, s) ==
  /\ Stop /\ status[e] = "running" /\ status' = [status EXCEPT ![e] = s]
  /\ UNCHANGED <<life, blobs, listed, delivered, handed, pc, clientVars, cancelled,
                 folderVars, pulls, changes>>

Cancel ==
  /\ Stop /\ pc # "idle" /\ ~cancelled /\ cancelled' = TRUE
  /\ UNCHANGED <<serverVars, pc, clientVars, folderVars, pulls, changes>>

(* The run stays as it is.  A .part file may be cut short.                 *)
Crash ==
  /\ Stop /\ pc # "idle" /\ EndPull
  /\ part' = [q \in Parts |->
       IF \E s \in Shas : job[s] = "get" /\ PartOf[First(s)] = q THEN "short" ELSE part[q]]
  /\ UNCHANGED <<serverVars, file, doc, pulls, changes>>

(* Between pulls the person may remove a file.                             *)
LoseFile(p) ==
  /\ Stop /\ pc = "idle" /\ IsFile(p) /\ file' = [file EXCEPT ![p] = NoFile]
  /\ UNCHANGED <<serverVars, pc, clientVars, cancelled, part, doc, pulls, changes>>

--------------------------------------------------------------------------------
Step ==
  \/ StopBeforeCreate \/ CreateRun \/ RequestFails \/ RequestRefused
  \/ NextPage \/ CheckRunning \/ ReadPage \/ HandOver \/ ClosedMeanwhile
  \/ PlanJobs \/ JobsEnd \/ PlaceOther \/ Placed
  \/ \E s \in Shas :
       TakeJob(s) \/ Get(s) \/ GetBreaks(s) \/ GetRefused(s) \/ Rename(s)
  \/ WriteConversation \/ DiskFails \/ Finish \/ CloseRun

Outside ==
  \/ \E m \in Msgs : Import(m) \/ Trash(m) \/ Restore(m) \/ Delete(m)
  \/ \E s \in Shas : RemoveBlob(s)
  \/ \E e \in Runs, s \in {"completed", "cancelled"} : CloseElsewhere(e, s)
  \/ Cancel \/ Crash
  \/ \E p \in Paths : LoseFile(p)

Next == StartPull \/ Step \/ Outside

Spec == Init /\ [][Next]_vars

(* The client's threads run on, and its requests have timeouts.            *)
FairSpec == Spec /\ WF_vars(Step)

--------------------------------------------------------------------------------
TypeOK ==
  /\ life \in [Msgs -> {"new", "stored", "trashed", "gone"}] /\ blobs \subseteq Shas
  /\ status \in [Runs -> {"none", "running", "completed", "cancelled"}]
  /\ listed \in [Runs -> SUBSET Msgs] /\ handed \in [Runs -> SUBSET Msgs]
  /\ delivered \in [Runs -> Nat]
  /\ pc \in {"idle", "create", "page", "ask", "read", "record", "plan", "download",
             "place", "docs", "close"}
  /\ tries \in 0..MaxRetries /\ run \in Runs \cup {NoRun} /\ offset \in Nat
  /\ page \subseteq Msgs /\ fetched \subseteq Msgs
  /\ cancelled \in BOOLEAN /\ outcome \in {"none", "ok", "failed"}
  /\ job \in [Shas -> {"none", "todo", "get", "got", "done", "failed"}]
  /\ jobTries \in [Shas -> 0..MaxRetries] /\ written \subseteq Convs
  /\ file \in [Paths -> Shas \cup {NoFile, "short"}]
  /\ part \in [Parts -> Shas \cup {NoFile, "short"}]
  /\ doc \in [Convs -> SUBSET Msgs]

(* A pull that reports success has written every message that its run      *)
(* listed and that is not deleted since, none that it did not list, and    *)
(* the right bytes at every path those messages name - whatever was        *)
(* imported, trashed or deleted between its pages, and whatever earlier    *)
(* pulls left in the folder (run.rs, export_into_folder).                  *)
OkMeansWhole ==
  outcome = "ok" /\ pc = "close" =>
    /\ \A m \in listed[run] : life[m] # "gone" =>
         /\ m \in doc[ConvOf[m]]
         /\ ShaOf[m] # NoSha => file[Rel(m)] = ShaOf[m]
    /\ \A c \in written : doc[c] \subseteq listed[run]

(* There is no unrecorded export: whatever a run's pages handed over was   *)
(* listed when it was made and lies within the places its record says were *)
(* read, also when it is closed while a page is read (exports_api.rs,      *)
(* list_export_messages).                                                  *)
NothingUnrecorded ==
  \A e \in Runs : \A m \in handed[e] : m \in listed[e] /\ Place(e, m) <= delivered[e]

(* Every pull comes to an end, whatever fails and how often (http,         *)
(* with_retries).                                                          *)
PullEnds == pc # "idle" ~> pc = "idle"

================================================================================
