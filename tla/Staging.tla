-------------------------------- MODULE Staging --------------------------------
(***************************************************************************)
(* A staging folder: the write queue (write_queue.rs) stages attachments   *)
(* and writes conversation files from several threads; the media pass      *)
(* (transcode.rs) then converts the originals one by one, patching the     *)
(* files that name them.  A run may be cancelled, fail or be killed        *)
(* anywhere, and the next one resumes from what the folder holds: nothing  *)
(* else is remembered.                                                     *)
(*                                                                         *)
(* Staged names come from the bytes, so documents that carry the same      *)
(* attachment name one file.  An original stands for such a file; its      *)
(* derivative has the same stem with "-mv".                                *)
(***************************************************************************)
EXTENDS Integers, FiniteSets

CONSTANTS
  NDocs,          \* conversation files, in the order of their names
  Originals,
  AttsOf,         \* the originals each document names
  Workers,
  VerdictsOf,     \* what the media step can make of each original
  DiskFails,      \* whether a read, write or rename may fail
  FfmpegFails,    \* whether ffmpeg may fail on a file it could convert
  MaxRuns, MaxStops,
  NoDoc, NoFile, NoOriginal

Docs == 1..NDocs
Verdicts == {"small", "large", "declined", "untouched"}

ASSUME StagingAssumption ==
  /\ NDocs \in Nat /\ MaxRuns \in Nat /\ MaxStops \in Nat
  /\ AttsOf \in [Docs -> SUBSET Originals]
  /\ VerdictsOf \in [Originals -> SUBSET Verdicts]
  /\ DiskFails \in BOOLEAN /\ FfmpegFails \in BOOLEAN
  /\ NoDoc \notin Docs /\ NoOriginal \notin Originals

(* Where an attachment's record points, and why it may point nowhere.      *)
Records == [at : {"nowhere", "original", "derivative"},
            reason : {"none", "file_missing", "too_large", "convert_failed"}]

(* A document is a function from its originals to records, or NoFile.      *)
ASSUME NoFileIsNoDocument == \A S \in SUBSET Originals : NoFile \notin [S -> Records]

VARIABLES
  verdict,        \* of each original: small enough, too large, declined, untouched
  \* on disk
  conv,           \* conversation files: the record of each attachment, or NoFile
  orig,           \* staged originals: "absent", "partial" or "whole"
  deriv,          \* committed derivatives
  note,           \* too_large notes: "none", "fresh" (not yet on disk) or "kept"
  temp,           \* temporary files of the copies being written
  \* in memory
  phase,          \* "idle", "drain", "media", "done" or "failed"
  queue, work, abort, cancel, failures,
  media,          \* the media pass: its document, what is left of it, its step
  runs, stops,    \* how many of either there have been
  powerCut        \* whether the power failed

disk == <<conv, orig, deriv, note>>
bounds == <<runs, stops, powerCut>>
vars == <<verdict, disk, temp, phase, queue, work, abort, cancel, failures, media, bounds>>

At(where, why) == [at |-> where, reason |-> why]

(* A writer: its document, what it does next, the attachments that are not *)
(* staged yet, those that could not be, and the one it copies.             *)
Unit(d, step, todo, lost, cur) ==
  [doc |-> d, step |-> step, todo |-> todo, lost |-> lost, cur |-> cur]
Idle == Unit(NoDoc, "idle", {}, {}, NoOriginal)
Gone == Unit(NoDoc, "gone", {}, {}, NoOriginal)

(* The media pass: its document, its next step, the items left and at hand.*)
Pass(d, step, todo, cur) == [doc |-> d, step |-> step, todo |-> todo, cur |-> cur]
Listing(d) == Pass(d, "doc", {}, NoOriginal)

(* next_clone_temp_name: a counter tells concurrent copies apart.          *)
TempName(w, o) == <<w, o>>

TempNames == Workers \X Originals
NoTemps == [n \in TempNames |-> "absent"]

Init ==
  /\ verdict \in {v \in [Originals -> Verdicts] : \A o \in Originals : v[o] \in VerdictsOf[o]}
  /\ conv = [d \in Docs |-> NoFile]
  /\ orig = [o \in Originals |-> "absent"]
  /\ deriv = {}
  /\ note = [o \in Originals |-> "none"]
  /\ temp = NoTemps
  /\ phase = "idle" /\ queue = {} /\ work = [w \in Workers |-> Gone]
  /\ abort = FALSE /\ cancel = FALSE /\ failures = FALSE /\ media = Listing(NoDoc)
  /\ runs = 0 /\ stops = 0 /\ powerCut = FALSE

Running == phase \in {"drain", "media"}

(* A run that resumes: all conversations are queued, in the order of their *)
(* names, and the writers start.                                           *)
Start ==
  /\ ~Running /\ runs < MaxRuns
  /\ phase' = "drain" /\ queue' = Docs
  /\ work' = [w \in Workers |-> Idle]
  /\ temp' = NoTemps
  /\ abort' = FALSE /\ cancel' = FALSE /\ failures' = FALSE /\ media' = Listing(NoDoc)
  /\ runs' = runs + 1
  /\ UNCHANGED <<verdict, disk, stops, powerCut>>

Cancel ==
  /\ Running /\ ~cancel /\ cancel' = TRUE
  /\ UNCHANGED <<verdict, disk, temp, phase, queue, work, abort, failures, media, bounds>>

--------------------------------------------------------------------------------
(* The write queue.                                                        *)

DrainFrame == UNCHANGED <<verdict, deriv, note, phase, cancel, failures, media, bounds>>

Becomes(w, r) == work' = [work EXCEPT ![w] = r]

(* Mutant: a writer that fails stays for the others to join.               *)
FailKeepsThread(w) == UNCHANGED work

FailThread(w) == Becomes(w, Gone)

(* The first error stops the pool.                                         *)
Fail(w) == abort' = TRUE /\ FailThread(w)

(* Another unit, unless the pool is stopping.                              *)
CheckAbort(w) ==
  /\ work[w].step = "idle"
  /\ Becomes(w, IF abort THEN Gone ELSE Unit(NoDoc, "popping", {}, {}, NoOriginal))
  /\ UNCHANGED <<conv, orig, temp, queue, abort>> /\ DrainFrame

Pop(w) ==
  /\ work[w].step = "popping"
  /\ \/ queue = {} /\ Becomes(w, Gone) /\ UNCHANGED queue
     \/ \E d \in queue :
          /\ \A e \in queue : d <= e
          /\ queue' = queue \ {d}
          /\ Becomes(w, Unit(d, "unit", {}, {}, NoOriginal))
  /\ UNCHANGED <<conv, orig, temp, abort>> /\ DrainFrame

(* is_complete_file: a file that is there was written to its end.          *)
Complete(d) == conv[d] # NoFile

(* write_one_unit: a conversation already written is skipped.              *)
StartUnit(w) ==
  LET d == work[w].doc IN
  /\ work[w].step = "unit"
  /\ IF cancel THEN Fail(w)
     ELSE /\ Becomes(w, IF Complete(d) THEN Idle
                        ELSE Unit(d, "staging", AttsOf[d], {}, NoOriginal))
          /\ UNCHANGED abort
  /\ UNCHANGED <<conv, orig, temp, queue>> /\ DrainFrame

StagedOne(w, o, lost) ==
  Becomes(w, Unit(work[w].doc, "staging", work[w].todo \ {o}, lost, NoOriginal))

(* An attachment that cannot be read or copied is recorded as missing.     *)
Miss(w, o) == StagedOne(w, o, work[w].lost \cup {o})

(* run_attachment_jobs: the next attachment is read and its copy begun.    *)
Stage(w) ==
  /\ work[w].step = "staging" /\ work[w].todo # {}
  /\ IF cancel THEN Fail(w) /\ UNCHANGED temp
     ELSE /\ UNCHANGED abort
          /\ \E o \in work[w].todo :
               \/ /\ temp' = [temp EXCEPT ![TempName(w, o)] = "partial"]
                  /\ Becomes(w, Unit(work[w].doc, "copying", work[w].todo, work[w].lost, o))
               \/ DiskFails /\ Miss(w, o) /\ UNCHANGED temp
  /\ UNCHANGED <<conv, orig, queue>> /\ DrainFrame

(* write_and_sync: the copy is written and synced, or fails and is removed.*)
Copy(w) ==
  LET o == work[w].cur IN
  /\ work[w].step = "copying"
  /\ \/ /\ temp' = [temp EXCEPT ![TempName(w, o)] = IF @ = "absent" THEN @ ELSE "whole"]
        /\ Becomes(w, Unit(work[w].doc, "renaming", work[w].todo, work[w].lost, o))
     \/ DiskFails /\ temp' = [temp EXCEPT ![TempName(w, o)] = "absent"] /\ Miss(w, o)
  /\ UNCHANGED <<conv, orig, queue, abort>> /\ DrainFrame

(* rename_synced: over an earlier copy of the same bytes, if there is one. *)
(* A sync of the folder that fails after the rename counts as a failure,   *)
(* with the copy in its place.                                             *)
Rename(w) ==
  LET o == work[w].cur
      n == TempName(w, o)
      placed == [orig EXCEPT ![o] = temp[n]] IN
  /\ work[w].step = "renaming"
  /\ \/ temp[n] # "absent" /\ orig' = placed /\ StagedOne(w, o, work[w].lost)
     \/ temp[n] # "absent" /\ DiskFails /\ orig' = placed /\ Miss(w, o)
     \/ (temp[n] = "absent" \/ DiskFails) /\ UNCHANGED orig /\ Miss(w, o)
  /\ temp' = [temp EXCEPT ![n] = "absent"]
  /\ UNCHANGED <<conv, queue, abort>> /\ DrainFrame

StagedDoc(d, lost) ==
  [o \in AttsOf[d] |-> IF o \in lost THEN At("nowhere", "file_missing")
                       ELSE At("original", "none")]

(* The conversation file comes last, and vouches for what it names.        *)
WriteConversation(w) ==
  /\ work[w].step = "staging" /\ work[w].todo = {}
  /\ \/ /\ conv' = [conv EXCEPT ![work[w].doc] = StagedDoc(work[w].doc, work[w].lost)]
        /\ Becomes(w, Idle) /\ UNCHANGED abort
     \/ DiskFails /\ Fail(w) /\ UNCHANGED conv
  /\ UNCHANGED <<orig, temp, queue>> /\ DrainFrame

(* All writers have ended: an error ends the run, else the media pass is   *)
(* next.                                                                   *)
Join ==
  /\ phase = "drain" /\ \A w \in Workers : work[w].step = "gone"
  /\ phase' = IF abort THEN "failed" ELSE "media"
  /\ media' = Listing(IF NDocs = 0 THEN NoDoc ELSE 1)
  /\ UNCHANGED <<verdict, disk, temp, queue, work, abort, cancel, failures, bounds>>

Writer(w) ==
  \/ CheckAbort(w) \/ Pop(w) \/ StartUnit(w)
  \/ Stage(w) \/ Copy(w) \/ Rename(w) \/ WriteConversation(w)

--------------------------------------------------------------------------------
(* The media pass.                                                         *)

MediaFrame == UNCHANGED <<verdict, temp, queue, work, abort, cancel, bounds>>

(* derivative_name: whether the media step touches a file of this kind.    *)
Wanted(o) == verdict[o] # "untouched"

There(o) == orig[o] # "absent"
NamesOriginal(d, o) == conv[d][o].at = "original"
NamesMissingDerivative(d, o) == conv[d][o].at = "derivative" /\ o \notin deriv

(* What pending_in finds to do for a recorded path: nothing, or one of     *)
(* these.  A missing file the media step would not touch is left alone.    *)
Transcodes(d, o) == NamesOriginal(d, o) /\ There(o) /\ Wanted(o)
Heals(d, o) == NamesMissingDerivative(d, o) /\ There(o) /\ Wanted(o)
Taken(d, o) == NamesOriginal(d, o) /\ ~There(o) /\ Wanted(o)
Repoints(d, o) == Taken(d, o) /\ o \in deriv
DroppedTooLarge(d, o) == Taken(d, o) /\ o \notin deriv /\ note[o] # "none"
Unrecoverable(d, o) ==
  \/ NamesMissingDerivative(d, o) /\ ~Heals(d, o)
  \/ Taken(d, o) /\ o \notin deriv /\ note[o] = "none"

(* Mutant: only originals that are on disk are work.                       *)
PendingOriginals(d) == {o \in AttsOf[d] : Transcodes(d, o)}

Pending(d) ==
  {o \in AttsOf[d] : \/ Transcodes(d, o) \/ Heals(d, o)
                     \/ Repoints(d, o) \/ DroppedTooLarge(d, o) \/ Unrecoverable(d, o)}

(* patch_all_matching and the write of the document.                       *)
Patch(d, o, r) == conv' = [conv EXCEPT ![d][o] = r]

(* A document that is there is read and its work listed.                   *)
OpenDocument ==
  LET d == media.doc IN
  /\ phase = "media" /\ media.step = "doc" /\ d \in Docs
  /\ IF cancel THEN phase' = "failed" /\ UNCHANGED media
     ELSE /\ media' = Pass(d, "items", IF conv[d] = NoFile THEN {} ELSE Pending(d), NoOriginal)
          /\ UNCHANGED phase
  /\ UNCHANGED <<disk, failures>> /\ MediaFrame

NextDocument ==
  /\ phase = "media" /\ media.step = "items" /\ media.todo = {}
  /\ media' = Listing(IF media.doc = NDocs THEN NoDoc ELSE media.doc + 1)
  /\ UNCHANGED <<disk, phase, failures>> /\ MediaFrame

PassDone ==
  /\ phase = "media" /\ media.doc = NoDoc
  /\ phase' = "done"
  /\ UNCHANGED <<disk, failures, media>> /\ MediaFrame

AtStep(step) == phase = "media" /\ media.step = step /\ UNCHANGED phase
ItemDone == media' = Pass(media.doc, "items", media.todo \ {media.cur}, NoOriginal)
GoTo(step) == media' = Pass(media.doc, step, media.todo, media.cur)

(* The next item, unless the run was cancelled.                            *)
NextItem ==
  /\ phase = "media" /\ media.step = "items" /\ media.todo # {}
  /\ IF cancel THEN phase' = "failed" /\ UNCHANGED media
     ELSE /\ \E o \in media.todo : media' = Pass(media.doc, "item", media.todo, o)
          /\ UNCHANGED phase
  /\ UNCHANGED <<disk, failures>> /\ MediaFrame

(* apply_repoint, apply_too_large, apply_unrecoverable.                    *)
Settle ==
  LET d == media.doc
      o == media.cur IN
  /\ AtStep("item")
  /\ \/ Repoints(d, o) /\ Patch(d, o, At("derivative", "none"))
     \/ DroppedTooLarge(d, o) /\ Patch(d, o, At("nowhere", "too_large"))
     \/ Unrecoverable(d, o) /\ Patch(d, o, At("nowhere", "file_missing"))
  /\ ItemDone
  /\ UNCHANGED <<orig, deriv, note, failures>> /\ MediaFrame

ToEncode == Transcodes(media.doc, media.cur) \/ Heals(media.doc, media.cur)

(* ffmpeg failed: the record points at the original, also after a heal.    *)
AfterFailure == At("original", "convert_failed")

EncodeFails ==
  /\ AtStep("item") /\ ToEncode /\ FfmpegFails
  /\ Patch(media.doc, media.cur, AfterFailure)
  /\ failures' = TRUE /\ ItemDone
  /\ UNCHANGED <<orig, deriv, note>> /\ MediaFrame

(* The media step leaves the file as it is; a heal points back at it.      *)
EncodeDeclined ==
  LET d == media.doc
      o == media.cur IN
  /\ AtStep("item") /\ ToEncode /\ verdict[o] = "declined"
  /\ IF Heals(d, o) THEN Patch(d, o, At("original", "none")) ELSE UNCHANGED conv
  /\ ItemDone
  /\ UNCHANGED <<orig, deriv, note, failures>> /\ MediaFrame

Encode ==
  /\ AtStep("item") /\ ToEncode /\ verdict[media.cur] \in {"small", "large"}
  /\ GoTo(verdict[media.cur])
  /\ UNCHANGED <<disk, failures>> /\ MediaFrame

(* Over the limit: the note, the record, and only then the original goes.  *)
WriteNote ==
  /\ AtStep("large")
  /\ note' = [note EXCEPT ![media.cur] = "fresh"]
  /\ GoTo("noted")
  /\ UNCHANGED <<conv, orig, deriv, failures>> /\ MediaFrame

PatchTooLarge ==
  /\ AtStep("noted")
  /\ Patch(media.doc, media.cur, At("nowhere", "too_large"))
  /\ GoTo("dropping")
  /\ UNCHANGED <<orig, deriv, note, failures>> /\ MediaFrame

(* A file that cannot be removed stays.                                    *)
RemoveOriginal == orig' = [orig EXCEPT ![media.cur] = "absent"] \/ UNCHANGED orig

DropTooLarge ==
  /\ AtStep("dropping")
  /\ RemoveOriginal
  /\ ItemDone
  /\ UNCHANGED <<conv, deriv, note, failures>> /\ MediaFrame

(* Else the record, the rename of the derivative, and the original last.   *)
PatchConverted ==
  /\ AtStep("small")
  /\ Patch(media.doc, media.cur, At("derivative", "none"))
  /\ GoTo("patched")
  /\ UNCHANGED <<orig, deriv, note, failures>> /\ MediaFrame

(* Mutant: the original goes before the derivative is committed.           *)
OriginalFirst(o) == UNCHANGED deriv /\ orig' = [orig EXCEPT ![o] = "absent"]

CommitRename(o) == deriv' = deriv \cup {o} /\ UNCHANGED orig

Commit ==
  /\ AtStep("patched")
  /\ CommitRename(media.cur)
  /\ GoTo("committed")
  /\ UNCHANGED <<conv, note, failures>> /\ MediaFrame

DropConverted ==
  /\ AtStep("committed")
  /\ RemoveOriginal
  /\ GoTo("cleaning")
  /\ UNCHANGED <<conv, deriv, note, failures>> /\ MediaFrame

(* A note of an earlier run no longer describes the file.                  *)
DropNote ==
  /\ AtStep("cleaning")
  /\ note' = [note EXCEPT ![media.cur] = "none"] \/ UNCHANGED note
  /\ ItemDone
  /\ UNCHANGED <<conv, orig, deriv, failures>> /\ MediaFrame

(* A read, write or rename that fails ends the pass, as missing tools do.  *)
PassFails ==
  /\ phase = "media" /\ DiskFails /\ media.doc # NoDoc
  /\ media.step \in {"doc", "item", "large", "noted", "small", "patched"}
  /\ phase' = "failed"
  /\ UNCHANGED <<disk, failures, media>> /\ MediaFrame

MediaStep ==
  \/ OpenDocument \/ NextDocument \/ PassDone \/ NextItem \/ Settle
  \/ EncodeFails \/ EncodeDeclined \/ Encode
  \/ WriteNote \/ PatchTooLarge \/ DropTooLarge
  \/ PatchConverted \/ Commit \/ DropConverted \/ DropNote

--------------------------------------------------------------------------------
(* The process ends: what is in memory is gone.  A temporary file left     *)
(* behind is truncated when its name comes again.                          *)
Ends ==
  /\ Running /\ stops < MaxStops /\ stops' = stops + 1
  /\ phase' = "idle"
  /\ queue' = {} /\ work' = [w \in Workers |-> Gone] /\ temp' = NoTemps
  /\ abort' = FALSE /\ cancel' = FALSE /\ failures' = FALSE /\ media' = Listing(NoDoc)
  /\ UNCHANGED <<verdict, conv, orig, deriv, runs>>

Kill == Ends /\ UNCHANGED <<note, powerCut>>

(* Every file is synced before its rename, the folder after it; only the   *)
(* notes are written without a sync.                                       *)
PowerCut ==
  /\ Ends /\ powerCut' = TRUE
  /\ \E lost \in SUBSET {o \in Originals : note[o] = "fresh"} :
       note' = [o \in Originals |->
                  IF o \in lost THEN "none" ELSE IF note[o] = "fresh" THEN "kept" ELSE note[o]]

Next ==
  \/ Start \/ Cancel \/ Join
  \/ \E w \in Workers : Writer(w)
  \/ MediaStep \/ PassFails
  \/ Kill \/ PowerCut

Spec == Init /\ [][Next]_vars

(* Threads run on.  Nobody has to start, cancel or kill a run.             *)
Fairness == WF_vars(Join) /\ WF_vars(MediaStep) /\ \A w \in Workers : WF_vars(Writer(w))

FairSpec == Spec /\ Fairness

--------------------------------------------------------------------------------
(* Correctness.                                                            *)

WorkerSteps == {"idle", "popping", "unit", "staging", "copying", "renaming", "gone"}
MediaSteps == {"doc", "items", "item", "large", "noted", "dropping",
               "small", "patched", "committed", "cleaning"}

(* Every part of the state has its type.                                   *)
TypeOK ==
  /\ verdict \in [Originals -> Verdicts]
  /\ \A d \in Docs : conv[d] = NoFile \/ conv[d] \in [AttsOf[d] -> Records]
  /\ orig \in [Originals -> {"absent", "partial", "whole"}]
  /\ deriv \subseteq Originals
  /\ note \in [Originals -> {"none", "fresh", "kept"}]
  /\ temp \in [TempNames -> {"absent", "partial", "whole"}]
  /\ phase \in {"idle", "drain", "media", "done", "failed"}
  /\ queue \subseteq Docs
  /\ work \in [Workers -> [doc : Docs \cup {NoDoc}, step : WorkerSteps, todo : SUBSET Originals,
                           lost : SUBSET Originals, cur : Originals \cup {NoOriginal}]]
  /\ media \in [doc : Docs \cup {NoDoc}, todo : SUBSET Originals, step : MediaSteps,
                cur : Originals \cup {NoOriginal}]
  /\ {abort, cancel, failures, powerCut} \subseteq BOOLEAN
  /\ runs \in 0..MaxRuns /\ stops \in 0..MaxStops

(* A power cut may take the note of a file that was dropped as too large:  *)
(* then its other documents report it missing.                             *)
NoteLost(o) == verdict[o] = "large" /\ powerCut

(* What a record names is on disk, or can be found from what is.           *)
Recoverable(o, r) ==
  /\ r.at = "original" => orig[o] = "whole" \/ o \in deriv \/ note[o] # "none" \/ NoteLost(o)
  /\ r.at = "derivative" => o \in deriv \/ (orig[o] = "whole" /\ Wanted(o))

(* "A conversation file on disk means everything it references is on disk  *)
(* too" (write_queue.rs) and stays so while files that several documents   *)
(* share are converted and removed, wherever a run stops.                  *)
NothingLost ==
  \A d \in Docs : conv[d] # NoFile => \A o \in AttsOf[d] : Recoverable(o, conv[d][o])

(* What a run that nothing disturbed makes of an attachment.               *)
Expected(o, r) ==
  \/ r = At("nowhere", "file_missing")
  \/ verdict[o] = "small" /\ r = At("derivative", "none") /\ o \in deriv
  \/ verdict[o] = "large" /\ r = At("nowhere", "too_large")
  \/ verdict[o] \in {"declined", "untouched"} /\ r.at = "original" /\ orig[o] = "whole"

(* However many runs were stopped, at whatever step: when one ends well    *)
(* and ffmpeg failed on nothing, the folder is what one run would have     *)
(* made, in every document (transcode.rs: "safe to call again after an     *)
(* interruption: it ... does whatever is left").                           *)
ResumedLikeFresh ==
  phase = "done" /\ ~failures =>
    \A d \in Docs : conv[d] # NoFile /\ \A o \in AttsOf[d] : Expected(o, conv[d][o])

(* A run ends: no writer and no step of the media pass is left waiting.    *)
RunEnds == Running ~> ~Running

--------------------------------------------------------------------------------
(* What the documentation says and the code does not keep.                 *)

(* "The original - still on disk, untouched - keeps its path ... so a      *)
(* resume retries it" (transcode.rs:63-66), in a pass that ended well.     *)
FailureKeepsOriginal ==
  phase = "done" =>
    \A d \in Docs : \A o \in AttsOf[d] :
      conv[d][o].reason = "convert_failed" => orig[o] = "whole"

================================================================================
