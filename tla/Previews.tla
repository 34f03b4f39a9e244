-------------------------------- MODULE Previews --------------------------------
(***************************************************************************)
(* Previews of one account's attachments (process_assets.rs, and what      *)
(* asset_store.rs and trash.rs do with Previews).  A pass lists the blobs, *)
(* converts those without a Preview and names the Preview in every row of  *)
(* the blob.  It holds no lock between its steps; only its UPDATE waits    *)
(* for the database's write lock.  Deletes remove Previews that no row     *)
(* named when they committed, and the sweep after an Import Run those that *)
(* no row names and that are older than a grace period.                    *)
(*                                                                         *)
(* A Preview is named by its content, so two blobs may have the same one.  *)
(***************************************************************************)
EXTENDS FiniteSets

CONSTANTS
  Rows, Blobs, Previews, Passes, Deletes,
  BlobOf,      \* the blob of each attachment row
  MakesOf,     \* what converting a blob gives, or NoPreview where it is left as it is
  Absent,      \* instead of what a row names, for a row that is not in the database
  NoPreview, NoItem,
  PassesSlow,  \* whether naming a Preview may take longer than the grace period
  SweepsSlow   \* whether a touch may fall between the sweep's look at a file and its removal

ASSUME PreviewsAssumption ==
  /\ BlobOf \in [Rows -> Blobs] /\ MakesOf \in [Blobs -> Previews \cup {NoPreview}]
  /\ NoPreview \notin Previews /\ Absent \notin Previews \cup {NoPreview}
  /\ NoItem \notin [blob: Blobs, preview: Previews \cup {NoPreview}, without: BOOLEAN]
  /\ {PassesSlow, SweepsSlow} \subseteq BOOLEAN

VARIABLES
  rows,     \* what each row names: a Preview, NoPreview, or Absent
  files,    \* each Preview's file: "gone", "young" or "old"
  step, force, todo, item, \* of each pass
  delete,   \* the Previews each delete still has to remove
  sweep,    \* whether a sweep holds the write lock
  victim,   \* the file the sweep has looked at and will remove
  owes,     \* history: the rows each pass found, until it fails or rows are removed
  struck    \* history: the passes whose stored Preview a delete removed

passes == <<step, force, todo, item>>
sweeping == <<sweep, victim>>
history == <<owes, struck>>
vars == <<rows, files, passes, delete, sweeping, history>>

Present == {r \in Rows: rows[r] # Absent}
Named == {rows[r]: r \in Present} \ {NoPreview}
RowsOf(b) == {r \in Present: BlobOf[r] = b}

NothingOwed == [p \in Passes |-> {}]

Init ==
  /\ rows = [r \in Rows |-> Absent] /\ files = [f \in Previews |-> "gone"]
  /\ step = [p \in Passes |-> "idle"] /\ force = [p \in Passes |-> FALSE]
  /\ todo = [p \in Passes |-> {}] /\ item = [p \in Passes |-> NoItem]
  /\ delete = [d \in Deletes |-> {}] /\ sweep = FALSE /\ victim = NoPreview
  /\ owes = NothingOwed /\ struck = {}

--------------------------------------------------------------------------------
(* Rows come with batches, and go with deletes and replacing runs.  All    *)
(* are transactions that wait for a sweep.                                 *)

Import(r) ==
  /\ ~sweep /\ rows[r] = Absent
  /\ rows' = [rows EXCEPT ![r] = NoPreview]
  /\ UNCHANGED <<files, passes, delete, sweeping, history>>

Without(R) == [r \in Rows |-> IF r \in R THEN Absent ELSE rows[r]]

(* The wipe of a replacing run leaves the files to the sweep.              *)
Wipe(r) ==
  /\ ~sweep /\ r \in Present /\ rows' = Without({r})
  /\ owes' = NothingOwed
  /\ UNCHANGED <<files, passes, delete, sweeping, struck>>

(* orphaned_files: the Preview of the deleted row, if no other names it.   *)
Orphaned(r) == ({rows[r]} \ {NoPreview}) \ {rows[q]: q \in Present \ {r}}

DeleteRow(d, r) ==
  /\ ~sweep /\ delete[d] = {} /\ r \in Present
  /\ rows' = Without({r})
  /\ delete' = [delete EXCEPT ![d] = Orphaned(r)]
  /\ owes' = NothingOwed
  /\ UNCHANGED <<files, passes, sweeping, struck>>

(* A delete of all messages removes the whole folder.                      *)
DeleteAll(d) ==
  /\ ~sweep /\ delete[d] = {} /\ Present # {}
  /\ rows' = Without(Rows)
  /\ delete' = [delete EXCEPT ![d] = Previews]
  /\ owes' = NothingOwed
  /\ UNCHANGED <<files, passes, sweeping, struck>>

(* The Preview that a pass is about to name.                               *)
Stored(p) == MakesOf[item[p].blob]

(* Previews go without the write lock.                                     *)
RemoveListed(d, f) ==
  /\ f \in delete[d]
  /\ files' = [files EXCEPT ![f] = "gone"]
  /\ delete' = [delete EXCEPT ![d] = @ \ {f}]
  /\ struck' = struck \cup {p \in Passes: step[p] = "name" /\ Stored(p) = f}
  /\ UNCHANGED <<rows, passes, sweeping, owes>>

--------------------------------------------------------------------------------
(* The sweep after a run: it holds the write lock while it walks.          *)

StartSweep ==
  /\ ~sweep /\ sweep' = TRUE
  /\ UNCHANGED <<rows, files, passes, delete, victim, history>>

(* Mutant: no grace for a Preview that is not named yet.                   *)
AnyUnnamed(f) == files[f] # "gone" /\ f \notin Named

Unused(f) == files[f] = "old" /\ f \notin Named

SweepLooks(f) ==
  /\ sweep /\ victim = NoPreview /\ Unused(f) /\ victim' = f
  /\ UNCHANGED <<rows, files, passes, delete, sweep, history>>

SweepRemoves ==
  /\ victim # NoPreview /\ victim' = NoPreview
  /\ files' = [files EXCEPT ![victim] = "gone"]
  /\ UNCHANGED <<rows, passes, delete, sweep, history>>

EndSweep ==
  /\ sweep /\ victim = NoPreview /\ sweep' = FALSE
  /\ UNCHANGED <<rows, files, passes, delete, victim, history>>

(* An hour passes.  A pass names what it stored sooner, unless it is slow. *)
Age(f) ==
  /\ files[f] = "young"
  /\ PassesSlow \/ \A p \in Passes: ~(step[p] = "name" /\ Stored(p) = f)
  /\ files' = [files EXCEPT ![f] = "old"]
  /\ UNCHANGED <<rows, passes, delete, sweeping, history>>

--------------------------------------------------------------------------------
(* A pass.                                                                 *)

PassFrame == UNCHANGED <<rows, delete, sweeping>>
Goes(p, to) == step' = [step EXCEPT ![p] = to]
Settled(p) == Goes(p, "next") /\ item' = [item EXCEPT ![p] = NoItem]
Fails(p) == Settled(p) /\ owes' = [owes EXCEPT ![p] = {}]

(* list_attachments: what the rows of a blob say together.                 *)
AssetRow(b) ==
  [blob |-> b,
   preview |-> IF \E r \in RowsOf(b): rows[r] # NoPreview
               THEN CHOOSE f \in Previews: \E r \in RowsOf(b): rows[r] = f
               ELSE NoPreview,
   without |-> \E r \in RowsOf(b): rows[r] = NoPreview]

StartPass(p) ==
  /\ step[p] = "idle" /\ Goes(p, "next")
  /\ \E forced \in BOOLEAN: force' = [force EXCEPT ![p] = forced]
  /\ todo' = [todo EXCEPT ![p] = {AssetRow(b): b \in {BlobOf[r]: r \in Present}}]
  /\ owes' = [owes EXCEPT ![p] = IF \A d \in Deletes: delete[d] = {} THEN Present ELSE {}]
  /\ UNCHANGED <<item, files, struck>> /\ PassFrame

(* Mutant: the row's word that there is a Preview.                         *)
SaidToExist(i) == i.preview # NoPreview

DerivedExists(i) == i.preview # NoPreview /\ files[i.preview] # "gone"

Converts(i, forced) == MakesOf[i.blob] # NoPreview /\ (forced \/ ~DerivedExists(i))

Shares(i, forced) == MakesOf[i.blob] # NoPreview /\ ~forced /\ DerivedExists(i) /\ i.without

(* plan: the listed row against the disk.                                  *)
PlanItem(p, i) ==
  /\ step[p] = "next" /\ i \in todo[p]
  /\ todo' = [todo EXCEPT ![p] = @ \ {i}]
  /\ \/ Converts(i, force[p]) /\ Goes(p, "convert") /\ item' = [item EXCEPT ![p] = i]
     \/ Shares(i, force[p]) /\ Goes(p, "share") /\ item' = [item EXCEPT ![p] = i]
     \/ ~Converts(i, force[p]) /\ ~Shares(i, force[p]) /\ UNCHANGED <<step, item>>
  /\ struck' = struck \ {p}
  /\ UNCHANGED <<force, files, owes>> /\ PassFrame

(* The original is missing or ffmpeg fails: the next row.                  *)
ConversionFails(p) ==
  /\ step[p] = "convert" /\ Fails(p)
  /\ UNCHANGED <<force, todo, files, struck>> /\ PassFrame

(* store_derived_bytes: a file with these bytes is kept.                   *)
Compare(p) ==
  /\ step[p] = "convert"
  /\ Goes(p, IF files[Stored(p)] = "gone" THEN "write" ELSE "touch")
  /\ UNCHANGED <<force, todo, item, files, history>> /\ PassFrame

(* Whether the sweep has looked at the file and not removed it yet.        *)
InSweep(p) == victim = Stored(p) /\ ~SweepsSlow

Write(p) ==
  /\ step[p] = "write" /\ ~InSweep(p) /\ Goes(p, "name")
  /\ files' = [files EXCEPT ![Stored(p)] = "young"]
  /\ UNCHANGED <<force, todo, item, history>> /\ PassFrame

Touch(p) ==
  /\ step[p] = "touch" /\ ~InSweep(p)
  /\ \/ files[Stored(p)] = "gone" /\ Fails(p) /\ UNCHANGED files
     \/ /\ files[Stored(p)] # "gone" /\ Goes(p, "name")
        /\ files' = [files EXCEPT ![Stored(p)] = "young"]
        /\ UNCHANGED <<item, owes>>
  /\ UNCHANGED <<force, todo, struck>> /\ PassFrame

(* update_derived: every row of the blob at once.                          *)
NameIn(b, f) ==
  rows' = [r \in Rows |-> IF r \in Present /\ BlobOf[r] = b THEN f ELSE rows[r]]

Name(p) ==
  /\ step[p] = "name" /\ ~sweep /\ Settled(p)
  /\ NameIn(item[p].blob, Stored(p))
  /\ UNCHANGED <<force, todo, files, delete, sweeping, history>>

(* share_existing_preview: the Preview the other rows named.               *)
Share(p) ==
  /\ step[p] = "share" /\ ~sweep /\ Settled(p)
  /\ NameIn(item[p].blob, item[p].preview)
  /\ UNCHANGED <<force, todo, files, delete, sweeping, history>>

Leaves(p) ==
  /\ Goes(p, "idle") /\ item' = [item EXCEPT ![p] = NoItem] /\ todo' = [todo EXCEPT ![p] = {}]
  /\ force' = [force EXCEPT ![p] = FALSE] /\ owes' = [owes EXCEPT ![p] = {}]
  /\ struck' = struck \ {p}
  /\ UNCHANGED files /\ PassFrame

EndPass(p) == step[p] = "next" /\ todo[p] = {} /\ Leaves(p)

(* The command or its server is killed.                                    *)
Kill(p) == step[p] # "idle" /\ Leaves(p)

PassStep(p) ==
  \/ StartPass(p) \/ (\E i \in todo[p]: PlanItem(p, i)) \/ ConversionFails(p) \/ Compare(p)
  \/ Write(p) \/ Touch(p) \/ Name(p) \/ Share(p) \/ EndPass(p) \/ Kill(p)

Next ==
  \/ \E r \in Rows: Import(r) \/ Wipe(r)
  \/ \E d \in Deletes: \/ \E r \in Rows: DeleteRow(d, r)
                       \/ DeleteAll(d)
                       \/ \E f \in Previews: RemoveListed(d, f)
  \/ StartSweep \/ SweepRemoves \/ EndSweep
  \/ \E f \in Previews: SweepLooks(f) \/ Age(f)
  \/ \E p \in Passes: PassStep(p)

Spec == Init /\ [][Next]_vars

--------------------------------------------------------------------------------
(* Properties.                                                             *)

Steps == {"idle", "next", "convert", "share", "write", "touch", "name"}
Items == [blob: Blobs, preview: Previews \cup {NoPreview}, without: BOOLEAN]

TypeOK ==
  /\ rows \in [Rows -> Previews \cup {NoPreview, Absent}]
  /\ files \in [Previews -> {"gone", "young", "old"}]
  /\ step \in [Passes -> Steps] /\ force \in [Passes -> BOOLEAN]
  /\ todo \in [Passes -> SUBSET Items] /\ item \in [Passes -> Items \cup {NoItem}]
  /\ delete \in [Deletes -> SUBSET Previews]
  /\ sweep \in BOOLEAN /\ victim \in Previews \cup {NoPreview}
  /\ owes \in [Passes -> SUBSET Rows] /\ struck \subseteq Passes

(* A Preview that a pass has stored or found is there when its row is      *)
(* about to name it, whatever sweeps and other passes do meanwhile: the    *)
(* grace period and the touch of a file that is reused are there for this  *)
(* (process_assets.rs, store_derived_bytes).  Only a delete may take it.   *)
StoredKept ==
  \A p \in Passes: step[p] = "name" /\ p \notin struck => files[Stored(p)] # "gone"

Shown(r) == rows[r] \in Previews /\ files[rows[r]] # "gone"

(* When a pass ends that met no error, and no rows were removed meanwhile, *)
(* every row it found for a blob that can be converted names a Preview     *)
(* that is on disk, whatever an earlier delete, kill or removal had left.  *)
PassHeals ==
  \A p \in Passes: step[p] = "next" /\ todo[p] = {} =>
    \A r \in owes[p]: MakesOf[BlobOf[r]] # NoPreview => Shown(r)

================================================================================
