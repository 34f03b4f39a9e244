---------------------------- MODULE Previews_proofs ----------------------------
(***************************************************************************)
(* Proofs about Previews: type correctness, that what a pass has stored is *)
(* on disk when it names it, and that a pass heals what it found, for any  *)
(* rows, blobs, passes and deletes.                                        *)
(***************************************************************************)
EXTENDS Previews, TLAPS

(* A pass works on an item of its list that converts to a Preview, or      *)
(* shares one that some row named.                                         *)
ItemFits ==
  \A p \in Passes:
    /\ step[p] \in {"convert", "write", "touch", "name"} =>
         item[p] \in Items /\ MakesOf[item[p].blob] \in Previews
    /\ step[p] = "share" => item[p] \in Items /\ item[p].preview \in Previews

TypeInv == TypeOK /\ ItemFits

(* The code's own assumptions about time: a pass names what it stored      *)
(* within the grace period, and no touch falls between the sweep's look    *)
(* at a file and its removal.                                              *)
InTime == ~PassesSlow /\ ~SweepsSlow

(* What is stored and not named yet is young, and no sweep is after it.    *)
YoungUntilNamed ==
  \A p \in Passes: step[p] = "name" /\ p \notin struck =>
    files[Stored(p)] = "young" /\ victim # Stored(p)

--------------------------------------------------------------------------------

(* The list of a pass is made of items.                                    *)
LEMMA AssetRowType == ASSUME NEW b \in Blobs, TypeOK PROVE AssetRow(b) \in Items
<1>1. CASE \E r \in RowsOf(b): rows[r] # NoPreview
  <2>1. PICK r \in RowsOf(b): rows[r] # NoPreview
    BY <1>1
  <2>2. rows[r] \in Previews
    BY <2>1 DEF RowsOf, Present, TypeOK
  <2>3. (CHOOSE f \in Previews: \E q \in RowsOf(b): rows[q] = f) \in Previews
    BY <2>1, <2>2
  <2> QED BY <1>1, <2>3 DEF AssetRow, Items
<1>2. CASE ~\E r \in RowsOf(b): rows[r] # NoPreview
  BY <1>2 DEF AssetRow, Items
<1> QED BY <1>1, <1>2

(* Naming a Preview keeps the rows' type.                                  *)
LEMMA NameInType ==
  ASSUME NEW b, NEW f \in Previews, TypeOK, NameIn(b, f)
  PROVE  rows' \in [Rows -> Previews \cup {NoPreview, Absent}]
BY DEF NameIn, TypeOK

(* So does the removal of rows.                                            *)
LEMMA WithoutType ==
  ASSUME NEW R, TypeOK, rows' = Without(R)
  PROVE  rows' \in [Rows -> Previews \cup {NoPreview, Absent}]
BY DEF Without, TypeOK

(* The initial states have the types.                                      *)
LEMMA InitTypes == Init => TypeInv
BY PreviewsAssumption DEF Init, TypeInv, TypeOK, ItemFits, Steps, NothingOwed

(* Every step that is not a pass's keeps the types.                        *)
LEMMA OthersKeepTypes ==
  ASSUME TypeInv,
         \/ \E r \in Rows: Import(r) \/ Wipe(r)
         \/ \E d \in Deletes: \/ \E r \in Rows: DeleteRow(d, r)
                              \/ DeleteAll(d)
                              \/ \E f \in Previews: RemoveListed(d, f)
         \/ StartSweep \/ SweepRemoves \/ EndSweep
         \/ \E f \in Previews: SweepLooks(f) \/ Age(f)
  PROVE  TypeInv'
<1> USE PreviewsAssumption
<1> USE DEF TypeInv, TypeOK, passes, sweeping, history
<1>0. UNCHANGED passes => ItemFits'
  BY DEF ItemFits
<1>1. ASSUME NEW r \in Rows, Import(r) PROVE TypeInv'
  BY <1>0, <1>1 DEF Import
<1>2. ASSUME NEW r \in Rows, Wipe(r) PROVE TypeInv'
  BY <1>0, <1>2, WithoutType DEF Wipe, NothingOwed
<1>3. ASSUME NEW d \in Deletes, NEW r \in Rows, DeleteRow(d, r) PROVE TypeInv'
  <2>1. Orphaned(r) \in SUBSET Previews
    BY <1>3 DEF DeleteRow, Orphaned, Present
  <2> QED BY <1>0, <1>3, <2>1, WithoutType DEF DeleteRow, NothingOwed
<1>4. ASSUME NEW d \in Deletes, DeleteAll(d) PROVE TypeInv'
  BY <1>0, <1>4, WithoutType DEF DeleteAll, NothingOwed
<1>5. ASSUME NEW d \in Deletes, NEW f \in Previews, RemoveListed(d, f) PROVE TypeInv'
  BY <1>0, <1>5 DEF RemoveListed
<1>6. CASE StartSweep \/ EndSweep
  BY <1>0, <1>6 DEF StartSweep, EndSweep
<1>7. CASE SweepRemoves
  BY <1>0, <1>7 DEF SweepRemoves
<1>8. ASSUME NEW f \in Previews, SweepLooks(f) PROVE TypeInv'
  BY <1>0, <1>8 DEF SweepLooks
<1>9. ASSUME NEW f \in Previews, Age(f) PROVE TypeInv'
  BY <1>0, <1>9 DEF Age
<1> QED BY <1>1, <1>2, <1>3, <1>4, <1>5, <1>6, <1>7, <1>8, <1>9

(* Every step of a pass keeps the types.                                   *)
LEMMA PassKeepsTypes ==
  ASSUME TypeInv, NEW p \in Passes, PassStep(p) PROVE TypeInv'
<1> USE PreviewsAssumption
<1> USE DEF TypeInv, PassFrame, Goes, sweeping, history
<1>1. CASE StartPass(p)
  <2>1. \A b \in {BlobOf[r]: r \in Present}: AssetRow(b) \in Items
    BY AssetRowType DEF Present
  <2>2. TypeOK'
    BY <1>1, <2>1 DEF StartPass, TypeOK, Steps, Present
  <2>3. ItemFits'
    BY <1>1 DEF StartPass, TypeOK, ItemFits
  <2> QED BY <2>2, <2>3
<1>2. ASSUME NEW i \in todo[p], PlanItem(p, i) PROVE TypeInv'
  <2>1. i \in Items
    BY DEF TypeOK
  <2>2. TypeOK'
    BY <1>2, <2>1 DEF PlanItem, TypeOK, Steps
  <2>3. Converts(i, force[p]) => MakesOf[i.blob] \in Previews
    BY <2>1 DEF Converts, Items
  <2>4. Shares(i, force[p]) => i.preview \in Previews
    BY <2>1 DEF Shares, DerivedExists, Items
  <2>5. ItemFits'
    BY <1>2, <2>1, <2>3, <2>4 DEF PlanItem, TypeOK, ItemFits
  <2> QED BY <2>2, <2>5
<1>3. CASE ConversionFails(p)
  BY <1>3 DEF ConversionFails, Fails, Settled, TypeOK, ItemFits, Steps
<1>4. CASE Compare(p)
  BY <1>4 DEF Compare, TypeOK, ItemFits, Steps
<1>5. CASE Write(p)
  BY <1>5 DEF Write, TypeOK, ItemFits, Steps
<1>6. CASE Touch(p)
  BY <1>6 DEF Touch, Fails, Settled, TypeOK, ItemFits, Steps
<1>7. CASE Name(p)
  <2>1. Stored(p) \in Previews
    BY <1>7 DEF Name, Stored, ItemFits
  <2> QED BY <1>7, <2>1, NameInType DEF Name, Settled, TypeOK, ItemFits, Steps
<1>8. CASE Share(p)
  <2>1. item[p].preview \in Previews
    BY <1>8 DEF Share, ItemFits
  <2> QED BY <1>8, <2>1, NameInType DEF Share, Settled, TypeOK, ItemFits, Steps
<1>9. CASE EndPass(p) \/ Kill(p)
  BY <1>9 DEF EndPass, Kill, Leaves, TypeOK, ItemFits, Steps
<1> QED BY <1>1, <1>2, <1>3, <1>4, <1>5, <1>6, <1>7, <1>8, <1>9 DEF PassStep

(* So every step keeps the types.                                          *)
LEMMA TypesKept == TypeInv /\ [Next]_vars => TypeInv'
<1> SUFFICES ASSUME TypeInv, [Next]_vars PROVE TypeInv'
  OBVIOUS
<1>1. CASE UNCHANGED vars
  BY <1>1 DEF vars, passes, sweeping, history, TypeInv, TypeOK, ItemFits
<1>2. CASE Next
  BY <1>2, OthersKeepTypes, PassKeepsTypes DEF Next
<1> QED BY <1>1, <1>2

(* Every variable has its type in every reachable state: rows name         *)
(* Previews, and what a pass works on comes from its list                  *)
(* (process_assets.rs).                                                    *)
THEOREM TypeCorrect == Spec => []TypeOK
<1>1. Spec => []TypeInv
  BY InitTypes, TypesKept, PTL DEF Spec
<1>2. TypeInv => TypeOK
  BY DEF TypeInv
<1> QED BY <1>1, <1>2, PTL

--------------------------------------------------------------------------------

(* A step that leaves files, victim, struck and the passes alone.          *)
LEMMA FrameKeepsYoung ==
  ASSUME YoungUntilNamed, UNCHANGED <<files, passes, victim, struck>>
  PROVE  YoungUntilNamed'
BY DEF YoungUntilNamed, Stored, passes

(* Every step that is not a pass's keeps what passes have stored.          *)
LEMMA OthersKeepYoung ==
  ASSUME TypeInv, YoungUntilNamed, InTime,
         \/ \E r \in Rows: Import(r) \/ Wipe(r)
         \/ \E d \in Deletes: \/ \E r \in Rows: DeleteRow(d, r)
                              \/ DeleteAll(d)
                              \/ \E f \in Previews: RemoveListed(d, f)
         \/ StartSweep \/ SweepRemoves \/ EndSweep
         \/ \E f \in Previews: SweepLooks(f) \/ Age(f)
  PROVE  YoungUntilNamed'
<1> USE DEF passes, sweeping, history
<1>1. ASSUME NEW r \in Rows, Import(r) \/ Wipe(r) PROVE YoungUntilNamed'
  BY <1>1, FrameKeepsYoung DEF Import, Wipe
<1>2. ASSUME NEW d \in Deletes, NEW r \in Rows, DeleteRow(d, r) PROVE YoungUntilNamed'
  BY <1>2, FrameKeepsYoung DEF DeleteRow
<1>3. ASSUME NEW d \in Deletes, DeleteAll(d) PROVE YoungUntilNamed'
  BY <1>3, FrameKeepsYoung DEF DeleteAll
<1>4. ASSUME NEW d \in Deletes, NEW f \in Previews, RemoveListed(d, f)
      PROVE  YoungUntilNamed'
  BY <1>4 DEF RemoveListed, YoungUntilNamed, Stored, TypeInv, TypeOK
<1>5. CASE StartSweep
  BY <1>5, FrameKeepsYoung DEF StartSweep
<1>6. CASE SweepRemoves
  BY <1>6, PreviewsAssumption
  DEF SweepRemoves, YoungUntilNamed, Stored, TypeInv, TypeOK, ItemFits
<1>7. CASE EndSweep
  BY <1>7, FrameKeepsYoung DEF EndSweep
<1>8. ASSUME NEW f \in Previews, SweepLooks(f) PROVE YoungUntilNamed'
  BY <1>8 DEF SweepLooks, Unused, YoungUntilNamed, Stored
<1>9. ASSUME NEW f \in Previews, Age(f) PROVE YoungUntilNamed'
  BY <1>9 DEF Age, YoungUntilNamed, Stored, InTime, TypeInv, TypeOK
<1> QED BY <1>1, <1>2, <1>3, <1>4, <1>5, <1>6, <1>7, <1>8, <1>9

(* A pass keeps what the others have stored.                               *)
LEMMA PassKeepsYoung ==
  ASSUME TypeInv, YoungUntilNamed, InTime, NEW p \in Passes, PassStep(p)
  PROVE  YoungUntilNamed'
<1> USE DEF PassFrame, Goes, sweeping, history, YoungUntilNamed, Stored, TypeInv, TypeOK
<1>1. CASE StartPass(p)
  BY <1>1 DEF StartPass
<1>2. ASSUME NEW i \in todo[p], PlanItem(p, i) PROVE YoungUntilNamed'
  BY <1>2 DEF PlanItem
<1>3. CASE ConversionFails(p)
  BY <1>3 DEF ConversionFails, Fails, Settled
<1>4. CASE Compare(p)
  BY <1>4 DEF Compare
<1>5. CASE Write(p)
  BY <1>5 DEF Write, InSweep, InTime, ItemFits
<1>6. CASE Touch(p)
  BY <1>6 DEF Touch, InSweep, InTime, ItemFits, Fails, Settled
<1>7. CASE Name(p)
  BY <1>7 DEF Name, Settled
<1>8. CASE Share(p)
  BY <1>8 DEF Share, Settled
<1>9. CASE EndPass(p) \/ Kill(p)
  BY <1>9 DEF EndPass, Kill, Leaves
<1> QED BY <1>1, <1>2, <1>3, <1>4, <1>5, <1>6, <1>7, <1>8, <1>9 DEF PassStep

(* So every step does.                                                     *)
LEMMA YoungKept ==
  InTime /\ TypeInv /\ YoungUntilNamed /\ [Next]_vars => YoungUntilNamed'
<1> SUFFICES ASSUME InTime, TypeInv, YoungUntilNamed, [Next]_vars PROVE YoungUntilNamed'
  OBVIOUS
<1>1. CASE UNCHANGED vars
  BY <1>1, FrameKeepsYoung DEF vars, sweeping, history
<1>2. CASE Next
  BY <1>2, OthersKeepYoung, PassKeepsYoung DEF Next
<1> QED BY <1>1, <1>2

(* Under the code's assumptions about time, what a pass has stored is on   *)
(* disk when it names it, unless a delete removed it meanwhile             *)
(* (store_derived_bytes and the grace period of the sweep).                *)
THEOREM StoredPreviewsKept == InTime /\ Spec => []StoredKept
<1>1. Init => YoungUntilNamed
  BY DEF Init, YoungUntilNamed
<1>2. InTime /\ Spec => [](TypeInv /\ YoungUntilNamed)
  <2>1. ASSUME InTime
        PROVE  TypeInv /\ YoungUntilNamed /\ [Next]_vars => (TypeInv /\ YoungUntilNamed)'
    BY <2>1, TypesKept, YoungKept
  <2>2. ASSUME InTime PROVE Spec => [](TypeInv /\ YoungUntilNamed)
    BY <1>1, <2>1, <2>2, InitTypes, PTL DEF Spec
  <2> QED BY <2>2
<1>3. YoungUntilNamed => StoredKept
  BY DEF YoungUntilNamed, StoredKept
<1> QED BY <1>2, <1>3, PTL

--------------------------------------------------------------------------------
(* That a pass heals.                                                      *)

(* A row names what its blob converts to, and so does an item of a list.   *)
NamesFit ==
  /\ \A r \in Rows: rows[r] \in Previews => rows[r] = MakesOf[BlobOf[r]]
  /\ \A p \in Passes: \A i \in todo[p] \cup ({item[p]} \ {NoItem}):
       i.preview # NoPreview => i.preview = MakesOf[i.blob]

(* While a pass owes rows anything, no delete has files to remove, and     *)
(* none has struck that pass.                                              *)
OwedAlone ==
  /\ (\E p \in Passes: owes[p] # {}) => \A d \in Deletes: delete[d] = {}
  /\ \A p \in struck: owes[p] = {} /\ step[p] # "idle"

(* No row comes to name what the sweep has looked at.                      *)
SweepSparesNamed == victim # NoPreview => sweep /\ victim \notin Named

(* What an item says of the rows owed is still so: a row named its         *)
(* Preview, and where it says that none was without, none is.              *)
ListedTruly(p, i) ==
  /\ i.preview # NoPreview => \E q \in owes[p]: BlobOf[q] = i.blob /\ rows[q] = i.preview
  /\ ~i.without => \A q \in owes[p]: BlobOf[q] = i.blob => rows[q] # NoPreview

(* The rows a pass owes are there, its list is true of them, and each row  *)
(* whose blob can be converted is shown, listed or being worked on.        *)
Healing(p) ==
  /\ owes[p] \subseteq Present
  /\ owes[p] # {} =>
       /\ \A i \in todo[p]: ListedTruly(p, i)
       /\ step[p] = "share" =>
            ListedTruly(p, item[p]) /\ files[item[p].preview] # "gone"
  /\ \A r \in owes[p]: MakesOf[BlobOf[r]] # NoPreview =>
       \/ Shown(r)
       \/ \E i \in todo[p]: i.blob = BlobOf[r]
       \/ /\ step[p] \in {"convert", "write", "touch", "name", "share"}
          /\ item[p].blob = BlobOf[r]

AllHeal == \A p \in Passes: Healing(p)

HealInv == NamesFit /\ OwedAlone /\ SweepSparesNamed /\ AllHeal

(* The initial states owe nothing and name nothing.                        *)
LEMMA InitHeals == Init => HealInv
BY PreviewsAssumption
DEF Init, HealInv, NamesFit, OwedAlone, SweepSparesNamed, AllHeal, Healing, NothingOwed

(* A pass goes on healing when a step leaves it alone, names its rows      *)
(* again as they were or for the first time, and keeps every file they     *)
(* name.                                                                   *)
LEMMA HealingKept ==
  ASSUME TypeInv, NEW p \in Passes, Healing(p),
         owes'[p] = owes[p], todo'[p] = todo[p], item'[p] = item[p], step'[p] = step[p],
         \A r \in owes[p]: /\ rows'[r] \in Previews \cup {NoPreview}
                           /\ rows[r] # NoPreview => rows'[r] = rows[r],
         \A f \in Previews: files[f] # "gone" =>
           files'[f] # "gone" \/ \A r \in owes[p]: rows[r] # f
  PROVE  Healing(p)'
<1> USE PreviewsAssumption DEF TypeInv, TypeOK
<1>1. owes[p] \subseteq Rows
  OBVIOUS
<1>2. (owes[p] \subseteq Present)'
  BY <1>1 DEF Present
<1>3. \A r \in owes[p]: Shown(r) => Shown(r)'
  BY <1>1 DEF Shown
<1>4. \A i: ListedTruly(p, i) => ListedTruly(p, i)'
  BY <1>1 DEF ListedTruly
<1>5. ASSUME step[p] = "share", owes[p] # {}
      PROVE  ListedTruly(p, item[p])' /\ (files[item[p].preview] # "gone")'
  <2>1. item[p] \in Items /\ item[p].preview \in Previews
    BY <1>5 DEF ItemFits
  <2>2. ListedTruly(p, item[p]) /\ files[item[p].preview] # "gone"
    BY <1>5 DEF Healing
  <2>3. item[p].preview # NoPreview
    BY <2>1
  <2>4. \E r \in owes[p]: rows[r] = item[p].preview
    BY <2>2, <2>3 DEF ListedTruly
  <2>5. ListedTruly(p, item[p])'
    BY <2>2, <1>4 DEF ListedTruly
  <2> QED BY <2>1, <2>2, <2>4, <2>5
<1>6. (owes[p] # {})' =>
        /\ (\A i \in todo[p]: ListedTruly(p, i))'
        /\ (step[p] = "share")' =>
             (ListedTruly(p, item[p])' /\ (files[item[p].preview] # "gone")')
  BY <1>4, <1>5 DEF Healing
<1>7. (\A r \in owes[p]: MakesOf[BlobOf[r]] # NoPreview =>
         \/ Shown(r)
         \/ \E i \in todo[p]: i.blob = BlobOf[r]
         \/ /\ step[p] \in {"convert", "write", "touch", "name", "share"}
            /\ item[p].blob = BlobOf[r])'
  BY <1>3 DEF Healing
<1> QED BY <1>2, <1>6, <1>7 DEF Healing, ListedTruly

(* Every step that is not a pass's keeps the passes healing.               *)
LEMMA OthersKeepHealing ==
  ASSUME TypeInv, HealInv,
         \/ \E r \in Rows: Import(r) \/ Wipe(r)
         \/ \E d \in Deletes: \/ \E r \in Rows: DeleteRow(d, r)
                              \/ DeleteAll(d)
                              \/ \E f \in Previews: RemoveListed(d, f)
         \/ StartSweep \/ SweepRemoves \/ EndSweep
         \/ \E f \in Previews: SweepLooks(f) \/ Age(f)
  PROVE  HealInv'
<1> USE PreviewsAssumption
<1> USE DEF HealInv, passes, sweeping, history, AllHeal, NamesFit, OwedAlone, SweepSparesNamed
<1> USE DEF TypeInv, TypeOK
<1>0. \A p \in Passes: \A r \in owes[p]: rows[r] \in Previews \cup {NoPreview}
  BY DEF Healing, Present
<1>1. ASSUME NEW r \in Rows, Import(r) PROVE HealInv'
  <2>1. AllHeal'
    BY <1>0, <1>1, HealingKept DEF Import, Healing, Present
  <2> QED BY <1>1, <2>1 DEF Import
<1>2. ASSUME NEW R, rows' = Without(R), owes' = NothingOwed, ~sweep, ~sweep',
             UNCHANGED <<passes, victim, struck>>
      PROVE  HealInv'
  <2>1. AllHeal'
    BY <1>2 DEF Healing, NothingOwed
  <2>2. NamesFit'
    BY <1>2 DEF Without
  <2> QED BY <1>2, <2>1, <2>2 DEF NothingOwed
<1>3. ASSUME NEW r \in Rows, Wipe(r) PROVE HealInv'
  BY <1>2, <1>3 DEF Wipe
<1>4. ASSUME NEW d \in Deletes, NEW r \in Rows, DeleteRow(d, r) PROVE HealInv'
  BY <1>2, <1>4 DEF DeleteRow
<1>5. ASSUME NEW d \in Deletes, DeleteAll(d) PROVE HealInv'
  BY <1>2, <1>5 DEF DeleteAll
<1>6. ASSUME NEW d \in Deletes, NEW f \in Previews, RemoveListed(d, f) PROVE HealInv'
  <2>1. \A p \in Passes: owes[p] = {}
    BY <1>6 DEF RemoveListed
  <2>2. AllHeal'
    BY <1>6, <2>1 DEF RemoveListed, Healing
  <2>3. \A p \in struck': owes'[p] = {} /\ step'[p] # "idle"
    BY <1>6, <2>1 DEF RemoveListed
  <2> QED BY <1>6, <2>1, <2>2, <2>3 DEF RemoveListed, Named, Present
<1>7. CASE StartSweep \/ EndSweep
  <2>1. AllHeal'
    BY <1>0, <1>7, HealingKept DEF StartSweep, EndSweep
  <2> QED BY <1>7, <2>1 DEF StartSweep, EndSweep, Named, Present
<1>8. CASE SweepRemoves
  <2>1. \A f \in Previews: files[f] # "gone" => files'[f] # "gone" \/ f = victim
    BY <1>8 DEF SweepRemoves
  <2>2. \A p \in Passes: \A r \in owes[p]: rows[r] # victim
    BY <1>0, <1>8 DEF SweepRemoves, Named, Present, Healing
  <2>3. AllHeal'
    BY <1>0, <1>8, <2>1, <2>2, HealingKept DEF SweepRemoves
  <2> QED BY <1>8, <2>3 DEF SweepRemoves
<1>9. ASSUME NEW f \in Previews, SweepLooks(f) PROVE HealInv'
  <2>1. AllHeal'
    BY <1>0, <1>9, HealingKept DEF SweepLooks
  <2> QED BY <1>9, <2>1 DEF SweepLooks, Unused, Named, Present
<1>10. ASSUME NEW f \in Previews, Age(f) PROVE HealInv'
  <2>1. AllHeal'
    BY <1>0, <1>10, HealingKept DEF Age
  <2> QED BY <1>10, <2>1 DEF Age, Named, Present
<1> QED BY <1>1, <1>3, <1>4, <1>5, <1>6, <1>7, <1>8, <1>9, <1>10

(* A pass that keeps its list finds nothing new to heal.  A step of pass p *)
(* leaves the others alone: their rows are named as they were, or by a     *)
(* Name or a Share for the first time, and no file goes.                   *)
LEMMA OtherPassesHeal ==
  ASSUME TypeInv, HealInv, NEW p \in Passes, PassStep(p), NEW q \in Passes \ {p}
  PROVE  Healing(q)'
<1> USE PreviewsAssumption
<1> USE DEF HealInv, AllHeal, TypeInv, TypeOK, PassFrame, Goes, Settled, sweeping, history
<1>0. \A r \in owes[q]: rows[r] \in Previews \cup {NoPreview}
  BY DEF Healing, Present
<1>1. /\ owes'[q] = owes[q] /\ todo'[q] = todo[q] /\ item'[q] = item[q]
      /\ step'[q] = step[q]
  BY DEF PassStep, StartPass, PlanItem, ConversionFails, Fails, Compare, Write, Touch,
         Name, Share, EndPass, Kill, Leaves
<1>2. \A f \in Previews: files[f] # "gone" => files'[f] # "gone"
  BY DEF PassStep, StartPass, PlanItem, ConversionFails, Fails, Compare, Write, Touch,
         Name, Share, EndPass, Kill, Leaves
<1>3. ASSUME NEW b, NEW f, f = MakesOf[b], f \in Previews, NameIn(b, f) PROVE Healing(q)'
  <2>1. \A r \in owes[q]: /\ rows'[r] \in Previews \cup {NoPreview}
                          /\ rows[r] # NoPreview => rows'[r] = rows[r]
    BY <1>0, <1>3 DEF NameIn, NamesFit
  <2> QED BY <1>1, <1>2, <2>1, HealingKept
<1>4. CASE Name(p)
  BY <1>3, <1>4 DEF Name, Stored, ItemFits
<1>5. CASE Share(p)
  <2>1. item[p] \in Items /\ item[p].preview \in Previews
    BY <1>5 DEF Share, ItemFits
  <2>2. item[p].preview = MakesOf[item[p].blob]
    BY <2>1 DEF NamesFit, Items
  <2> QED BY <1>3, <1>5, <2>1, <2>2 DEF Share
<1>6. CASE ~Name(p) /\ ~Share(p)
  <2>1. rows' = rows
    BY <1>6 DEF PassStep, StartPass, PlanItem, ConversionFails, Fails, Compare, Write,
                Touch, EndPass, Kill, Leaves
  <2> QED BY <1>0, <1>1, <1>2, <2>1, HealingKept
<1> QED BY <1>4, <1>5, <1>6

(* The list a pass starts with is true of the rows it finds.               *)
LEMMA AssetRowTrue ==
  ASSUME TypeInv, NamesFit, NEW p \in Passes, NEW b \in Blobs, NEW i, i = AssetRow(b),
         owes'[p] # {} => owes'[p] = Present, UNCHANGED rows
  PROVE  /\ owes'[p] # {} => ListedTruly(p, i)'
         /\ i.preview # NoPreview => i.preview = MakesOf[i.blob]
<1> USE PreviewsAssumption DEF TypeInv, TypeOK
<1>1. i.blob = b /\ i.without = (\E r \in RowsOf(b): rows[r] = NoPreview)
  BY DEF AssetRow
<1>2. ASSUME i.preview # NoPreview
      PROVE  \E q \in RowsOf(b): rows[q] = i.preview /\ rows[q] \in Previews
  <2>1. PICK r \in RowsOf(b): rows[r] # NoPreview
    BY <1>2 DEF AssetRow
  <2>2. rows[r] \in Previews
    BY <2>1 DEF RowsOf, Present
  <2>3. i.preview = CHOOSE f \in Previews: \E q \in RowsOf(b): rows[q] = f
    BY <2>1 DEF AssetRow
  <2> QED BY <2>1, <2>2, <2>3
<1>3. i.preview # NoPreview => i.preview = MakesOf[i.blob]
  BY <1>1, <1>2 DEF RowsOf, Present, NamesFit
<1>4. ASSUME owes'[p] # {} PROVE ListedTruly(p, i)'
  BY <1>1, <1>2, <1>4 DEF ListedTruly, RowsOf, Present
<1> QED BY <1>3, <1>4

(* What one step of pass p does to the fit of names, and to what it owes   *)
(* itself.                                                                 *)
PassPart(p) == NamesFit /\ Healing(p)

LEMMA StartHeals ==
  ASSUME TypeInv, HealInv, NEW p \in Passes, StartPass(p) PROVE PassPart(p)'
<1> USE PreviewsAssumption DEF TypeInv, TypeOK, PassFrame, Goes
<1>0. UNCHANGED <<rows, files, item>>
  BY DEF StartPass
<1>1. owes'[p] \subseteq Present /\ (owes'[p] # {} => owes'[p] = Present)
  BY DEF StartPass
<1>2. todo'[p] = {AssetRow(b): b \in {BlobOf[r]: r \in Present}}
  BY DEF StartPass
<1>3. ASSUME NEW i \in todo'[p]
      PROVE  /\ owes'[p] # {} => ListedTruly(p, i)'
             /\ i.preview # NoPreview => i.preview = MakesOf[i.blob]
  <2>1. PICK r \in Present: i = AssetRow(BlobOf[r])
    BY <1>2
  <2>2. BlobOf[r] \in Blobs
    BY DEF Present
  <2> QED BY <1>0, <1>1, <2>1, <2>2, AssetRowTrue DEF HealInv
<1>4. \A b: AssetRow(b).blob = b
  BY DEF AssetRow
<1>6. \A r \in owes'[p]: \E i \in todo'[p]: i.blob = BlobOf[r]
  <2> SUFFICES ASSUME NEW r \in owes'[p] PROVE \E i \in todo'[p]: i.blob = BlobOf[r]
    OBVIOUS
  <2>1. AssetRow(BlobOf[r]) \in todo'[p]
    BY <1>1, <1>2
  <2> QED BY <1>4, <2>1
<1>8. NamesFit'
  BY <1>0, <1>3 DEF StartPass, NamesFit, HealInv
<1>9. step'[p] # "share" /\ Present' = Present
  BY <1>0 DEF StartPass, Present
<1> QED BY <1>1, <1>3, <1>6, <1>8, <1>9 DEF PassPart, Healing, ListedTruly

LEMMA PlanHeals ==
  ASSUME TypeInv, HealInv, NEW p \in Passes, NEW i \in todo[p], PlanItem(p, i)
  PROVE  PassPart(p)'
<1> USE PreviewsAssumption DEF TypeInv, TypeOK, PassFrame, Goes
<1>1. /\ UNCHANGED <<rows, files, owes>> /\ todo'[p] = todo[p] \ {i}
      /\ step[p] = "next" /\ i \in Items /\ Healing(p) /\ owes[p] \subseteq Rows
  BY DEF PlanItem, HealInv, AllHeal
<1>2. (i.preview # NoPreview => i.preview = MakesOf[i.blob]) /\ i # NoItem
  BY <1>1 DEF HealInv, NamesFit, Items
<1>3. NamesFit'
  BY <1>1, <1>2 DEF PlanItem, NamesFit, HealInv
<1>4. owes[p] # {} => ListedTruly(p, i)
  BY <1>1 DEF Healing
<1>5. \A j: ListedTruly(p, j)' = ListedTruly(p, j)
  BY <1>1 DEF ListedTruly
<1>6. \A r \in owes[p]: Shown(r)' = Shown(r)
  BY <1>1 DEF Shown
<1>7. (owes[p] # {})' => (\A j \in todo[p]: ListedTruly(p, j))'
  BY <1>1, <1>5 DEF Healing, ListedTruly
<1>8. CASE Converts(i, force[p]) /\ step'[p] = "convert" /\ item'[p] = i
  <2>1. \A r \in owes[p]: MakesOf[BlobOf[r]] # NoPreview =>
          Shown(r) \/ (\E j \in todo[p]: j.blob = BlobOf[r])
    BY <1>1 DEF Healing
  <2> QED BY <1>1, <1>3, <1>6, <1>7, <1>8, <2>1 DEF PassPart, Healing, Present
<1>9. CASE Shares(i, force[p]) /\ step'[p] = "share" /\ item'[p] = i
  <2>1. \A r \in owes[p]: MakesOf[BlobOf[r]] # NoPreview =>
          Shown(r) \/ (\E j \in todo[p]: j.blob = BlobOf[r])
    BY <1>1 DEF Healing
  <2>2. owes[p] # {} => ListedTruly(p, item[p])' /\ (files[item[p].preview] # "gone")'
    BY <1>1, <1>4, <1>9 DEF ListedTruly, Shares, DerivedExists
  <2> QED
    BY <1>1, <1>3, <1>6, <1>7, <1>9, <2>1, <2>2 DEF PassPart, Healing, Present, ListedTruly
<1>10. CASE ~Converts(i, force[p]) /\ ~Shares(i, force[p]) /\ UNCHANGED <<step, item>>
  <2>1. ASSUME NEW r \in owes[p], MakesOf[BlobOf[r]] # NoPreview, i.blob = BlobOf[r]
        PROVE  Shown(r)
    <3>1. ~i.without /\ i.preview # NoPreview /\ files[i.preview] # "gone"
      BY <1>1, <1>10, <2>1 DEF Converts, Shares, DerivedExists, Items
    <3>2. rows[r] \in Previews
      BY <1>1, <1>4, <2>1, <3>1 DEF ListedTruly, Healing, Present
    <3>3. rows[r] = i.preview
      BY <1>1, <1>2, <2>1, <3>1, <3>2 DEF HealInv, NamesFit
    <3> QED BY <3>1, <3>2, <3>3 DEF Shown
  <2>2. \A r \in owes[p]: MakesOf[BlobOf[r]] # NoPreview =>
          Shown(r) \/ (\E j \in todo[p] \ {i}: j.blob = BlobOf[r])
    BY <1>1, <2>1 DEF Healing
  <2> QED BY <1>1, <1>3, <1>6, <1>7, <1>10, <2>2 DEF PassPart, Healing, Present
<1> QED BY <1>8, <1>9, <1>10 DEF PlanItem

(* Naming what a blob converts to, once it is on disk, shows every row of  *)
(* the blob that the pass owes.                                            *)
LEMMA NamingHeals ==
  ASSUME TypeInv, HealInv, NEW p \in Passes, NEW b, NEW f \in Previews,
         f = MakesOf[b], NameIn(b, f), owes[p] # {} => files[f] # "gone",
         item[p] # NoItem, item[p].blob = b, Settled(p),
         UNCHANGED <<files, owes, todo>>
  PROVE  PassPart(p)'
<1> USE PreviewsAssumption DEF TypeInv, TypeOK, Settled, Goes
<1>0. Healing(p) /\ owes[p] \subseteq Rows /\ owes[p] \subseteq Present
      /\ step'[p] = "next" /\ item'[p] = NoItem
  BY DEF HealInv, AllHeal, Healing
<1>1. \A r \in owes[p]: /\ rows'[r] \in Previews \cup {NoPreview}
                        /\ rows[r] # NoPreview => rows'[r] = rows[r]
                        /\ BlobOf[r] = b => rows'[r] = f
  BY <1>0 DEF NameIn, HealInv, NamesFit, Present
<1>2. NamesFit'
  BY DEF NameIn, HealInv, NamesFit
<1>3. (owes[p] \subseteq Present)'
  BY <1>0, <1>1 DEF Present
<1>4. (owes[p] # {})' => (\A j \in todo[p]: ListedTruly(p, j))'
  <2>1. \A j: ListedTruly(p, j) => ListedTruly(p, j)'
    BY <1>1 DEF ListedTruly
  <2> QED BY <1>0, <2>1 DEF Healing, ListedTruly
<1>5. \A r \in owes[p]: Shown(r) \/ BlobOf[r] = b => Shown(r)'
  BY <1>0, <1>1 DEF Shown
<1>6. \A r \in owes[p]: MakesOf[BlobOf[r]] # NoPreview =>
        Shown(r)' \/ (\E j \in todo[p]: j.blob = BlobOf[r])
  BY <1>0, <1>5 DEF Healing
<1> QED BY <1>0, <1>2, <1>3, <1>4, <1>6 DEF PassPart, Healing

(* A step towards naming: the pass goes on with the same item.             *)
LEMMA WorkHeals ==
  ASSUME TypeInv, HealInv, NEW p \in Passes, PassFrame, UNCHANGED <<todo, item, owes>>,
         NEW to \in {"write", "touch", "name"}, Goes(p, to),
         step[p] \in {"convert", "write", "touch"},
         \A f \in Previews: files[f] # "gone" => files'[f] # "gone"
  PROVE  PassPart(p)'
<1> USE PreviewsAssumption DEF TypeInv, TypeOK, PassFrame, Goes
<1>1. Healing(p) /\ owes[p] \subseteq Rows
  BY DEF HealInv, AllHeal
<1>2. \A r \in owes[p]: Shown(r) => Shown(r)'
  BY <1>1 DEF Shown
<1>3. (owes[p] # {})' => (\A j \in todo[p]: ListedTruly(p, j))'
  BY <1>1 DEF Healing, ListedTruly
<1>4. NamesFit'
  BY DEF HealInv, NamesFit
<1> QED BY <1>1, <1>2, <1>3, <1>4 DEF PassPart, Healing, Present

(* Nothing owed, nothing to heal.                                          *)
LEMMA NothingOwedHeals ==
  ASSUME TypeInv, HealInv, NEW p \in Passes, UNCHANGED rows, owes'[p] = {},
         todo' = todo \/ todo' = [todo EXCEPT ![p] = {}], item' = [item EXCEPT ![p] = NoItem]
  PROVE  PassPart(p)'
BY DEF PassPart, Healing, HealInv, NamesFit, TypeInv, TypeOK

(* Every step of a pass keeps the passes healing.                          *)
LEMMA PassKeepsHealing ==
  ASSUME InTime, TypeInv, YoungUntilNamed, HealInv, NEW p \in Passes, PassStep(p)
  PROVE  HealInv'
<1> USE PreviewsAssumption DEF PassFrame, sweeping, history
<1>1. PassPart(p)'
  <2>1. CASE StartPass(p)
    BY <2>1, StartHeals
  <2>2. CASE \E i \in todo[p]: PlanItem(p, i)
    BY <2>2, PlanHeals
  <2>3. CASE ConversionFails(p)
    BY <2>3, NothingOwedHeals DEF ConversionFails, Fails, Settled, TypeInv, TypeOK
  <2>4. CASE Compare(p)
    BY <2>4, WorkHeals DEF Compare
  <2>5. CASE Write(p)
    <3>1. \A f \in Previews: files[f] # "gone" => files'[f] # "gone"
      BY <2>5 DEF Write, TypeInv, TypeOK
    <3> QED BY <2>5, <3>1, WorkHeals DEF Write
  <2>6. CASE Touch(p)
    <3>1. CASE Fails(p)
      BY <2>6, <3>1, NothingOwedHeals DEF Touch, Fails, Settled, TypeInv, TypeOK
    <3>2. CASE ~Fails(p)
      <4>1. \A f \in Previews: files[f] # "gone" => files'[f] # "gone"
        BY <2>6, <3>2 DEF Touch, TypeInv, TypeOK
      <4> QED BY <2>6, <3>2, <4>1, WorkHeals DEF Touch
    <3> QED BY <3>1, <3>2
  <2>7. CASE Name(p)
    <3>1. item[p] \in Items /\ Stored(p) \in Previews
      BY <2>7 DEF Name, Stored, TypeInv, ItemFits
    <3>2. owes[p] # {} => files[Stored(p)] # "gone"
      BY <2>7 DEF Name, YoungUntilNamed, HealInv, OwedAlone
    <3>3. item[p] # NoItem
      BY <3>1 DEF Items
    <3> QED BY <2>7, <3>1, <3>2, <3>3, NamingHeals DEF Name, Stored
  <2>8. CASE Share(p)
    <3>1. item[p] \in Items /\ item[p].preview \in Previews
      BY <2>8 DEF Share, TypeInv, ItemFits
    <3>2. item[p] # NoItem
      BY <3>1 DEF Items
    <3>3. item[p].preview = MakesOf[item[p].blob]
      BY <3>1, <3>2 DEF HealInv, NamesFit
    <3>4. owes[p] # {} => files[item[p].preview] # "gone"
      BY <2>8 DEF Share, HealInv, AllHeal, Healing
    <3> QED BY <2>8, <3>1, <3>2, <3>3, <3>4, NamingHeals DEF Share
  <2>9. CASE EndPass(p) \/ Kill(p)
    BY <2>9, NothingOwedHeals DEF EndPass, Kill, Leaves, TypeInv, TypeOK
  <2> QED BY <2>1, <2>2, <2>3, <2>4, <2>5, <2>6, <2>7, <2>8, <2>9 DEF PassStep
<1>2. AllHeal'
  BY <1>1, OtherPassesHeal DEF AllHeal, PassPart
<1>3. OwedAlone'
  <2>1. delete' = delete /\ struck' \subseteq struck
    BY DEF PassStep, StartPass, PlanItem, ConversionFails, Fails, Compare, Write, Touch,
           Name, Share, EndPass, Kill, Leaves
  <2>2. \A q \in Passes: owes'[q] # {} =>
          owes[q] # {} \/ \A d \in Deletes: delete[d] = {}
    BY DEF PassStep, StartPass, PlanItem, ConversionFails, Fails, Compare, Write, Touch,
           Name, Share, EndPass, Kill, Leaves, TypeInv, TypeOK
  <2>3. \A q \in struck': owes'[q] = {} /\ step'[q] # "idle"
    BY <2>1 DEF HealInv, OwedAlone, TypeInv, TypeOK, Goes, Settled,
           PassStep, StartPass, PlanItem, ConversionFails, Fails, Compare, Write, Touch,
           Name, Share, EndPass, Kill, Leaves
  <2> QED BY <2>1, <2>2, <2>3 DEF HealInv, OwedAlone
<1>4. SweepSparesNamed'
  <2>1. UNCHANGED <<sweep, victim>> /\ (rows' # rows => ~sweep)
    BY DEF PassStep, StartPass, PlanItem, ConversionFails, Compare, Write, Touch,
           Name, Share, EndPass, Kill, Leaves
  <2> QED BY <2>1 DEF HealInv, SweepSparesNamed, Named, Present
<1> QED BY <1>1, <1>2, <1>3, <1>4 DEF HealInv, PassPart

(* So every step does.                                                     *)
LEMMA HealingGoesOn ==
  InTime /\ TypeInv /\ YoungUntilNamed /\ HealInv /\ [Next]_vars => HealInv'
<1> SUFFICES ASSUME InTime, TypeInv, YoungUntilNamed, HealInv, [Next]_vars PROVE HealInv'
  OBVIOUS
<1>1. CASE UNCHANGED vars
  BY <1>1 DEF vars, passes, sweeping, history, HealInv, NamesFit, OwedAlone,
     SweepSparesNamed, Named, Present, AllHeal, Healing, ListedTruly, Shown
<1>2. CASE Next
  BY <1>2, OthersKeepHealing, PassKeepsHealing DEF Next
<1> QED BY <1>1, <1>2

(* Under the code's assumptions about time, a pass that ends without an    *)
(* error, and without a removal of rows meanwhile, leaves every row it     *)
(* found for a convertible blob with a Preview on disk (plan,              *)
(* store_derived_bytes, update_derived and share_existing_preview).        *)
THEOREM PassesHeal == InTime /\ Spec => []PassHeals
<1> DEFINE Inv == TypeInv /\ YoungUntilNamed /\ HealInv
<1>1. Init => Inv
  BY InitTypes, InitHeals DEF Init, YoungUntilNamed
<1>2. ASSUME InTime PROVE Inv /\ [Next]_vars => Inv'
  BY <1>2, TypesKept, YoungKept, HealingGoesOn
<1>3. Inv => PassHeals
  <2>1. ASSUME HealInv, NEW p \in Passes, step[p] = "next", todo[p] = {},
               NEW r \in owes[p], MakesOf[BlobOf[r]] # NoPreview
        PROVE  Shown(r)
    BY <2>1 DEF HealInv, AllHeal, Healing
  <2> QED BY <2>1 DEF PassHeals
<1> HIDE DEF Inv
<1>4. ASSUME InTime PROVE Spec => []PassHeals
  BY <1>1, <1>2, <1>3, <1>4, PTL DEF Spec
<1> QED BY <1>4

================================================================================
