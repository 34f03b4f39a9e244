-------------------------- MODULE ImportStore_proofs --------------------------
(***************************************************************************)
(* Proofs about ImportStore, for any number of runs, requests, messages    *)
(* and files, and any number of crashes; and, at the end, about the keyed  *)
(* locks its requests take (KeyedLocks), which ImportStore models by what  *)
(* KeyedMutex promises of them.                                            *)
(***************************************************************************)
EXTENDS ImportStore, KeyedLocks, FiniteSetTheorems, TLAPS

(* The count a completed run records is a natural number.                  *)
LEMMA StampedCount ==
  ASSUME NEW r \in Runs
  PROVE  Cardinality(StampedBy(r)) \in Nat
BY BackupAssumption, FS_Subset, FS_CardinalityType DEF StampedBy

(* What promoting a batch leaves in the rows has their type, and every     *)
(* message with a file is stored.                                          *)
LEMMA PromoteType ==
  ASSUME TypeOK, NEW r \in Runs, NEW S \in SUBSET Guids, NEW mode, NEW onDisk,
         Promote(r, S, mode, onDisk)
  PROVE  /\ stamp' \in [Guids -> Runs \cup {NoRun}]
         /\ held' \subseteq {g \in Guids : stamp'[g] # NoRun}
         /\ convs' \subseteq Convs /\ convs \subseteq convs'
<1> DEFINE kept == IF mode = "replace" THEN Stored \ OfSource(RunSource[r]) ELSE Stored
<1>1. kept \subseteq Guids /\ \A g \in kept : stamp[g] # NoRun
  BY DEF Stored, OfSource
<1>2. stamp' = [g \in Guids |-> IF g \in kept THEN stamp[g]
                                ELSE IF g \in S THEN r ELSE NoRun]
  BY DEF Promote
<1>3. held' = (held \cap kept) \cup {g \in S : AssetOf[g] \in onDisk}
  BY DEF Promote
<1>4. stamp' \in [Guids -> Runs \cup {NoRun}]
  BY <1>2 DEF TypeOK
<1>5. held' \subseteq {g \in Guids : stamp'[g] # NoRun}
  BY <1>1, <1>2, <1>3, RunAssumption
<1>6. convs' \subseteq Convs /\ convs \subseteq convs'
  BY BackupAssumption DEF Promote, TypeOK
<1>7. QED
  BY <1>4, <1>5, <1>6

(* Deleting conversations leaves rows of the right type too.               *)
LEMMA DeleteType ==
  ASSUME TypeOK, NEW C \in SUBSET Convs, DeleteRows(C)
  PROVE  /\ stamp' \in [Guids -> Runs \cup {NoRun}]
         /\ held' \subseteq {g \in Guids : stamp'[g] # NoRun}
         /\ convs' \subseteq Convs /\ trashed' \subseteq convs'
BY DEF TypeOK, DeleteRows, InConvs, Stored

(* Type correctness: every variable keeps its range, a file is named only  *)
(* by a stored message, and only an existing conversation is in the trash. *)
LEMMA TypeInit == Init => TypeOK
BY TaskAssumption DEF Init, TypeOK, ImportStatuses, Stored, Removers

(* Every handler keeps the types: one step per action of ImportStore.      *)
LEMMA TypeStep == TypeOK /\ [Next]_vars => TypeOK'
<1> SUFFICES ASSUME TypeOK, [Next]_vars PROVE TypeOK'
  OBVIOUS
<1> USE RunAssumption, TaskAssumption
<1>1. ASSUME NEW r \in Runs, CreateRun(r) PROVE TypeOK'
  BY <1>1 DEF TypeOK, CreateRun, ImportStatuses, Stored, batchVars, removerVars
<1>2. ASSUME NEW r \in Runs, NEW s \in Stages, SetStage(r, s) PROVE TypeOK'
  BY <1>2 DEF TypeOK, SetStage, Stored, batchVars, removerVars
<1>3. ASSUME NEW r \in Runs, NEW s \in Outcomes, CompleteRun(r, s) PROVE TypeOK'
  BY <1>3, StampedCount
     DEF TypeOK, CompleteRun, ForgetTold, AfterRun, Stored, batchVars, EndStatuses,
         Removers
<1>4. ASSUME NEW r \in Runs, DiscardRun(r) PROVE TypeOK'
  BY <1>4 DEF TypeOK, DiscardRun, ForgetTold, Stored, batchVars, ImportStatuses, Removers
<1>5. ASSUME NEW x \in Assets, HeadAsset(x) \/ StoreAsset(x) PROVE TypeOK'
  BY <1>5 DEF TypeOK, HeadAsset, StoreAsset, TellRunning, Stored, rows, batchVars,
              removerVars
<1>6. ASSUME NEW b \in Batches, NEW r \in Runs, NEW S \in SUBSET Guids, AdmitBatch(b, r, S)
      PROVE  TypeOK'
  BY <1>6 DEF TypeOK, AdmitBatch, Stored, rows, removerVars
<1>7. ASSUME NEW b \in Batches, TakePermit(b) \/ LockAccount(b) \/ OpenBatch(b) PROVE TypeOK'
  BY <1>7 DEF TypeOK, TakePermit, LockAccount, OpenBatch, BatchMode, FirstBatch, Stored,
              rows, removerVars
<1>8. ASSUME NEW b \in Batches, CommitBatch(b) PROVE TypeOK'
  <2>1. /\ stamp' \in [Guids -> Runs \cup {NoRun}]
        /\ held' \subseteq {g \in Guids : stamp'[g] # NoRun}
        /\ convs' \subseteq Convs /\ convs \subseteq convs'
    BY <1>8, PromoteType DEF CommitBatch, TypeOK
  <2>2. QED
    BY <1>8, <2>1 DEF TypeOK, CommitBatch, NameMissed, Stored, removerVars
<1>9. ASSUME NEW b \in Batches, AnswerBatch(b) PROVE TypeOK'
  BY <1>9 DEF TypeOK, AnswerBatch, Stored, rows, removerVars
<1>10. ASSUME NEW r \in Runs, NEW S \in SUBSET Guids, CliImport(r, S) PROVE TypeOK'
  <2>1. /\ stamp' \in [Guids -> Runs \cup {NoRun}]
        /\ held' \subseteq {g \in Guids : stamp'[g] # NoRun}
        /\ convs' \subseteq Convs /\ convs \subseteq convs'
    <3>1. CASE Promote(r, S, RunMode[r], files')
      BY <3>1, PromoteType
    <3>2. CASE UNCHANGED <<stamp, held, convs, missed>>
      BY <3>2 DEF TypeOK, Stored
    <3>3. QED
      BY <1>10, <3>1, <3>2 DEF CliImport
  <2>2. files' \subseteq Assets /\ missed' \subseteq Assets
    BY <1>10, BackupAssumption DEF CliImport, NameMissed, AssetsOf, TypeOK
  <2>3. QED
    BY <1>10, <2>1, <2>2 DEF TypeOK, CliImport, Stored, batchVars, Removers
<1>11. ASSUME NEW c \in Convs, MoveToTrash(c) \/ Restore(c) PROVE TypeOK'
  BY <1>11 DEF TypeOK, MoveToTrash, Restore, Stored, batchVars, removerVars
<1>12. ASSUME NEW d \in ConvDeletes, NEW C \in SUBSET Convs, DeleteTrashed(d, C) PROVE TypeOK'
  <2>1. Orphaned(InConvs(C)) \in SUBSET Assets
    BY BackupAssumption DEF TypeOK, Orphaned, AssetsOf, InConvs, Stored
  <2>2. /\ stamp' \in [Guids -> Runs \cup {NoRun}]
        /\ held' \subseteq {g \in Guids : stamp'[g] # NoRun}
        /\ convs' \subseteq Convs /\ trashed' \subseteq convs'
    BY <1>12, DeleteType DEF DeleteTrashed
  <2>3. QED
    BY <1>12, <2>1, <2>2 DEF TypeOK, DeleteTrashed, Stored, batchVars, Removers, Deletes
<1>13. ASSUME NEW d \in AllDeletes, AdmitDeleteAll(d) \/ LockForDeleteAll(d) \/ OpenDeleteAll(d)
       PROVE  TypeOK'
  BY <1>13 DEF TypeOK, AdmitDeleteAll, LockForDeleteAll, OpenDeleteAll, Stored, rows,
               batchVars, Removers, Deletes
<1>14. ASSUME NEW d \in AllDeletes, DeleteAllRows(d) PROVE TypeOK'
  <2>1. /\ stamp' \in [Guids -> Runs \cup {NoRun}]
        /\ held' \subseteq {g \in Guids : stamp'[g] # NoRun}
        /\ convs' \subseteq Convs /\ trashed' \subseteq convs'
    BY <1>14, DeleteType DEF DeleteAllRows
  <2>2. QED
    BY <1>14, <2>1 DEF TypeOK, DeleteAllRows, Stored, batchVars, Removers, Deletes
<1>15. ASSUME NEW t \in Removers, BeginRemoval(t) PROVE TypeOK'
  <2>1. ToRemove(t) \in SUBSET Assets
    BY DEF ToRemove, Unnamed, TypeOK, Removers, Deletes
  <2>2. QED
    BY <1>15, <2>1 DEF TypeOK, BeginRemoval, Stored, rows, batchVars
<1>16. ASSUME NEW t \in Removers, Connect(t) \/ SkipRemoval(t) \/ FinishRemoval(t)
       PROVE  TypeOK'
  BY <1>16 DEF TypeOK, Connect, SkipRemoval, FinishRemoval, ReleaseAccount, Stored, rows,
               batchVars
<1>17. ASSUME NEW t \in Removers, NEW x \in Assets, RemoveFile(t, x) \/ KeepFile(t, x)
       PROVE  TypeOK'
  BY <1>17 DEF TypeOK, RemoveFile, KeepFile, Miss, Stored, rows, batchVars
<1>18. ASSUME NEW t \in Removers, GiveUp(t) \/ DropHandler(t) PROVE TypeOK'
  BY <1>18 DEF TypeOK, GiveUp, Miss, DropHandler, ReleaseAccount, Stored, rows, batchVars,
               removerVars
<1>19. CASE Crash
  BY <1>19 DEF TypeOK, Crash, Miss, Stored, rows
<1>20. CASE UNCHANGED vars
  BY <1>20 DEF TypeOK, vars, Stored, rows, batchVars, removerVars
<1>21. ASSUME TrashStep PROVE TypeOK'
  <2>1. \A C \in {{c} : c \in Convs} \cup {trashed} : C \in SUBSET Convs
    BY DEF TypeOK
  <2>2. QED
    BY <1>21, <2>1, <1>11, <1>12, <1>13 DEF TrashStep
<1>22. QED
  BY <1>1, <1>2, <1>3, <1>4, <1>5, <1>6, <1>7, <1>8, <1>9, <1>10, <1>13, <1>14, <1>15,
     <1>16, <1>17, <1>18, <1>19, <1>20, <1>21
     DEF Next, RunStep, UploadStep, BatchOutside, FailBatch, BatchStep, RefuseBatch,
         FinishBatch, RemoverStep, RemoverOutside

(* Every variable of the store keeps its type in every behaviour: a file   *)
(* is named only by a stored message, and only an existing conversation is *)
(* in the trash.                                                           *)
THEOREM TypeCorrect == Spec => []TypeOK
BY TypeInit, TypeStep, PTL DEF Spec

--------------------------------------------------------------------------------
(* Which steps change what.                                                *)

(* A run's own handlers and the import command work beside a free write    *)
(* lock, on a run that runs before the step or after it.                   *)
LEMMA RunFrame ==
  ASSUME TypeOK, RunStep
  PROVE  /\ UNCHANGED <<trashed, batchVars, todo, accountLock, writer, crashes>>
         /\ writer = Nobody /\ files \subseteq files'
         /\ Running \/ Running'
<1> USE DEF TypeOK, CanTransactFor, WriteLockFree, Running
<1>1. ASSUME NEW r \in Runs, CreateRun(r) \/ DiscardRun(r)
      PROVE  /\ UNCHANGED <<trashed, batchVars, todo, accountLock, writer, crashes, files>>
             /\ writer = Nobody /\ (Running \/ Running')
  BY <1>1 DEF CreateRun, DiscardRun, removerVars
<1>2. ASSUME NEW r \in Runs, NEW s \in Stages \cup Outcomes, SetStage(r, s) \/ CompleteRun(r, s)
      PROVE  /\ UNCHANGED <<trashed, batchVars, todo, accountLock, writer, crashes, files>>
             /\ writer = Nobody /\ Running
  BY <1>2 DEF SetStage, CompleteRun, removerVars
<1>3. ASSUME NEW r \in Runs, NEW S \in SUBSET Guids, CliImport(r, S)
      PROVE  /\ UNCHANGED <<trashed, batchVars, todo, accountLock, writer, crashes>>
             /\ writer = Nobody /\ files \subseteq files' /\ Running
  BY <1>3 DEF CliImport
<1>4. QED
  BY <1>1, <1>2, <1>3 DEF RunStep

(* What a run's step does to the progress of its own sweep.                *)
LEMMA RunProgress ==
  ASSUME TypeOK, RunStep
  PROVE  \E r \in Runs : /\ \A t \in Removers \ {r} : pcR'[t] = pcR[t]
                         /\ pcR'[r] \in {pcR[r], "pending", "finishing", "done"}
                         /\ pcR'[r] = "finishing" =>
                              pcR[r] = "finishing" \/ \E S \in SUBSET Guids : CliImport(r, S)
<1> DEFINE Moves(r) == /\ \A t \in Removers \ {r} : pcR'[t] = pcR[t]
                       /\ pcR'[r] \in {pcR[r], "pending", "finishing", "done"}
                       /\ pcR'[r] = "finishing" =>
                            pcR[r] = "finishing" \/ \E S \in SUBSET Guids : CliImport(r, S)
<1> USE DEF TypeOK, Removers
<1>1. ASSUME NEW r \in Runs, CreateRun(r) \/ DiscardRun(r) PROVE Moves(r)
  BY <1>1 DEF CreateRun, DiscardRun, removerVars
<1>2. ASSUME NEW r \in Runs, NEW s \in Stages \cup Outcomes, SetStage(r, s) \/ CompleteRun(r, s)
      PROVE  Moves(r)
  BY <1>2 DEF SetStage, CompleteRun, AfterRun, removerVars
<1>3. ASSUME NEW r \in Runs, NEW S \in SUBSET Guids, CliImport(r, S) PROVE Moves(r)
  BY <1>3 DEF CliImport
<1>4. QED
  BY <1>1, <1>2, <1>3 DEF RunStep

(* An upload touches no row, no request and no removal.                    *)
LEMMA UploadFrame ==
  ASSUME UploadStep
  PROVE  /\ UNCHANGED <<rows, batchVars, removerVars, accountLock, writer, crashes>>
         /\ files \subseteq files'
BY DEF UploadStep, HeadAsset, StoreAsset

(* A batch touches rows only when it commits.                              *)
LEMMA BatchFrame ==
  ASSUME NEW b \in Batches, BatchOutside(b) \/ BatchStep(b)
  PROVE  /\ UNCHANGED <<status, stage, counted, trashed, files, told, removerVars, writer,
                        crashes>>
         /\ CommitBatch(b) \/ UNCHANGED <<stamp, held, convs, missed>>
         /\ accountLock \notin {b, Nobody} => accountLock' = accountLock
<1>1. CASE \/ \E r \in Runs, S \in SUBSET Guids : AdmitBatch(b, r, S)
           \/ TakePermit(b) \/ LockAccount(b) \/ OpenBatch(b)
  BY <1>1 DEF AdmitBatch, TakePermit, LockAccount, AccountFree, OpenBatch, rows
<1>2. CASE AnswerBatch(b)
  BY <1>2 DEF AnswerBatch, rows
<1>3. CASE CommitBatch(b)
  BY <1>3 DEF CommitBatch
<1>4. QED
  BY <1>1, <1>2, <1>3 DEF BatchOutside, FailBatch, BatchStep, RefuseBatch, FinishBatch

(* The trash touches rows, and the delete that a request begins.           *)
LEMMA TrashFrame ==
  ASSUME TypeOK, TrashStep
  PROVE  /\ UNCHANGED <<status, stage, counted, files, told, missed, batchVars, accountLock,
                        writer, crashes>>
         /\ \/ UNCHANGED <<stamp, held, convs, removerVars>>
            \/ \E d \in AllDeletes : AdmitDeleteAll(d)
            \/ \E d \in ConvDeletes, C \in SUBSET Convs : DeleteTrashed(d, C)
<1>1. \A C \in {{c} : c \in Convs} \cup {trashed} : C \in SUBSET Convs
  BY DEF TypeOK
<1>2. ASSUME NEW c \in Convs, MoveToTrash(c) \/ Restore(c)
      PROVE  UNCHANGED <<status, stage, counted, files, told, missed, batchVars, accountLock,
                         writer, crashes, stamp, held, convs, removerVars>>
  BY <1>2 DEF MoveToTrash, Restore
<1>3. QED
  BY <1>1, <1>2 DEF TrashStep, AdmitDeleteAll, DeleteTrashed, rows

(* A remover touches its own progress, the rows only when it deletes all   *)
(* of them, and one file at a time.                                        *)
LEMMA RemoverFrame ==
  ASSUME TypeOK, NEW t \in Removers, RemoverStep(t) \/ RemoverOutside(t)
  PROVE  /\ UNCHANGED <<status, stage, counted, told, batchVars, crashes>>
         /\ UNCHANGED rows \/ (t \in AllDeletes /\ DeleteAllRows(t))
         /\ files' = files \/ \E x \in Assets : RemoveFile(t, x)
         /\ \A u \in Removers \ {t} : pcR'[u] = pcR[u] /\ todo'[u] = todo[u]
         /\ accountLock \notin {t, Nobody} => accountLock' = accountLock
<1> USE DEF TypeOK, rows
<1>1. CASE \/ Connect(t) \/ BeginRemoval(t) \/ SkipRemoval(t) \/ FinishRemoval(t)
           \/ GiveUp(t) \/ DropHandler(t)
  BY <1>1 DEF Connect, BeginRemoval, SkipRemoval, FinishRemoval, GiveUp, DropHandler,
              ReleaseAccount, removerVars
<1>2. CASE t \in AllDeletes /\ (LockForDeleteAll(t) \/ OpenDeleteAll(t) \/ DeleteAllRows(t))
  BY <1>2 DEF LockForDeleteAll, AccountFree, OpenDeleteAll, DeleteAllRows
<1>3. ASSUME NEW x \in Assets, RemoveFile(t, x) \/ KeepFile(t, x)
      PROVE  /\ UNCHANGED <<rows, told, batchVars, crashes, accountLock>>
             /\ files' = files \/ RemoveFile(t, x)
             /\ \A u \in Removers \ {t} : pcR'[u] = pcR[u] /\ todo'[u] = todo[u]
  BY <1>3 DEF RemoveFile, KeepFile
<1>4. QED
  BY <1>1, <1>2, <1>3 DEF RemoverStep, RemoverOutside

(* Messages come and go only with a batch, an import or a delete.          *)
LEMMA MessageChanges ==
  ASSUME TypeOK, [Next]_vars
  PROVE  \/ UNCHANGED <<stamp, held, convs>>
         \/ \E b \in Batches : CommitBatch(b)
         \/ \E r \in Runs, S \in SUBSET Guids : CliImport(r, S)
         \/ \E C \in SUBSET Convs : DeleteRows(C) /\ UNCHANGED <<status, counted>>
<1>1. CASE TrashStep
  BY <1>1, TrashFrame DEF AdmitDeleteAll, DeleteTrashed, rows
<1>2. ASSUME NEW t \in Removers, RemoverStep(t) \/ RemoverOutside(t)
      PROVE  \/ UNCHANGED <<stamp, held, convs>>
             \/ DeleteRows(Convs) /\ UNCHANGED <<status, counted>>
  BY <1>2, RemoverFrame DEF DeleteAllRows, rows
<1>3. CASE RunStep
  BY <1>3 DEF RunStep, CreateRun, SetStage, CompleteRun, DiscardRun
<1>4. CASE UploadStep
  BY <1>4, UploadFrame DEF rows
<1>5. ASSUME NEW b \in Batches, BatchOutside(b) \/ BatchStep(b)
      PROVE  UNCHANGED <<stamp, held, convs>> \/ CommitBatch(b)
  BY <1>5, BatchFrame
<1>6. QED
  BY <1>1, <1>2, <1>3, <1>4, <1>5 DEF Next, Crash, vars, rows

(* Only a removal takes files away.                                        *)
LEMMA FilesGo ==
  ASSUME TypeOK, [Next]_vars
  PROVE  files \subseteq files' \/ \E t \in Removers, x \in Assets : RemoveFile(t, x)
<1>1. CASE UNCHANGED vars \/ Crash
  BY <1>1 DEF vars, Crash
<1>2. CASE ~(UNCHANGED vars \/ Crash)
  BY <1>2, RunFrame, UploadFrame, BatchFrame, TrashFrame, RemoverFrame DEF Next
<1>3. QED
  BY <1>1, <1>2

(* A remover begins to remove with BeginRemoval, and then its work only    *)
(* shrinks.                                                                *)
LEMMA RemoverMoves ==
  ASSUME TypeOK, [Next]_vars, NEW t \in Removers, pcR'[t] = "removing"
  PROVE  BeginRemoval(t) \/ (pcR[t] = "removing" /\ todo'[t] \subseteq todo[t])
<1> USE DEF TypeOK
<1>1. CASE RunStep
  BY <1>1, RunFrame, RunProgress
<1>2. CASE UploadStep
  BY <1>2, UploadFrame DEF removerVars
<1>3. ASSUME NEW b \in Batches, BatchOutside(b) \/ BatchStep(b)
      PROVE  UNCHANGED removerVars
  BY <1>3, BatchFrame
<1>4. CASE TrashStep
  BY <1>4, TrashFrame DEF AdmitDeleteAll, DeleteTrashed, removerVars
<1>5. ASSUME RemoverStep(t)
      PROVE  BeginRemoval(t) \/ (pcR[t] = "removing" /\ todo'[t] \subseteq todo[t])
  BY <1>5 DEF RemoverStep, LockForDeleteAll, OpenDeleteAll, DeleteAllRows, Connect,
              SkipRemoval, RemoveFile, FinishRemoval
<1>6. ASSUME RemoverOutside(t) PROVE pcR[t] = "removing" /\ todo'[t] \subseteq todo[t]
  BY <1>6 DEF RemoverOutside, GiveUp, KeepFile, DropHandler, removerVars
<1>7. ASSUME NEW u \in Removers, u # t, RemoverStep(u) \/ RemoverOutside(u)
      PROVE  pcR[t] = "removing" /\ todo'[t] \subseteq todo[t]
  BY <1>7, RemoverFrame
<1>8. CASE Crash \/ UNCHANGED vars
  BY <1>8 DEF Crash, vars, removerVars
<1>9. QED
  BY <1>1, <1>2, <1>3, <1>4, <1>5, <1>6, <1>7, <1>8 DEF Next, removerVars

--------------------------------------------------------------------------------
(* Removals and runs exclude each other.  A remover looks for a running    *)
(* run after it has taken the write lock, and no run can start before it   *)
(* lets the lock go.                                                       *)
RemovalHoldsWriter ==
  /\ \A t \in Removers : pcR[t] = "removing" => writer = t
  /\ writer # Nobody => pcR[writer] = "removing" /\ ~Running

(* At the start nobody removes files.                                      *)
LEMMA RemovalInit == Init => RemovalHoldsWriter
BY DEF Init, RemovalHoldsWriter

(* A removal begins only with the write lock and no running run            *)
(* (unless_import_running, sweep_holding_lock), and a run is created only  *)
(* under that lock.  One that gives up lets the lock go.                   *)
LEMMA RemovalStep ==
  TypeOK /\ RemovalHoldsWriter /\ [Next]_vars => RemovalHoldsWriter'
<1> SUFFICES ASSUME TypeOK, RemovalHoldsWriter, [Next]_vars PROVE RemovalHoldsWriter'
  OBVIOUS
<1> USE TaskAssumption DEF RemovalHoldsWriter, TypeOK, Running
<1>1. CASE RunStep
  <2>1. writer = Nobody /\ writer' = Nobody
    BY <1>1, RunFrame
  <2>2. \A t \in Removers : pcR'[t] # "removing"
    BY <1>1, <2>1, RunProgress DEF Removers, Deletes
  <2>3. QED
    BY <2>1, <2>2
<1>2. CASE UploadStep
  BY <1>2, UploadFrame DEF rows, removerVars
<1>3. ASSUME NEW b \in Batches, BatchOutside(b) \/ BatchStep(b) PROVE RemovalHoldsWriter'
  BY <1>3, BatchFrame DEF removerVars
<1>4. CASE TrashStep
  <2>1. status' = status /\ writer' = writer
    BY <1>4, TrashFrame
  <2>2. \A t \in Removers : (pcR'[t] = "removing") <=> (pcR[t] = "removing")
    BY <1>4, TrashFrame DEF AdmitDeleteAll, DeleteTrashed, removerVars
  <2>3. writer \in Removers \cup {Nobody} /\ Running' = Running
    BY <2>1
  <2>4. QED
    BY <2>1, <2>2, <2>3
<1>5. ASSUME NEW t \in Removers,
             \/ t \in AllDeletes /\ (LockForDeleteAll(t) \/ OpenDeleteAll(t) \/ DeleteAllRows(t))
             \/ Connect(t) \/ SkipRemoval(t)
      PROVE  RemovalHoldsWriter'
  BY <1>5 DEF LockForDeleteAll, OpenDeleteAll, DeleteAllRows, Connect, SkipRemoval, rows
<1>6. ASSUME NEW t \in Removers, BeginRemoval(t) PROVE RemovalHoldsWriter'
  BY <1>6 DEF BeginRemoval, WriteLockFree, MayRemove, rows, Removers, Deletes
<1>7. ASSUME NEW t \in Removers, FinishRemoval(t) \/ GiveUp(t) PROVE RemovalHoldsWriter'
  BY <1>7 DEF FinishRemoval, GiveUp, rows
<1>8. ASSUME NEW t \in Removers, NEW x \in Assets, RemoveFile(t, x) \/ KeepFile(t, x)
      PROVE  RemovalHoldsWriter'
  BY <1>8 DEF RemoveFile, KeepFile, rows
<1>9. ASSUME NEW t \in Removers, DropHandler(t) PROVE RemovalHoldsWriter'
  BY <1>9 DEF DropHandler, rows, removerVars
<1>10. CASE Crash
  BY <1>10 DEF Crash, rows
<1>11. CASE UNCHANGED vars
  BY <1>11 DEF vars, rows, removerVars
<1>12. QED
  BY <1>1, <1>2, <1>3, <1>4, <1>5, <1>6, <1>7, <1>8, <1>9, <1>10, <1>11
     DEF Next, RemoverStep, RemoverOutside

(* No file is removed while a run is running or another removal holds the  *)
(* write lock (operation order of unless_import_running).                  *)
THEOREM RemovalExclusive == Spec => [](TypeOK /\ RemovalHoldsWriter)
BY TypeInit, TypeStep, RemovalInit, RemovalStep, PTL DEF Spec

--------------------------------------------------------------------------------
(* What a client was told.  A run that is not running has been told        *)
(* nothing that counts, so while files are removed nobody relies on one.   *)
ToldWhileRunning == \A r \in Runs : status[r] # "running" => told[r] = {}

ToldInv == ToldWhileRunning /\ ToldKept

(* At the start no run was told of a file.                                 *)
LEMMA ToldInit == Init => ToldInv
BY DEF Init, ToldInv, ToldWhileRunning, ToldKept

(* A file is told of while a run is running, and then no removal is under  *)
(* way or can begin (resolve_asset_lookup against has_running_import).     *)
LEMMA ToldStep ==
  TypeOK /\ RemovalHoldsWriter /\ ToldInv /\ [Next]_vars => ToldInv'
<1> SUFFICES ASSUME TypeOK, RemovalHoldsWriter, ToldInv, [Next]_vars PROVE ToldInv'
  OBVIOUS
<1> USE DEF ToldInv, ToldWhileRunning, ToldKept
<1>1. ASSUME NEW r \in Runs, CreateRun(r) PROVE ToldInv'
  BY <1>1 DEF CreateRun, TypeOK
<1>2. ASSUME NEW r \in Runs, NEW s \in Stages, SetStage(r, s) PROVE ToldInv'
  BY <1>2 DEF SetStage
<1>3. ASSUME NEW r \in Runs, NEW s \in Outcomes, CompleteRun(r, s) PROVE ToldInv'
  BY <1>3 DEF CompleteRun, ForgetTold, TypeOK
<1>4. ASSUME NEW r \in Runs, DiscardRun(r) PROVE ToldInv'
  BY <1>4 DEF DiscardRun, ForgetTold, TypeOK
<1>5. ASSUME NEW x \in Assets, HeadAsset(x) \/ StoreAsset(x) PROVE ToldInv'
  BY <1>5 DEF HeadAsset, StoreAsset, TellRunning, rows, TypeOK
<1>6. ASSUME NEW b \in Batches, BatchOutside(b) \/ BatchStep(b) PROVE ToldInv'
  BY <1>6, BatchFrame
<1>7. ASSUME NEW r \in Runs, NEW S \in SUBSET Guids, CliImport(r, S) PROVE ToldInv'
  BY <1>7 DEF CliImport
<1>8. CASE TrashStep
  BY <1>8, TrashFrame
<1>9. ASSUME NEW t \in Removers, RemoverStep(t) \/ RemoverOutside(t),
             \A x \in Assets : ~RemoveFile(t, x)
      PROVE  ToldInv'
  BY <1>9, RemoverFrame
<1>10. ASSUME NEW t \in Removers, NEW x \in Assets, RemoveFile(t, x) PROVE ToldInv'
  <2>1. ~Running
    BY <1>10, TaskAssumption DEF RemoveFile, RemovalHoldsWriter, Removers, Deletes
  <2>2. \A r \in Runs : told[r] = {}
    BY <2>1 DEF Running
  <2>3. QED
    BY <1>10, <2>2 DEF RemoveFile, rows
<1>11. CASE Crash
  BY <1>11 DEF Crash, rows
<1>12. CASE UNCHANGED vars
  BY <1>12 DEF vars, rows
<1>13. QED
  BY <1>1, <1>2, <1>3, <1>4, <1>5, <1>6, <1>7, <1>8, <1>9, <1>10, <1>11, <1>12
     DEF Next, RunStep, UploadStep

(* Once a client has been told, during its running Import Run, that the    *)
(* server has a file, the file stays until the run ends, for any number of *)
(* requests, deletes, sweeps, dropped connections and crashes              *)
(* (asset_store.rs unless_import_running and sweep_holding_lock).          *)
THEOREM ToldFilesKept == Spec => []ToldKept
<1>1. Init => TypeOK /\ RemovalHoldsWriter /\ ToldInv
  BY TypeInit, RemovalInit, ToldInit
<1>2. TypeOK /\ RemovalHoldsWriter /\ ToldInv /\ [Next]_vars
        => (TypeOK /\ RemovalHoldsWriter /\ ToldInv)'
  BY TypeStep, RemovalStep, ToldStep
<1>3. ToldInv => ToldKept
  BY DEF ToldInv
<1>4. QED
  BY <1>1, <1>2, <1>3, PTL DEF Spec

--------------------------------------------------------------------------------
(* No row of the store changes while a removal holds the write lock.       *)
LEMMA RowsStandStill ==
  ASSUME TypeOK, writer # Nobody, [Next]_vars
  PROVE  UNCHANGED <<status, counted, stamp, held, convs, trashed>>
<1>1. ~RunStep
  BY RunFrame
<1>2. CASE UploadStep
  BY <1>2, UploadFrame DEF rows
<1>3. ASSUME NEW b \in Batches, BatchOutside(b) \/ BatchStep(b)
      PROVE  UNCHANGED <<status, counted, stamp, held, convs, trashed>>
  BY <1>3, BatchFrame DEF CommitBatch, WriteLockFree
<1>4. CASE TrashStep
  BY <1>4 DEF TrashStep, MoveToTrash, Restore, DeleteTrashed, AdmitDeleteAll, CanTransact,
              WriteLockFree, rows
<1>5. ASSUME NEW t \in Removers, RemoverStep(t) \/ RemoverOutside(t) PROVE UNCHANGED rows
  BY <1>5, RemoverFrame DEF DeleteAllRows, WriteLockFree
<1>6. QED
  BY <1>1, <1>2, <1>3, <1>4, <1>5 DEF Next, Crash, vars, rows

(* Promoting stamps new messages with the batch's own run only.            *)
LEMMA PromoteStamps ==
  ASSUME NEW q \in Runs, NEW S \in SUBSET Guids, NEW mode, NEW onDisk,
         Promote(q, S, mode, onDisk), NEW g \in Guids
  PROVE  /\ stamp'[g] \in {stamp[g], q, NoRun}
         /\ stamp'[g] \notin {stamp[g], NoRun} => g \in S
         /\ stamp[g] # NoRun /\ mode # "replace" => stamp'[g] = stamp[g]
         /\ stamp[g] # NoRun /\ SourceOf[g] # RunSource[q] => stamp'[g] = stamp[g]
BY DEF Promote, Stored, OfSource

(* A batch checked again that its run is running, and a file its client    *)
(* was told of is there.                                                   *)
LEMMA LandsStep ==
  TypeOK /\ ToldKept /\ [Next]_vars =>
    \A g \in Guids, r \in Runs : stamp[g] # r /\ stamp'[g] = r =>
      /\ status[r] = "running"
      /\ AssetOf[g] \in told[r] => g \in held'
<1> SUFFICES ASSUME TypeOK, ToldKept, [Next]_vars, NEW g \in Guids, NEW r \in Runs,
                    stamp[g] # r, stamp'[g] = r
             PROVE  /\ status[r] = "running"
                    /\ AssetOf[g] \in told[r] => g \in held'
  OBVIOUS
<1>1. ASSUME NEW q \in Runs, NEW S \in SUBSET Guids, NEW mode, NEW onDisk,
             files \subseteq onDisk, Promote(q, S, mode, onDisk)
      PROVE  q = r /\ (AssetOf[g] \in told[r] => g \in held')
  <2>1. q = r /\ g \in S
    BY <1>1, PromoteStamps, RunAssumption
  <2>2. g \in held' \/ AssetOf[g] \notin onDisk
    BY <1>1, <2>1 DEF Promote
  <2>3. QED
    BY <1>1, <2>1, <2>2 DEF ToldKept
<1>2. ASSUME NEW b \in Batches, CommitBatch(b)
      PROVE  status[r] = "running" /\ (AssetOf[g] \in told[r] => g \in held')
  BY <1>1, <1>2 DEF CommitBatch, StillRunning, TypeOK
<1>3. ASSUME NEW q \in Runs, NEW S \in SUBSET Guids, CliImport(q, S)
      PROVE  status[r] = "running" /\ (AssetOf[g] \in told[r] => g \in held')
  <2>1. Promote(q, S, RunMode[q], files') /\ files \subseteq files' /\ status[q] = "running"
    BY <1>3 DEF CliImport
  <2>2. QED
    BY <1>1, <2>1
<1>4. ASSUME NEW C \in SUBSET Convs, DeleteRows(C) PROVE FALSE
  BY <1>4, RunAssumption DEF DeleteRows
<1>5. CASE stamp' = stamp
  BY <1>5
<1>6. QED
  BY <1>2, <1>3, <1>4, <1>5, MessageChanges

(* Whatever is deleted meanwhile, a message lands only while its run is    *)
(* running, and with its file when the run's client was told it was there  *)
(* (require_running and promote against the answers of head_asset and      *)
(* store_verified).                                                        *)
THEOREM LandsPromised == Spec => LandsAsPromised
<1>1. TypeOK /\ ToldKept /\ [Next]_vars =>
        [\A g \in Guids, r \in Runs : stamp[g] # r /\ stamp'[g] = r =>
           /\ status[r] = "running"
           /\ AssetOf[g] \in told[r] => g \in held']_vars
  BY LandsStep
<1>2. QED
  BY <1>1, TypeCorrect, ToldFilesKept, PTL DEF Spec, LandsAsPromised

--------------------------------------------------------------------------------
(* The sweep at a run's end.  The rows it compares the store with cannot   *)
(* change before it lets the write lock go.                                *)
LEMMA SweepInit == Init => SweepSparesNamed
BY DEF Init, SweepSparesNamed, Removers

(* A sweep lists the unnamed files under the write lock, and no other      *)
(* transaction commits before the sweep ends (sweep_holding_lock).         *)
LEMMA SweepStep ==
  TypeOK /\ RemovalHoldsWriter /\ SweepSparesNamed /\ [Next]_vars => SweepSparesNamed'
<1> SUFFICES ASSUME TypeOK, RemovalHoldsWriter, SweepSparesNamed, [Next]_vars,
                    NEW r \in Runs, pcR'[r] = "removing"
             PROVE  todo'[r] \cap Named' = {}
  BY DEF SweepSparesNamed
<1>1. r \in Removers
  BY DEF Removers
<1>2. CASE BeginRemoval(r)
  <2>1. todo'[r] = ToRemove(r) /\ Named' = Named
    BY <1>1, <1>2 DEF BeginRemoval, rows, Named, AssetsOf, TypeOK
  <2>2. ToRemove(r) = Assets \ Named
    BY TaskAssumption DEF ToRemove, Unnamed, Deletes
  <2>3. QED
    BY <2>1, <2>2
<1>3. CASE pcR[r] = "removing" /\ todo'[r] \subseteq todo[r]
  <2>1. writer # Nobody
    BY <1>1, <1>3, TaskAssumption DEF RemovalHoldsWriter, Removers
  <2>2. Named' = Named
    BY <2>1, RowsStandStill DEF rows, Named, AssetsOf
  <2>3. QED
    BY <1>3, <2>2 DEF SweepSparesNamed
<1>4. QED
  BY <1>1, <1>2, <1>3, RemoverMoves

(* The sweep at a run's end never removes a file a row names, not even one *)
(* while it walks the store (sweep_holding_lock).                          *)
THEOREM SweepCorrect == Spec => []SweepSparesNamed
BY SweepInit, SweepStep, RemovalExclusive, PTL DEF Spec

--------------------------------------------------------------------------------
(* A run that has ended.                                                   *)

(* No step touches a run that has ended: every write to it checks that it  *)
(* is running (require_running_import, complete_import, discard_import).   *)
LEMMA EndedStep ==
  ASSUME TypeOK, [Next]_vars, NEW r \in Runs, status[r] \in EndStatuses
  PROVE  /\ status'[r] = status[r] /\ counted'[r] = counted[r]
         /\ \A g \in Guids : stamp'[g] = r => stamp[g] = r
<1>1. status[r] # "running" /\ status[r] # "none"
  BY DEF EndStatuses
<1>2. status'[r] = status[r] /\ counted'[r] = counted[r]
  <2>1. CASE RunStep
    BY <1>1, <2>1 DEF TypeOK, RunStep, CreateRun, SetStage, CompleteRun, DiscardRun, CliImport
  <2>2. CASE ~RunStep
    BY <2>2, UploadFrame, TrashFrame, BatchFrame, RemoverFrame DEF Next, Crash, vars, rows
  <2>3. QED
    BY <2>1, <2>2
<1>3. ASSUME NEW g \in Guids, stamp'[g] = r PROVE stamp[g] = r
  <2>1. ASSUME NEW b \in Batches, CommitBatch(b) PROVE stamp[g] = r
    <3>1. runB[b] \in Runs /\ runB[b] # r
      BY <1>1, <2>1 DEF CommitBatch, StillRunning, TypeOK
    <3>2. Promote(runB[b], msgsB[b], modeB[b], files) /\ msgsB[b] \in SUBSET Guids
      BY <2>1 DEF CommitBatch, TypeOK
    <3>3. QED
      BY <1>3, <3>1, <3>2, PromoteStamps, RunAssumption
  <2>2. ASSUME NEW q \in Runs, NEW S \in SUBSET Guids, CliImport(q, S) PROVE stamp[g] = r
    <3>1. q # r
      BY <1>1, <2>2 DEF CliImport
    <3>2. CASE Promote(q, S, RunMode[q], files')
      BY <1>3, <3>1, <3>2, PromoteStamps, RunAssumption
    <3>3. QED
      BY <1>3, <2>2, <3>2 DEF CliImport
  <2>3. ASSUME NEW C \in SUBSET Convs, DeleteRows(C) PROVE stamp[g] = r
    BY <1>3, <2>3, RunAssumption DEF DeleteRows
  <2>4. QED
    BY <1>3, <2>1, <2>2, <2>3, MessageChanges
<1>4. QED
  BY <1>2, <1>3

(* An ended run is a permanent record: its status and count stay, and no   *)
(* batch that was admitted while it ran adds a message to it               *)
(* (require_running in the batch's own transaction).                       *)
THEOREM EndedFrozen == Spec => EndedRunsFrozen
<1>1. TypeOK /\ [Next]_vars =>
        [\A r \in Runs : status[r] \in EndStatuses =>
           /\ status'[r] = status[r] /\ counted'[r] = counted[r]
           /\ \A g \in Guids : stamp'[g] = r => stamp[g] = r]_vars
  BY EndedStep
<1>2. QED
  BY <1>1, TypeCorrect, PTL DEF Spec, EndedRunsFrozen

--------------------------------------------------------------------------------
(* Replacing.  A batch decides to wipe its source before its transaction;  *)
(* the account's lock keeps the decision true until it commits.            *)
UnderLock == {"locked", "opened", "stored"}

LockHeld == \A b \in Batches : pcB[b] \in UnderLock => accountLock = b

ReplaceDecided ==
  /\ \A b \in Batches : pcB[b] = "opened" /\ modeB[b] = "replace" =>
       RunMode[runB[b]] = "replace" /\ FirstBatch(runB[b])
  /\ \A r \in CliRuns : pcR[r] = "idle" => FirstBatch(r)

ReplaceInv == LockHeld /\ ReplaceDecided

(* At the start no batch has decided anything.                             *)
LEMMA ReplaceInit == Init => ReplaceInv
BY RunAssumption
   DEF Init, ReplaceInv, LockHeld, UnderLock, ReplaceDecided, FirstBatch, StampedBy

(* Only a batch of run r, or the command's import of it, stamps with r.    *)
LEMMA FirstBatchKept ==
  ASSUME TypeOK, [Next]_vars, NEW r \in Runs, FirstBatch(r),
         \A b \in Batches : runB[b] = r => ~CommitBatch(b),
         \A S \in SUBSET Guids : ~CliImport(r, S)
  PROVE  FirstBatch(r)'
<1> SUFFICES ASSUME NEW g \in Guids, stamp'[g] = r PROVE FALSE
  BY DEF FirstBatch, StampedBy
<1>1. stamp[g] # r
  BY DEF FirstBatch, StampedBy
<1>2. ASSUME NEW b \in Batches, CommitBatch(b) PROVE FALSE
  <2>1. /\ Promote(runB[b], msgsB[b], modeB[b], files)
        /\ msgsB[b] \in SUBSET Guids /\ runB[b] \in Runs /\ runB[b] # r
    BY <1>2 DEF CommitBatch, TypeOK
  <2>2. stamp'[g] \in {stamp[g], runB[b], NoRun}
    BY <2>1, PromoteStamps
  <2>3. QED
    BY <1>1, <2>1, <2>2, RunAssumption
<1>3. ASSUME NEW q \in Runs, NEW S \in SUBSET Guids, CliImport(q, S) PROVE FALSE
  <2>1. CASE Promote(q, S, RunMode[q], files')
    BY <1>1, <1>3, <2>1, PromoteStamps, RunAssumption
  <2>2. QED
    BY <1>1, <1>3, <2>1 DEF CliImport
<1>4. ASSUME NEW C \in SUBSET Convs, DeleteRows(C) PROVE FALSE
  BY <1>1, <1>4, RunAssumption DEF DeleteRows
<1>5. QED
  BY <1>1, <1>2, <1>3, <1>4, MessageChanges

(* What may happen to a batch under the lock in a step.                    *)
LEMMA BatchMoves ==
  ASSUME TypeOK, [Next]_vars, NEW b \in Batches, pcB'[b] \in UnderLock
  PROVE  \/ LockAccount(b)
         \/ /\ pcB[b] \in UnderLock /\ runB'[b] = runB[b] /\ ~AnswerBatch(b)
            /\ \/ pcB'[b] # "opened" \/ OpenBatch(b)
               \/ pcB[b] = "opened" /\ modeB'[b] = modeB[b] /\ ~CommitBatch(b)
<1> USE DEF TypeOK, UnderLock
<1> DEFINE Stays == /\ pcB[b] \in UnderLock /\ runB'[b] = runB[b] /\ ~AnswerBatch(b)
                    /\ pcB[b] = pcB'[b] /\ modeB'[b] = modeB[b] /\ ~CommitBatch(b)
<1>1. CASE UNCHANGED batchVars
  BY <1>1 DEF batchVars, AnswerBatch, CommitBatch
<1>2. ASSUME NEW c \in Batches, c # b, BatchOutside(c) \/ BatchStep(c) PROVE Stays
  <2>1. pcB'[b] = pcB[b] /\ runB'[b] = runB[b] /\ modeB'[b] = modeB[b]
    BY <1>2 DEF BatchOutside, AdmitBatch, FailBatch, BatchStep, TakePermit, LockAccount,
                OpenBatch, CommitBatch, RefuseBatch, FinishBatch, AnswerBatch
  <2>2. QED
    BY <2>1 DEF AnswerBatch, CommitBatch
<1>3. ~BatchOutside(b)
  BY DEF BatchOutside, AdmitBatch, FailBatch, AnswerBatch
<1>4. CASE BatchStep(b)
  BY <1>4 DEF BatchStep, TakePermit, LockAccount, OpenBatch, CommitBatch, RefuseBatch,
              FinishBatch, AnswerBatch
<1>5. ~Crash
  BY DEF Crash
<1>6. QED
  BY <1>1, <1>2, <1>3, <1>4, <1>5, RunFrame, UploadFrame, TrashFrame, RemoverFrame
     DEF Next, vars, batchVars

(* The lock passes from one holder to the next only through Nobody.        *)
LEMMA LockStep == TypeOK /\ LockHeld /\ [Next]_vars => LockHeld'
<1> SUFFICES ASSUME TypeOK, LockHeld, [Next]_vars,
                    NEW b \in Batches, pcB'[b] \in UnderLock
             PROVE  accountLock' = b
  BY DEF LockHeld
<1>1. CASE LockAccount(b)
  BY <1>1 DEF LockAccount
<1>2. CASE pcB[b] \in UnderLock /\ ~LockAccount(b)
  <2>1. accountLock = b /\ b # Nobody /\ b \notin Removers
    BY <1>2, TaskAssumption DEF LockHeld, Removers, Deletes
  <2>2. CASE BatchOutside(b) \/ BatchStep(b)
    <3>1. ~AnswerBatch(b)
      BY <1>2, BatchMoves
    <3>2. QED
      BY <1>2, <2>1, <2>2, <3>1
         DEF BatchOutside, AdmitBatch, FailBatch, BatchStep, TakePermit, OpenBatch,
             CommitBatch, RefuseBatch, FinishBatch
  <2>3. ASSUME NEW c \in Batches, c # b, BatchOutside(c) \/ BatchStep(c)
        PROVE  accountLock' = b
    BY <2>1, <2>3, BatchFrame
  <2>4. ASSUME NEW t \in Removers, RemoverStep(t) \/ RemoverOutside(t)
        PROVE  accountLock' = b
    BY <2>1, <2>4, RemoverFrame
  <2>5. ~Crash
    BY DEF Crash, UnderLock
  <2>6. QED
    BY <2>1, <2>2, <2>3, <2>4, <2>5, RunFrame, UploadFrame, TrashFrame DEF Next, vars
<1>3. QED
  BY <1>1, <1>2, BatchMoves

(* An import command's run is idle until its one import.                   *)
LEMMA CliIdle ==
  ASSUME TypeOK, [Next]_vars, NEW r \in CliRuns, pcR'[r] = "idle"
  PROVE  pcR[r] = "idle" /\ \A S \in SUBSET Guids : ~CliImport(r, S)
<1> USE RunAssumption DEF TypeOK, Removers
<1>1. \A S \in SUBSET Guids : ~CliImport(r, S)
  BY DEF CliImport
<1>2. CASE RunStep
  BY <1>1, <1>2, RunProgress
<1>3. CASE TrashStep
  BY <1>1, <1>3, TrashFrame, TaskAssumption DEF AdmitDeleteAll, DeleteTrashed, removerVars
<1>4. ASSUME RemoverStep(r) \/ RemoverOutside(r) PROVE pcR[r] = "idle"
  BY <1>4 DEF RemoverStep, LockForDeleteAll, OpenDeleteAll, DeleteAllRows, Connect,
              BeginRemoval, SkipRemoval, RemoveFile, FinishRemoval, RemoverOutside, GiveUp,
              KeepFile, DropHandler, removerVars
<1>5. ASSUME NEW t \in Removers, t # r, RemoverStep(t) \/ RemoverOutside(t)
      PROVE  pcR'[r] = pcR[r]
  BY <1>5, RemoverFrame
<1>6. CASE Crash
  BY <1>1, <1>6 DEF Crash
<1>7. QED
  BY <1>1, <1>2, <1>3, <1>4, <1>5, <1>6, UploadFrame, BatchFrame DEF Next, vars, removerVars

(* The decision to wipe holds until the batch commits, because no other    *)
(* batch of the account runs in between (run_import_path).                 *)
LEMMA ReplaceStep == TypeOK /\ ReplaceInv /\ [Next]_vars => ReplaceInv'
<1> SUFFICES ASSUME TypeOK, ReplaceInv, [Next]_vars PROVE ReplaceDecided'
  BY LockStep DEF ReplaceInv
<1>1. ASSUME NEW b \in Batches, pcB'[b] = "opened", modeB'[b] = "replace"
      PROVE  RunMode[runB'[b]] = "replace" /\ FirstBatch(runB[b])' /\ runB'[b] = runB[b]
  <2>1. CASE OpenBatch(b)
    <3>1. runB' = runB /\ stamp' = stamp
      BY <2>1 DEF OpenBatch, rows
    <3>2. BatchMode(runB[b]) = "replace"
      BY <1>1, <2>1 DEF OpenBatch, TypeOK
    <3>3. RunMode[runB[b]] = "replace" /\ FirstBatch(runB[b])
      BY <3>2 DEF BatchMode
    <3>4. QED
      BY <3>1, <3>3 DEF FirstBatch, StampedBy
  <2>2. CASE /\ pcB[b] = "opened" /\ runB'[b] = runB[b] /\ modeB'[b] = modeB[b]
             /\ ~CommitBatch(b)
    <3>1. runB[b] \in Runs \ CliRuns /\ accountLock = b
      BY <2>2 DEF TypeOK, ReplaceInv, LockHeld, UnderLock
    <3>2. RunMode[runB[b]] = "replace" /\ FirstBatch(runB[b])
      BY <1>1, <2>2 DEF ReplaceInv, ReplaceDecided
    <3>3. \A c \in Batches : runB[c] = runB[b] => ~CommitBatch(c)
      BY <2>2, <3>1 DEF CommitBatch, ReplaceInv, LockHeld, UnderLock
    <3>4. \A S \in SUBSET Guids : ~CliImport(runB[b], S)
      BY <3>1 DEF CliImport
    <3>5. QED
      BY <2>2, <3>1, <3>2, <3>3, <3>4, FirstBatchKept
  <2>3. ~LockAccount(b)
    BY <1>1 DEF LockAccount, TypeOK
  <2>4. QED
    BY <1>1, <2>1, <2>2, <2>3, BatchMoves DEF UnderLock
<1>2. ASSUME NEW r \in CliRuns, pcR'[r] = "idle" PROVE FirstBatch(r)'
  <2>1. \A b \in Batches : runB[b] = r => ~CommitBatch(b)
    BY DEF CommitBatch, TypeOK
  <2>2. FirstBatch(r)
    BY <1>2, CliIdle DEF ReplaceInv, ReplaceDecided
  <2>3. QED
    BY <1>2, <2>1, <2>2, CliIdle, FirstBatchKept, RunAssumption
<1>3. QED
  BY <1>1, <1>2 DEF ReplaceDecided, FirstBatch, StampedBy

(* What a step may do to a stored message: a conversation goes, or a       *)
(* replace run wipes what it did not stamp itself (promote_step).          *)
LEMMA RewriteStep ==
  ASSUME TypeOK, ReplaceInv, [Next]_vars, NEW g \in Stored, stamp'[g] # stamp[g]
  PROVE  \/ ConvOf[g] \notin convs'
         \/ \E r \in Runs :
              /\ status[r] = "running" /\ stamp[g] # r
              /\ RunMode[r] = "replace" /\ RunSource[r] = SourceOf[g]
<1>1. g \in Guids /\ stamp[g] # NoRun
  BY DEF Stored
<1>2. ASSUME NEW b \in Batches, CommitBatch(b)
      PROVE  \E r \in Runs :
               /\ status[r] = "running" /\ stamp[g] # r
               /\ RunMode[r] = "replace" /\ RunSource[r] = SourceOf[g]
  <2>1. /\ runB[b] \in Runs /\ status[runB[b]] = "running" /\ pcB[b] = "opened"
        /\ msgsB[b] \in SUBSET Guids /\ Promote(runB[b], msgsB[b], modeB[b], files)
    BY <1>2 DEF CommitBatch, StillRunning, TypeOK
  <2>2. modeB[b] = "replace" /\ RunSource[runB[b]] = SourceOf[g]
    BY <1>1, <2>1, PromoteStamps
  <2>3. RunMode[runB[b]] = "replace" /\ stamp[g] # runB[b]
    BY <1>1, <2>1, <2>2 DEF ReplaceInv, ReplaceDecided, FirstBatch, StampedBy
  <2>4. QED
    BY <2>1, <2>2, <2>3
<1>3. ASSUME NEW q \in Runs, NEW S \in SUBSET Guids, CliImport(q, S)
      PROVE  \E r \in Runs :
               /\ status[r] = "running" /\ stamp[g] # r
               /\ RunMode[r] = "replace" /\ RunSource[r] = SourceOf[g]
  <2>1. status[q] = "running" /\ stamp[g] # q
    BY <1>1, <1>3 DEF CliImport, ReplaceInv, ReplaceDecided, FirstBatch, StampedBy
  <2>2. Promote(q, S, RunMode[q], files')
    BY <1>3 DEF CliImport
  <2>3. RunMode[q] = "replace" /\ RunSource[q] = SourceOf[g]
    BY <1>1, <2>2, PromoteStamps
  <2>4. QED
    BY <2>1, <2>3
<1>4. ASSUME NEW C \in SUBSET Convs, DeleteRows(C) PROVE ConvOf[g] \notin convs'
  BY <1>1, <1>4 DEF DeleteRows, InConvs
<1>5. QED
  BY <1>2, <1>3, <1>4, MessageChanges

(* A replace run destroys what earlier runs stored of its source and never *)
(* what one of its own batches stored (import_on_conn's has_messages under *)
(* the account's lock, and delete_messages_for_source).                    *)
THEOREM ReplaceOnce == Spec => OnlyReplaceRewrites
<1>1. TypeOK /\ ReplaceInv /\ [Next]_vars => (TypeOK /\ ReplaceInv)'
  BY TypeStep, ReplaceStep
<1>2. TypeOK /\ ReplaceInv /\ [Next]_vars =>
        [\A g \in Stored : stamp'[g] # stamp[g] =>
           \/ ConvOf[g] \notin convs'
           \/ \E r \in Runs :
                /\ status[r] = "running" /\ stamp[g] # r
                /\ RunMode[r] = "replace" /\ RunSource[r] = SourceOf[g]]_vars
  BY RewriteStep
<1>3. QED
  BY <1>1, <1>2, TypeInit, ReplaceInit, PTL DEF Spec, OnlyReplaceRewrites

--------------------------------------------------------------------------------
(* Files that rows name.  While a delete of all messages holds the         *)
(* account's lock no batch names a file, so from its transaction on no row *)
(* names one.  An import command takes no such lock.                       *)
NoCommandBesideDelete == AllDeletes = {} \/ CliRuns = {}

DeletePhases == {"locked", "opened", "pending", "connected", "removing"}
Emptied == {"pending", "connected", "removing"}

DeleteAllAlone ==
  \A d \in AllDeletes : accountLock = d =>
    pcR[d] \in DeletePhases /\ (pcR[d] \in Emptied => held = {})

(* At the start nobody holds the lock.                                     *)
LEMMA AloneInit == Init => DeleteAllAlone
BY TaskAssumption DEF Init, DeleteAllAlone, Deletes

(* Under the account's lock no row comes to name a file.                   *)
LEMMA HeldStaysEmpty ==
  ASSUME NoCommandBesideDelete, TypeOK, LockHeld, [Next]_vars, NEW d \in AllDeletes,
         accountLock = d, held = {}
  PROVE  held' = {}
<1>1. \A b \in Batches : ~CommitBatch(b)
  BY TaskAssumption DEF LockHeld, UnderLock, CommitBatch, Deletes
<1>2. \A r \in Runs, S \in SUBSET Guids : ~CliImport(r, S)
  BY DEF CliImport, NoCommandBesideDelete
<1>3. ASSUME NEW C \in SUBSET Convs, DeleteRows(C) PROVE held' = {}
  BY <1>3 DEF DeleteRows
<1>4. QED
  BY <1>1, <1>2, <1>3, MessageChanges

(* How a delete of all messages that has the lock after a step came there. *)
LEMMA DeleteAllMoves ==
  ASSUME TypeOK, DeleteAllAlone, [Next]_vars, NEW d \in AllDeletes, accountLock' = d
  PROVE  \/ pcR'[d] = "locked"
         \/ /\ accountLock = d /\ pcR'[d] \in DeletePhases
            /\ pcR'[d] \in Emptied => held' = {} \/ pcR[d] \in Emptied
<1> DEFINE Moved == \/ pcR'[d] = "locked"
                    \/ /\ accountLock = d /\ pcR'[d] \in DeletePhases
                       /\ pcR'[d] \in Emptied => held' = {} \/ pcR[d] \in Emptied
<1> USE TaskAssumption DEF TypeOK, Removers, Deletes, DeletePhases, Emptied
<1>1. ASSUME accountLock = d, pcR'[d] = pcR[d] PROVE Moved
  BY <1>1 DEF DeleteAllAlone
<1>2. CASE RunStep
  BY <1>1, <1>2, RunFrame, RunProgress
<1>3. CASE UploadStep
  BY <1>1, <1>3, UploadFrame DEF removerVars
<1>4. ASSUME NEW b \in Batches, BatchOutside(b) \/ BatchStep(b)
      PROVE  pcR' = pcR /\ accountLock = d
  <2>1. pcR' = pcR
    BY <1>4, BatchFrame DEF removerVars
  <2>2. accountLock \in {b, Nobody} => accountLock' \in {b, Nobody}
    BY <1>4 DEF BatchOutside, AdmitBatch, FailBatch, BatchStep, TakePermit, LockAccount,
                OpenBatch, CommitBatch, RefuseBatch, FinishBatch, AnswerBatch
  <2>3. QED
    BY <1>4, <2>1, <2>2, BatchFrame
<1>5. CASE TrashStep
  <2>1. accountLock = d /\ pcR[d] # "idle"
    BY <1>5, TrashFrame DEF DeleteAllAlone
  <2>2. pcR'[d] = pcR[d]
    BY <1>5, <2>1, TrashFrame DEF AdmitDeleteAll, DeleteTrashed, removerVars
  <2>3. QED
    BY <1>1, <2>1, <2>2
<1>6. ASSUME DeleteAllRows(d) PROVE Moved
  <2>1. held \subseteq InConvs(Convs)
    BY BackupAssumption DEF InConvs, Stored
  <2>2. QED
    BY <1>6, <2>1 DEF DeleteAllRows, DeleteRows
<1>7. ASSUME RemoverStep(d) \/ RemoverOutside(d), ~DeleteAllRows(d) PROVE Moved
  <2>1. \A r \in Runs : r # d
    OBVIOUS
  <2>2. CASE LockForDeleteAll(d) \/ OpenDeleteAll(d)
    BY <2>2 DEF LockForDeleteAll, OpenDeleteAll
  <2>3. CASE Connect(d) \/ BeginRemoval(d)
    BY <2>3 DEF Connect, BeginRemoval
  <2>4. ~(SkipRemoval(d) \/ FinishRemoval(d) \/ GiveUp(d) \/ DropHandler(d))
    BY DEF SkipRemoval, FinishRemoval, GiveUp, DropHandler, ReleaseAccount
  <2>5. ASSUME NEW x \in Assets, RemoveFile(d, x) \/ KeepFile(d, x) PROVE Moved
    BY <1>1, <2>5 DEF RemoveFile, KeepFile
  <2>6. QED
    BY <1>7, <2>2, <2>3, <2>4, <2>5 DEF RemoverStep, RemoverOutside
<1>8. ASSUME NEW t \in Removers, t # d, RemoverStep(t) \/ RemoverOutside(t) PROVE Moved
  <2>1. pcR'[d] = pcR[d]
    BY <1>8, RemoverFrame
  <2>2. accountLock \in {t, Nobody} => accountLock' \in {t, Nobody}
    BY <1>8 DEF RemoverStep, LockForDeleteAll, OpenDeleteAll, DeleteAllRows, Connect,
                BeginRemoval, SkipRemoval, RemoveFile, FinishRemoval, RemoverOutside, GiveUp,
                KeepFile, DropHandler, ReleaseAccount
  <2>3. accountLock = d
    BY <1>8, <2>2, RemoverFrame
  <2>4. QED
    BY <1>1, <2>1, <2>3
<1>9. ~Crash
  BY DEF Crash
<1>10. CASE UNCHANGED vars
  BY <1>1, <1>10 DEF vars, removerVars
<1>11. QED
  BY <1>1, <1>2, <1>3, <1>4, <1>5, <1>6, <1>7, <1>8, <1>9, <1>10 DEF Next

(* A delete of all messages keeps the account's lock to itself from before *)
(* its transaction on (delete_account_messages).                           *)
LEMMA AloneStep ==
  ASSUME NoCommandBesideDelete, TypeOK, LockHeld, DeleteAllAlone, [Next]_vars
  PROVE  DeleteAllAlone'
<1> SUFFICES ASSUME NEW d \in AllDeletes, accountLock' = d
             PROVE  pcR'[d] \in DeletePhases /\ (pcR'[d] \in Emptied => held' = {})
  BY DEF DeleteAllAlone
<1>1. CASE pcR'[d] = "locked"
  BY <1>1 DEF DeletePhases, Emptied
<1>2. CASE accountLock = d /\ pcR[d] \in Emptied
  BY <1>2, DeleteAllMoves, HeldStaysEmpty DEF DeleteAllAlone, DeletePhases
<1>3. QED
  BY <1>1, <1>2, DeleteAllMoves

StoreInv ==
  TypeOK /\ RemovalHoldsWriter /\ SweepSparesNamed /\ ReplaceInv /\ DeleteAllAlone

(* The conjunction of the above is inductive.                              *)
LEMMA StoreInductive ==
  ASSUME NoCommandBesideDelete
  PROVE  /\ Init => StoreInv
         /\ StoreInv /\ [Next]_vars => StoreInv'
<1>1. Init => StoreInv
  BY TypeInit, RemovalInit, SweepInit, ReplaceInit, AloneInit DEF StoreInv
<1>2. StoreInv /\ [Next]_vars => StoreInv'
  BY TypeStep, RemovalStep, SweepStep, ReplaceStep, AloneStep DEF StoreInv, ReplaceInv
<1>3. QED
  BY <1>1, <1>2

(* What goes is unnamed, unless the remover is out of date.                *)
LEMMA RemovedUnnamed ==
  ASSUME TypeOK, SweepSparesNamed, DeleteAllAlone,
         NEW t \in Removers, NEW x \in Assets, RemoveFile(t, x), ~OutOfDate(t)
  PROVE  x \notin Named
<1>1. CASE t \in Runs
  BY <1>1 DEF RemoveFile, SweepSparesNamed
<1>2. CASE t \in AllDeletes
  BY <1>2 DEF RemoveFile, OutOfDate, DeleteAllAlone, Emptied, Named, AssetsOf
<1>3. QED
  BY <1>1, <1>2 DEF Removers, Deletes, OutOfDate

(* A sweep, and a delete of all messages that still holds the account's    *)
(* lock, take no file that a row names at that moment, beside any number   *)
(* of batches, other deletes and crashes (sweep_holding_lock,              *)
(* remove_all_attachment_files).  An import command does not take the lock *)
(* of a delete of all, so the two must not meet.                           *)
THEOREM UpToDateSpares == ASSUME NoCommandBesideDelete PROVE Spec => UpToDateSpareNamed
<1>1. StoreInv /\ [Next]_vars =>
        [\A t \in Removers, x \in files \ files' :
           x \in todo[t] \ todo'[t] /\ ~OutOfDate(t) => x \notin Named]_vars
  <2> SUFFICES ASSUME StoreInv, [Next]_vars, NEW t \in Removers, NEW x \in files \ files',
                      x \in todo[t] \ todo'[t], ~OutOfDate(t)
               PROVE  x \notin Named
    OBVIOUS
  <2>1. PICK u \in Removers, y \in Assets : RemoveFile(u, y)
    BY FilesGo DEF StoreInv
  <2>2. x = y /\ t = u
    BY <2>1 DEF RemoveFile, StoreInv, TypeOK
  <2>3. QED
    BY <2>1, <2>2, RemovedUnnamed DEF StoreInv
<1>2. QED
  BY <1>1, StoreInductive, PTL DEF Spec, UpToDateSpareNamed

(* Without deletes of the trash, and where the client of a delete of all   *)
(* stays, nobody is out of date.                                           *)
DeleteAllKeepsLock == \A d \in AllDeletes : pcR[d] \in DeletePhases => accountLock = d

FreshInv == StoreInv /\ DeleteAllKeepsLock /\ NamedOnDisk

(* At the start no delete has begun and no row names a file.               *)
LEMMA FreshInit == Init => DeleteAllKeepsLock /\ NamedOnDisk
BY DEF Init, DeleteAllKeepsLock, DeletePhases, NamedOnDisk, Named, AssetsOf, Removers, Deletes

(* A delete of all messages takes the account's lock before it goes on,    *)
(* and lets it go only when it is done.                                    *)
LEMMA KeepsLockStep ==
  ASSUME NoStaleRemoval, TypeOK, DeleteAllKeepsLock, [Next]_vars
  PROVE  DeleteAllKeepsLock'
<1> SUFFICES ASSUME NEW d \in AllDeletes, pcR'[d] \in DeletePhases PROVE accountLock' = d
  BY DEF DeleteAllKeepsLock
<1> USE TaskAssumption DEF TypeOK, Removers, Deletes, DeletePhases, DeleteAllKeepsLock
<1>1. CASE RunStep
  BY <1>1, RunFrame, RunProgress
<1>2. CASE UploadStep
  BY <1>2, UploadFrame DEF removerVars
<1>3. ASSUME NEW b \in Batches, BatchOutside(b) \/ BatchStep(b) PROVE accountLock' = d
  BY <1>3, BatchFrame DEF removerVars
<1>4. CASE TrashStep
  BY <1>4, TrashFrame DEF AdmitDeleteAll, DeleteTrashed, removerVars, NoStaleRemoval
<1>5. CASE RemoverStep(d)
  BY <1>5 DEF RemoverStep, LockForDeleteAll, OpenDeleteAll, DeleteAllRows, Connect,
              BeginRemoval, SkipRemoval, RemoveFile, FinishRemoval
<1>6. CASE RemoverOutside(d)
  BY <1>6 DEF RemoverOutside, GiveUp, KeepFile, DropHandler, NoStaleRemoval
<1>7. ASSUME NEW t \in Removers, t # d, RemoverStep(t) \/ RemoverOutside(t)
      PROVE  accountLock' = d
  BY <1>7, RemoverFrame
<1>8. CASE Crash \/ UNCHANGED vars
  BY <1>8 DEF Crash, vars, removerVars
<1>9. QED
  BY <1>1, <1>2, <1>3, <1>4, <1>5, <1>6, <1>7, <1>8 DEF Next

(* Rows come to name only files that are there.                            *)
LEMMA NamedByMessages ==
  ASSUME TypeOK, NamedOnDisk, [Next]_vars, files \subseteq files'
  PROVE  NamedOnDisk'
<1> USE DEF NamedOnDisk, Named, AssetsOf
<1>1. ASSUME NEW q \in Runs, NEW S \in SUBSET Guids, NEW mode, NEW onDisk,
             Promote(q, S, mode, onDisk), onDisk \subseteq files'
      PROVE  NamedOnDisk'
  BY <1>1 DEF Promote
<1>2. ASSUME NEW b \in Batches, CommitBatch(b) PROVE NamedOnDisk'
  BY <1>1, <1>2 DEF CommitBatch, TypeOK
<1>3. ASSUME NEW q \in Runs, NEW S \in SUBSET Guids, CliImport(q, S) PROVE NamedOnDisk'
  <2>1. CASE Promote(q, S, RunMode[q], files')
    BY <1>1, <2>1
  <2>2. QED
    BY <1>3, <2>1 DEF CliImport
<1>4. ASSUME NEW C \in SUBSET Convs, DeleteRows(C) PROVE NamedOnDisk'
  BY <1>4 DEF DeleteRows
<1>5. QED
  BY <1>2, <1>3, <1>4, MessageChanges

(* There, only a file that no row names goes.                              *)
LEMMA FreshRemoval ==
  ASSUME NoStaleRemoval, FreshInv, NEW t \in Removers, NEW x \in Assets, RemoveFile(t, x)
  PROVE  x \notin Named
<1>1. ~OutOfDate(t)
  BY DEF OutOfDate, NoStaleRemoval, FreshInv, DeleteAllKeepsLock, DeletePhases, RemoveFile
<1>2. QED
  BY <1>1, RemovedUnnamed DEF FreshInv, StoreInv

(* A file that goes is unnamed, and a row that comes names a file that is  *)
(* there (remove_each, store_claimed_or_path).                             *)
LEMMA FreshInductive ==
  ASSUME NoStaleRemoval
  PROVE  /\ Init => FreshInv
         /\ FreshInv /\ [Next]_vars => FreshInv'
<1>1. NoCommandBesideDelete
  BY DEF NoStaleRemoval, NoCommandBesideDelete
<1>2. Init => FreshInv
  BY <1>1, StoreInductive, FreshInit DEF FreshInv
<1>3. ASSUME FreshInv, [Next]_vars PROVE NamedOnDisk'
  <2>1. ASSUME NEW t \in Removers, NEW x \in Assets, RemoveFile(t, x) PROVE NamedOnDisk'
    <3>1. Named' = Named /\ files' = files \ {x}
      BY <2>1 DEF RemoveFile, rows, Named, AssetsOf
    <3>2. x \notin Named
      BY <1>3, <2>1, FreshRemoval
    <3>3. QED
      BY <1>3, <3>1, <3>2 DEF FreshInv, NamedOnDisk
  <2>2. QED
    BY <1>3, <2>1, FilesGo, NamedByMessages DEF FreshInv, StoreInv
<1>4. FreshInv /\ [Next]_vars => FreshInv'
  BY <1>1, <1>3, StoreInductive, KeepsLockStep DEF FreshInv, StoreInv
<1>5. QED
  BY <1>2, <1>4

(* Where no removal works from a stale list, every file a row names is on  *)
(* disk: a batch names only files it finds, a sweep spares what is named,  *)
(* and delete_account_messages keeps batches out until its files are gone. *)
THEOREM NamedFilesOnDisk == ASSUME NoStaleRemoval PROVE Spec => []NamedOnDisk
<1>1. FreshInv => NamedOnDisk
  BY DEF FreshInv
<1>2. QED
  BY <1>1, FreshInductive, PTL DEF Spec

(* There, a removal takes only files no row names at the moment it goes    *)
(* (remove_all_attachment_files, sweep_holding_lock).                      *)
THEOREM RemovalsUnused == ASSUME NoStaleRemoval PROVE Spec => RemovesOnlyUnused
<1>1. FreshInv /\ [Next]_vars => [(files \ files') \cap Named = {}]_vars
  <2> SUFFICES ASSUME FreshInv, [Next]_vars PROVE (files \ files') \cap Named = {}
    OBVIOUS
  <2>1. ASSUME NEW t \in Removers, NEW x \in Assets, RemoveFile(t, x)
        PROVE  (files \ files') \cap Named = {}
    BY <2>1, FreshRemoval DEF RemoveFile
  <2>2. QED
    BY <2>1, FilesGo DEF FreshInv, StoreInv
<1>2. QED
  BY <1>1, FreshInductive, PTL DEF Spec, RemovesOnlyUnused

--------------------------------------------------------------------------------
(* Files that no row names.  Remover t will come to x: a run's sweep and a *)
(* delete of all messages once they have the write lock, a trash delete by *)
(* the list it carries.                                                    *)
Awaits(t, x) ==
  \/ pcR[t] \in {"pending", "connected"} /\ (t \in ConvDeletes => x \in todo[t])
  \/ pcR[t] = "removing" /\ x \in todo[t]

(* While a run is running its sweep is still to come; otherwise somebody   *)
(* already waits to remove each file no row names, or a removal left it.   *)
SweptInv ==
  \A x \in files \ Named : Running \/ x \in missed \/ \E t \in Removers : Awaits(t, x)

(* At the start there is no file.                                          *)
LEMMA SweptInit == Init => SweptInv
BY DEF Init, SweptInv

(* What a remover that waits for x still has to remove includes x.         *)
LEMMA AwaitedUnfinished ==
  ASSUME NEW t \in Removers, NEW x \in Assets, x \notin Named, Awaits(t, x)
  PROVE  /\ x \in Unfinished(t)
         /\ pcR[t] # "removing" => x \in ToRemove(t)
BY TaskAssumption DEF Awaits, Unfinished, ToRemove, Unnamed, Removers, Deletes


(* Who ends a run sweeps after it, or is the import command, which leaves  *)
(* what no row names.                                                      *)
LEMMA EndedIsSwept ==
  ASSUME TypeOK, [Next]_vars, Running, ~Running'
  PROVE  (\E r \in Runs : pcR'[r] = "pending") \/ missed' = files \ Named
<1> USE DEF Running
<1>1. ASSUME NEW r \in Runs, NEW s \in Outcomes, CompleteRun(r, s)
      PROVE  pcR'[r] = "pending" \/ missed' = files \ Named
  BY <1>1 DEF CompleteRun, AfterRun, TypeOK, Removers
<1>2. ASSUME NEW r \in Runs, DiscardRun(r) PROVE pcR'[r] = "pending"
  BY <1>2 DEF DiscardRun, TypeOK, Removers
<1>3. ASSUME NEW r \in Runs, CreateRun(r) PROVE FALSE
  BY <1>3 DEF CreateRun, SlotFree
<1>4. CASE RunStep
  <2>1. \A r \in Runs : /\ \A s \in Stages : ~SetStage(r, s)
                        /\ \A S \in SUBSET Guids : ~CliImport(r, S)
    BY DEF SetStage, CliImport
  <2>2. QED
    BY <1>1, <1>2, <1>3, <1>4, <2>1 DEF RunStep
<1>5. CASE ~RunStep
  BY <1>5, UploadFrame, BatchFrame, TrashFrame, RemoverFrame DEF Next, Crash, vars, rows
<1>6. QED
  BY <1>4, <1>5

(* While no run is running, only the trash and the removers act.           *)
LEMMA QuietSteps ==
  ASSUME TypeOK, [Next]_vars, ~Running, ~Running'
  PROVE  /\ ~RunStep
         /\ \A b \in Batches : ~CommitBatch(b)
<1>1. ~RunStep
  BY RunFrame
<1>2. ASSUME NEW b \in Batches, CommitBatch(b) PROVE FALSE
  BY <1>2 DEF CommitBatch, StillRunning, Running, TypeOK
<1>3. QED
  BY <1>1, <1>2

(* Who waits to remove a file goes on waiting until the file is gone, or   *)
(* leaves it behind for the next sweep.                                    *)
LEMMA AwaitsKept ==
  ASSUME TypeOK, [Next]_vars, ~Running, ~Running', NEW t \in Removers,
         NEW x \in files', x \notin Named, x \in files, Awaits(t, x)
  PROVE  Awaits(t, x)' \/ x \in missed'
<1> USE TaskAssumption DEF TypeOK, Removers, Deletes
<1>1. CASE UNCHANGED removerVars
  BY <1>1 DEF removerVars, Awaits
<1>2. CASE TrashStep
  BY <1>1, <1>2, TrashFrame DEF AdmitDeleteAll, DeleteTrashed, Awaits
<1>3. ASSUME NEW u \in Removers, u # t, RemoverStep(u) \/ RemoverOutside(u)
      PROVE  Awaits(t, x)'
  BY <1>3, RemoverFrame DEF Awaits
<1>4. CASE RemoverStep(t)
  <2>1. CASE BeginRemoval(t)
    <3>1. x \in ToRemove(t)
      BY <2>1, AwaitedUnfinished DEF BeginRemoval
    <3>2. QED
      BY <2>1, <3>1 DEF BeginRemoval, Awaits
  <2>2. CASE Connect(t)
    BY <2>2 DEF Connect, Awaits
  <2>3. ~SkipRemoval(t)
    BY DEF SkipRemoval, MayRemove
  <2>4. ASSUME NEW y \in Assets, RemoveFile(t, y) PROVE Awaits(t, x)'
    BY <2>4 DEF RemoveFile, Awaits
  <2>5. ~FinishRemoval(t)
    BY DEF FinishRemoval, Awaits
  <2>6. ~(LockForDeleteAll(t) \/ OpenDeleteAll(t) \/ DeleteAllRows(t))
    BY DEF LockForDeleteAll, OpenDeleteAll, DeleteAllRows, Awaits
  <2>7. QED
    BY <1>4, <2>1, <2>2, <2>3, <2>4, <2>5, <2>6 DEF RemoverStep
<1>5. CASE RemoverOutside(t)
  <2>1. CASE GiveUp(t)
    BY <2>1, AwaitedUnfinished DEF GiveUp, Miss
  <2>2. ASSUME NEW y \in Assets, KeepFile(t, y) PROVE Awaits(t, x)' \/ x \in missed'
    BY <2>2 DEF KeepFile, Miss, Awaits
  <2>3. CASE DropHandler(t)
    BY <1>1, <2>3 DEF DropHandler
  <2>4. QED
    BY <1>5, <2>1, <2>2, <2>3 DEF RemoverOutside
<1>6. CASE Crash
  BY <1>6, AwaitedUnfinished DEF Crash, Miss
<1>7. QED
  BY <1>1, <1>2, <1>3, <1>4, <1>5, <1>6, QuietSteps, UploadFrame, BatchFrame
     DEF Next, vars

(* What was left stays known until a sweep lists it again.                 *)
LEMMA MissedKept ==
  ASSUME TypeOK, [Next]_vars, ~Running, ~Running',
         NEW x \in files', x \notin Named, x \in missed
  PROVE  x \in missed' \/ \E t \in Removers : Awaits(t, x)'
<1> USE TaskAssumption DEF TypeOK, Removers, Deletes
<1>1. CASE missed' = missed
  BY <1>1
<1>2. ASSUME NEW t \in Removers, BeginRemoval(t)
      PROVE  x \in missed' \/ Awaits(t, x)'
  BY <1>2 DEF BeginRemoval, ToRemove, Unnamed, Awaits
<1>3. ASSUME NEW t \in Removers, NEW y \in Assets, RemoveFile(t, y) \/ KeepFile(t, y)
      PROVE  x \in missed'
  BY <1>3 DEF RemoveFile, KeepFile, Miss
<1>4. ASSUME NEW t \in Removers, GiveUp(t) PROVE x \in missed'
  BY <1>4 DEF GiveUp, Miss
<1>5. ASSUME NEW t \in Removers, RemoverStep(t) \/ RemoverOutside(t)
      PROVE  x \in missed' \/ \E u \in Removers : Awaits(u, x)'
  BY <1>1, <1>2, <1>3, <1>4, <1>5
     DEF RemoverStep, LockForDeleteAll, OpenDeleteAll, DeleteAllRows, Connect, SkipRemoval,
         FinishRemoval, RemoverOutside, DropHandler
<1>6. CASE UploadStep
  BY <1>6 DEF UploadStep, HeadAsset, StoreAsset
<1>7. CASE Crash
  BY <1>7 DEF Crash, Miss
<1>8. QED
  BY <1>1, <1>5, <1>6, <1>7, QuietSteps, BatchFrame, TrashFrame DEF Next, vars

(* A file whose last row goes is on the list of the delete that took it,   *)
(* or falls with all of the account's files.                               *)
LEMMA LooseIsListed ==
  ASSUME TypeOK, [Next]_vars, ~Running', NEW x \in Named, x \notin Named'
  PROVE  \E t \in Removers : Awaits(t, x)'
<1> USE TaskAssumption DEF TypeOK, Removers, Deletes
<1>1. CASE held' = held
  BY <1>1 DEF Named, AssetsOf
<1>2. ASSUME NEW d \in ConvDeletes, NEW C \in SUBSET Convs, DeleteTrashed(d, C)
      PROVE  Awaits(d, x)'
  <2>1. x \in Orphaned(InConvs(C))
    BY <1>2 DEF DeleteTrashed, DeleteRows, Orphaned, Named, AssetsOf
  <2>2. pcR'[d] = "pending" /\ todo'[d] = Orphaned(InConvs(C))
    BY <1>2 DEF DeleteTrashed
  <2>3. QED
    BY <2>1, <2>2 DEF Awaits
<1>3. CASE TrashStep
  BY <1>1, <1>2, <1>3, TrashFrame DEF AdmitDeleteAll, rows
<1>4. ASSUME NEW d \in AllDeletes, DeleteAllRows(d) PROVE Awaits(d, x)'
  BY <1>4 DEF DeleteAllRows, Awaits
<1>5. ASSUME NEW u \in Removers, RemoverStep(u) \/ RemoverOutside(u)
      PROVE  \E t \in Removers : Awaits(t, x)'
  BY <1>1, <1>4, <1>5, RemoverFrame DEF rows
<1>6. ASSUME NEW b \in Batches, BatchOutside(b) \/ BatchStep(b) PROVE held' = held
  BY <1>6, BatchFrame DEF CommitBatch, StillRunning, Running
<1>7. CASE RunStep
  BY <1>1, <1>7 DEF RunStep, CreateRun, SetStage, CompleteRun, DiscardRun, CliImport, Running
<1>8. CASE UploadStep
  BY <1>1, <1>8, UploadFrame DEF rows
<1>9. CASE Crash \/ UNCHANGED vars
  BY <1>1, <1>9 DEF Crash, vars, rows
<1>10. QED
  BY <1>3, <1>5, <1>1, <1>6, <1>7, <1>8, <1>9 DEF Next

(* A file that comes with no run to sweep it is known to be left.          *)
LEMMA StrayIsMissed ==
  ASSUME TypeOK, [Next]_vars, ~Running', NEW x \in files', x \notin files, x \notin Named'
  PROVE  x \in missed'
<1>1. ~RunStep
  <2>1. ASSUME NEW r \in Runs, NEW S \in SUBSET Guids, CliImport(r, S) PROVE FALSE
    BY <2>1 DEF CliImport, Running
  <2>2. QED
    BY <2>1 DEF RunStep, CreateRun, SetStage, CompleteRun, DiscardRun
<1>2. PICK y \in Assets : StoreAsset(y)
  BY <1>1, BatchFrame, TrashFrame, RemoverFrame
     DEF Next, Crash, vars, UploadStep, HeadAsset, RemoveFile
<1>3. ~Running /\ x = y /\ x \notin Named
  BY <1>2 DEF StoreAsset, rows, Running, Named, AssetsOf
<1>4. QED
  BY <1>2, <1>3 DEF StoreAsset

(* No step leaves an unnamed file with nobody to remove it, unless it is   *)
(* known to be left.                                                       *)
LEMMA SweptStep ==
  ASSUME TypeOK, SweptInv, [Next]_vars
  PROVE  SweptInv'
<1> SUFFICES ASSUME NEW x \in files', x \notin Named', ~Running'
             PROVE  x \in missed' \/ \E t \in Removers : Awaits(t, x)'
  BY DEF SweptInv
<1>1. CASE x \notin files
  BY <1>1, StrayIsMissed
<1>2. CASE x \in Named
  BY <1>2, LooseIsListed
<1>3. CASE x \in files \ Named /\ Running
  BY <1>3, EndedIsSwept, TaskAssumption DEF Awaits, Removers, Deletes
<1>4. CASE x \in files \ Named /\ ~Running
  BY <1>4, AwaitsKept, MissedKept DEF SweptInv
<1>5. QED
  BY <1>1, <1>2, <1>3, <1>4

(* However uploads, batches, deletes and sweeps interleave, a removal that *)
(* finds a run running leaves its files to that run's sweep; so the store  *)
(* of a server at rest holds, beside what rows name, only files that a     *)
(* failed or interrupted removal or the import command left since the last *)
(* sweep, or that came with no run running (unless_import_running,         *)
(* remove_logged, complete_import and discard_import with sweep_account).  *)
THEOREM NothingIsLeft == Spec => []NothingLeftBehind
<1>1. Init => TypeOK /\ SweptInv
  BY TypeInit, SweptInit
<1>2. TypeOK /\ SweptInv /\ [Next]_vars => (TypeOK /\ SweptInv)'
  BY TypeStep, SweptStep
<1>3. SweptInv => NothingLeftBehind
  BY DEF SweptInv, NothingLeftBehind, AtRest, Awaits
<1>4. QED
  BY <1>1, <1>2, <1>3, PTL DEF Spec

--------------------------------------------------------------------------------
(* The keyed locks a batch and a delete take, for any tasks, keys and      *)
(* mutexes: the map of keyed_locks.rs implements one mutex per key.  The   *)
(* invariant: a task that asks, waits or holds refers to the mutex the map *)
(* has for its key, and a mutex is locked by the task that holds it or is  *)
(* letting it go.  LastHolder is what keeps the first part: the map's      *)
(* reference and the guard's make two, so a count of two leaves no room    *)
(* for another task.                                                       *)
UsersFollowMap ==
  \A t \in Tasks : pc[t] \in Asking \cup {"holding"} => map[key[t]] = arc[t]

HolderOwns ==
  \A t \in Tasks : pc[t] \in {"holding", "dropping"} => owner[arc[t]] = t

LockInv == LocksTypeOK /\ UsersFollowMap /\ HolderOwns

(* Two different tasks are two.                                            *)
LEMMA PairHasTwo ==
  ASSUME NEW a, NEW b, a # b
  PROVE  IsFiniteSet({a, b}) /\ Cardinality({a, b}) = 2
<1>1. IsFiniteSet({a}) /\ Cardinality({a}) = 1
  BY FS_Singleton
<1>2. b \notin {a} /\ {a} \cup {b} = {a, b}
  OBVIOUS
<1>3. IsFiniteSet({a} \cup {b})
  BY ONLY <1>1, FS_AddElement
<1>4. Cardinality({a} \cup {b}) = Cardinality({a}) + 1
  BY ONLY <1>1, <1>2, FS_AddElement
<1>5. Cardinality({a} \cup {b}) = 2
  BY <1>1, <1>4
<1>6. QED
  BY <1>2, <1>3, <1>5

(* A count of two leaves no other task on the same key.                    *)
LEMMA LastIsAlone ==
  ASSUME LockInv, NEW t \in Tasks, pc[t] = "holding", LastHolder(t),
         NEW u \in Tasks, u # t, pc[u] \in Asking \cup {"holding"}
  PROVE  key[u] # key[t]
<1> SUFFICES ASSUME key[u] = key[t] PROVE FALSE
  OBVIOUS
<1> DEFINE m == arc[t]
<1>1. /\ key[t] \in Keys /\ map[key[t]] = m /\ arc[u] = m
  BY DEF LockInv, LocksTypeOK, UsersFollowMap, Asking
<1>2. /\ IsFiniteSet(InMap(m)) /\ Cardinality(InMap(m)) \in Nat /\ key[t] \in InMap(m)
  <2>1. InMap(m) \subseteq Keys /\ key[t] \in InMap(m)
    BY <1>1 DEF InMap
  <2>2. QED
    BY <2>1, FS_Subset, FS_CardinalityType, NamesAssumption
<1>3. /\ IsFiniteSet(InTasks(m)) /\ Cardinality(InTasks(m)) \in Nat
      /\ {t, u} \subseteq InTasks(m)
  <2>1. InTasks(m) \subseteq Tasks /\ {t, u} \subseteq InTasks(m)
    BY <1>1 DEF InTasks
  <2>2. QED
    BY <2>1, FS_Subset, FS_CardinalityType, NamesAssumption
<1>4. Cardinality(InMap(m)) >= 1
  <2>1. InMap(m) # {}
    BY <1>2
  <2>2. Cardinality(InMap(m)) # 0
    BY <2>1, <1>2, FS_EmptySet
  <2>3. QED
    BY <2>2, <1>2
<1>5. Cardinality(InTasks(m)) >= 2
  <2>1. IsFiniteSet({t, u}) /\ Cardinality({t, u}) = 2
    BY PairHasTwo
  <2>2. Cardinality({t, u}) <= Cardinality(InTasks(m))
    BY <1>3, FS_Subset
  <2>3. QED
    BY <2>1, <2>2, <1>3
<1>6. Cardinality(InMap(m)) + Cardinality(InTasks(m)) = 2
  BY DEF LastHolder, StrongCount
<1>7. QED
  BY <1>2, <1>3, <1>4, <1>5, <1>6

(* The initial state satisfies the invariant.                              *)
LEMMA InitLockInv == LocksInit => LockInv
BY DEF LocksInit, LockInv, LocksTypeOK, UsersFollowMap, HolderOwns, Asking

(* Every step keeps it.                                                    *)
LEMMA NextLockInv == LockInv /\ [LocksNext]_locksVars => LockInv'
<1> SUFFICES ASSUME LockInv, [LocksNext]_locksVars PROVE LockInv'
  OBVIOUS
<1> USE NamesAssumption DEF LockInv
<1>1. ASSUME NEW t \in Tasks, NEW k \in Keys, Lookup(t, k) PROVE LockInv'
  <2>1. LocksTypeOK'
    BY <1>1 DEF Lookup, LocksTypeOK
  <2>2. UsersFollowMap'
    <3> SUFFICES ASSUME NEW u \in Tasks, pc'[u] \in Asking \cup {"holding"}
                 PROVE map'[key'[u]] = arc'[u]
      BY DEF UsersFollowMap
    <3>1. CASE u = t
      BY <1>1, <3>1 DEF Lookup, LocksTypeOK
    <3>2. CASE u # t
      <4>1. /\ pc[u] \in Asking \cup {"holding"} /\ key'[u] = key[u] /\ arc'[u] = arc[u]
            /\ key[u] \in Keys /\ arc[u] \in Mutexes
        BY <1>1, <3>2 DEF Lookup, LocksTypeOK, Asking
      <4>2. map[key[u]] = arc[u]
        BY <4>1 DEF UsersFollowMap
      <4>3. map'[key[u]] = map[key[u]]
        BY <1>1, <4>1, <4>2 DEF Lookup, Entry, LocksTypeOK
      <4>4. QED
        BY <4>1, <4>2, <4>3
    <3>3. QED
      BY <3>1, <3>2
  <2>3. HolderOwns'
    BY <1>1 DEF Lookup, LocksTypeOK, HolderOwns
  <2>4. QED
    BY <2>1, <2>2, <2>3
<1>2. ASSUME NEW t \in Tasks, Acquire(t) PROVE LockInv'
  <2>1. LocksTypeOK'
    BY <1>2 DEF Acquire, LocksTypeOK, Asking
  <2>2. UsersFollowMap'
    BY <1>2 DEF Acquire, LocksTypeOK, UsersFollowMap, Asking
  <2>3. HolderOwns'
    BY <1>2 DEF Acquire, LocksTypeOK, HolderOwns, Asking
  <2>4. QED
    BY <2>1, <2>2, <2>3
<1>3. ASSUME NEW t \in Tasks, Queue(t) PROVE LockInv'
  BY <1>3 DEF Queue, LocksTypeOK, UsersFollowMap, HolderOwns, Asking
<1>4. ASSUME NEW t \in Tasks, Forget(t), pc[t] \in {"waiting", "unlocked"} PROVE LockInv'
  BY <1>4 DEF Forget, LocksTypeOK, UsersFollowMap, HolderOwns, Asking
<1>5. ASSUME NEW t \in Tasks, DropGuard(t) PROVE LockInv'
  <2>1. LocksTypeOK'
    BY <1>5 DEF DropGuard, LocksTypeOK
  <2>2. UsersFollowMap'
    <3> SUFFICES ASSUME NEW u \in Tasks, pc'[u] \in Asking \cup {"holding"}
                 PROVE map'[key[u]] = arc[u]
      BY <1>5 DEF UsersFollowMap, DropGuard
    <3>1. u # t /\ pc[u] \in Asking \cup {"holding"} /\ map[key[u]] = arc[u]
      BY <1>5 DEF DropGuard, LocksTypeOK, UsersFollowMap, Asking
    <3>2. LastHolder(t) => key[u] # key[t]
      BY <1>5, <3>1, LastIsAlone DEF DropGuard
    <3>3. QED
      BY <1>5, <3>1, <3>2 DEF DropGuard, LocksTypeOK
  <2>3. HolderOwns'
    BY <1>5 DEF DropGuard, LocksTypeOK, HolderOwns
  <2>4. QED
    BY <2>1, <2>2, <2>3
<1>6. ASSUME NEW t \in Tasks, Unlock(t) PROVE LockInv'
  <2>1. LocksTypeOK'
    BY <1>6 DEF Unlock, Unlocked, LocksTypeOK
  <2>2. UsersFollowMap'
    BY <1>6 DEF Unlock, LocksTypeOK, UsersFollowMap, Asking
  <2>3. HolderOwns'
    BY <1>6 DEF Unlock, Unlocked, LocksTypeOK, HolderOwns
  <2>4. QED
    BY <2>1, <2>2, <2>3
<1>7. CASE UNCHANGED locksVars
  BY <1>7 DEF locksVars, LocksTypeOK, UsersFollowMap, HolderOwns, Asking
<1>8. QED
  BY <1>1, <1>2, <1>3, <1>4, <1>5, <1>6, <1>7 DEF LocksNext, Cancel, DropArc

(* For any tasks, keys and mutexes: a task that is not idle has asked for  *)
(* a key and refers to a mutex, however entries come and go                *)
(* (keyed_locks.rs).                                                       *)
THEOREM LocksTypeCorrect == LocksSpec => []LocksTypeOK
<1>1. LockInv => LocksTypeOK
  BY DEF LockInv
<1>2. QED
  BY <1>1, InitLockInv, NextLockInv, PTL DEF LocksSpec

(* A step of the map is a step of one mutex per key, or none.              *)
LEMMA NextPromise == LockInv /\ [LocksNext]_locksVars => [Promise!Next]_(Promise!vars)
<1> SUFFICES ASSUME LockInv, [LocksNext]_locksVars PROVE [Promise!Next]_(Promise!vars)
  OBVIOUS
<1> DEFINE wants == [t \in Tasks |-> IF pc[t] \in Asking THEN key[t] ELSE NoKey]
           has == [t \in Tasks |-> IF pc[t] = "holding" THEN key[t] ELSE NoKey]
<1> USE NamesAssumption DEF LockInv, Asking
<1>1. ASSUME NEW t \in Tasks, NEW k \in Keys, Lookup(t, k) PROVE Promise!Ask(t, k)
  BY <1>1 DEF Lookup, LocksTypeOK, Promise!Ask
<1>2. ASSUME NEW t \in Tasks, Acquire(t) PROVE Promise!Take(t)
  <2>1. wants[t] = key[t] /\ key[t] \in Keys
    BY <1>2 DEF Acquire, LocksTypeOK
  <2>2. ASSUME NEW u \in Tasks PROVE has[u] # key[t]
    <3> SUFFICES ASSUME pc[u] = "holding", key[u] = key[t] PROVE FALSE
      BY <2>1
    <3>1. arc[u] = arc[t]
      BY <1>2 DEF Acquire, UsersFollowMap
    <3>2. owner[arc[u]] = u /\ u # NoTask
      BY DEF HolderOwns
    <3>3. QED
      BY <1>2, <3>1, <3>2 DEF Acquire
  <2>3. Promise!Free(wants[t])
    BY <2>1, <2>2 DEF Promise!Free
  <2>4. has' = [has EXCEPT ![t] = wants[t]] /\ wants' = [wants EXCEPT ![t] = NoKey]
    BY <1>2, <2>1 DEF Acquire, LocksTypeOK
  <2>5. QED
    BY <2>1, <2>3, <2>4 DEF Promise!Take
<1>3. ASSUME NEW t \in Tasks, Queue(t) PROVE UNCHANGED Promise!vars
  BY <1>3 DEF Queue, LocksTypeOK, Promise!vars
<1>4. ASSUME NEW t \in Tasks, Cancel(t) PROVE Promise!GiveUp(t)
  BY <1>4 DEF Cancel, Forget, LocksTypeOK, Promise!GiveUp
<1>5. ASSUME NEW t \in Tasks, DropGuard(t) PROVE Promise!Give(t)
  BY <1>5 DEF DropGuard, LocksTypeOK, Promise!Give
<1>6. ASSUME NEW t \in Tasks, Unlock(t) PROVE UNCHANGED Promise!vars
  BY <1>6 DEF Unlock, LocksTypeOK, Promise!vars
<1>7. ASSUME NEW t \in Tasks, DropArc(t) PROVE UNCHANGED Promise!vars
  BY <1>7 DEF DropArc, Forget, LocksTypeOK, Promise!vars
<1>8. CASE UNCHANGED locksVars
  BY <1>8 DEF locksVars, Promise!vars
<1>9. QED
  BY <1>1, <1>2, <1>3, <1>4, <1>5, <1>6, <1>7, <1>8 DEF LocksNext, Promise!Next

(* The keyed locks implement one mutex per key, for any number of tasks    *)
(* and keys and although entries come and go (keyed_locks.rs).             *)
THEOREM LocksImplementMutex == LocksSpec => ImplementsMutex
<1>1. LocksInit => Promise!Init
  BY DEF LocksInit, Promise!Init, Asking
<1>2. QED
  BY <1>1, InitLockInv, NextLockInv, NextPromise, PTL DEF LocksSpec, ImplementsMutex, Promise!Spec
================================================================================
