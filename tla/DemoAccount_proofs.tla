--------------------------- MODULE DemoAccount_proofs ---------------------------
(***************************************************************************)
(* Proofs about DemoAccount: however many builds, resets, faults and kills *)
(* there are, no row of another account is lost, and server.ready is true; *)
(* and a running server shows a whole Demo Account or none.                *)
(***************************************************************************)
EXTENDS DemoAccount, TLAPS

Open == {"recover", "up", "stop"}
Swapping == {"back up folder", "install database", "install folder", "clean up",
             "roll back folder", "roll back database", "give back"}

(* Which databases there are at which steps.                               *)
DatabasesFit ==
  /\ db \in Databases \cup {NoDb} /\ made \in Databases \cup {NoDb}
  /\ old \in Databases \cup {NoDb}
  /\ serve = "down" \/ reset = "down"
  /\ serve \in Open => db # NoDb
  /\ serve = "seed" => db = NoDb /\ made # NoDb /\ builder = "seed"
  /\ put # "none" \/ login # "none" \/ delete # "none" => serve = "up"
  /\ build # "none" /\ Live => serve \in Open
  /\ build # "none" /\ ~Live => made # NoDb /\ (serve = "seed" \/ reset = "build")
  /\ reset = "build" => builder = "reset"
  /\ reset \in {"build", "verify", "back up database", "back up folder", "install database"}
       => made # NoDb
  /\ old # NoDb => reset \in Swapping

(* Where the rows of other accounts are while the swap moves databases.    *)
SwapKeepsRows ==
  /\ reset \in {"back up database", "back up folder", "install database"} =>
       acked \subseteq RowsOf(made) \cup kept
  /\ reset \in {"back up folder", "install database", "install folder"} =>
       acked \subseteq RowsOf(old) \cup kept
  /\ reset \in {"install folder", "clean up"} => acked \subseteq RowsOf(db) \cup kept
  /\ reset \in {"roll back folder", "roll back database"} /\ (made = NoDb \/ old # NoDb) =>
       acked \subseteq RowsOf(old) \cup kept

KeepsInv == DatabasesFit /\ SwapKeepsRows /\ OthersKept

--------------------------------------------------------------------------------

(* There are no rows at the start.                                         *)
LEMMA InitKeeps == Init => KeepsInv
BY DemoAssumption
DEF Init, KeepsInv, DatabasesFit, SwapKeepsRows, OthersKept, RowsOf, Open, Swapping, Live

(* A change of a database that leaves the rows of other accounts alone.    *)
SameRows(d, e) == d \in Databases /\ e \in Databases /\ e.others = d.others

(* No step of a build touches the rows of other accounts.                  *)
LEMMA BuildStepRows ==
  ASSUME KeepsInv, BuildWorks
  PROVE  /\ build # "none"
         /\ IF Live THEN SameRows(db, db') /\ made' = made ELSE SameRows(made, made') /\ db' = db
<1> DEFINE Same == IF Live THEN SameRows(db, db') /\ made' = made
                   ELSE SameRows(made, made') /\ db' = db
<1>1. build # "none"
  BY DEF BuildWorks, BeginBuild, WipeMessages, WipeAccount, WipeFolder, SeedAccount, CopyFiles,
         ImportSources, FinishAccount, EndBuild, Unrecord, Step
<1>2. Built \in Databases
  BY <1>1 DEF KeepsInv, DatabasesFit, Built
<1>3. ASSUME NEW d \in Databases, d.others = Built.others, Write(d) PROVE Same
  BY <1>2, <1>3 DEF Write, Built, SameRows
<1>4. CASE UNCHANGED <<db, made>>
  BY <1>1, <1>2, <1>4 DEF Built, SameRows
<1>5. [Built EXCEPT !.record = TRUE] \in Databases /\ [Built EXCEPT !.record = FALSE] \in Databases
      /\ [Built EXCEPT !.record = TRUE].others = Built.others
      /\ [Built EXCEPT !.record = FALSE].others = Built.others
  BY <1>2 DEF Databases
<1>6. ASSUME NEW s \in {"none", "part", "whole"}
      PROVE  [Built EXCEPT !.demo = s] \in Databases
             /\ [Built EXCEPT !.demo = s].others = Built.others
  BY <1>2 DEF Databases
<1>7. [Built EXCEPT !.demo = "none", !.session = FALSE] \in Databases
      /\ [Built EXCEPT !.demo = "none", !.session = FALSE].others = Built.others
  BY <1>2 DEF Databases
<1>8. CASE BeginBuild \/ EndBuild \/ Unrecord
  BY <1>1, <1>3, <1>5, <1>8 DEF BeginBuild, EndBuild, Unrecord
<1>9. CASE WipeMessages
  <2>1. Write([Built EXCEPT !.demo = IF Built.demo = "none" THEN Built.demo ELSE "part"])
    BY <1>9 DEF WipeMessages
  <2>2. (IF Built.demo = "none" THEN Built.demo ELSE "part") \in {"none", "part", "whole"}
    OBVIOUS
  <2> QED BY <1>1, <1>3, <1>6, <2>1, <2>2
<1>10. CASE WipeAccount
  BY <1>1, <1>3, <1>7, <1>10 DEF WipeAccount
<1>11. CASE SeedAccount
  BY <1>1, <1>3, <1>6, <1>11 DEF SeedAccount
<1>12. CASE FinishAccount
  <2>1. Write([Built EXCEPT !.demo = IF Built.demo = "part" THEN "whole" ELSE Built.demo])
    BY <1>12 DEF FinishAccount
  <2>2. (IF Built.demo = "part" THEN "whole" ELSE Built.demo) \in {"none", "part", "whole"}
    BY <1>2 DEF Databases
  <2> QED BY <1>1, <1>3, <1>6, <2>1, <2>2
<1>13. CASE WipeFolder \/ CopyFiles \/ ImportSources
  BY <1>1, <1>4, <1>13 DEF WipeFolder, CopyFiles, ImportSources
<1> QED BY <1>1, <1>8, <1>9, <1>10, <1>11, <1>12, <1>13 DEF BuildWorks

(* The builds' own steps.                                                  *)
LEMMA BuildKeeps ==
  ASSUME KeepsInv, BuildWorks \/ BuildFails PROVE KeepsInv'
<1> USE DemoAssumption
<1>1. CASE BuildWorks
  <2>1. UNCHANGED <<builder, serve, reset, put, login, delete, old, kept, acked>>
    BY <1>1 DEF BuildWorks, BuildFrame, backups, requests
  <2>2. CASE Live
    <3>1. SameRows(db, db') /\ made' = made
      BY <1>1, <2>2, BuildStepRows
    <3>2. DatabasesFit'
      BY <1>1, <2>1, <2>2, <3>1, BuildStepRows DEF KeepsInv, DatabasesFit, SameRows, Live, Open
    <3>3. RowsOf(db') = RowsOf(db) /\ RowsOf(made') = RowsOf(made) /\ RowsOf(old') = RowsOf(old)
      BY <2>1, <3>1 DEF SameRows, RowsOf
    <3> QED BY <2>1, <3>1, <3>2, <3>3 DEF KeepsInv, SwapKeepsRows, OthersKept, RowsOf
  <2>3. CASE ~Live
    <3>1. SameRows(made, made') /\ db' = db
      BY <1>1, <2>3, BuildStepRows
    <3>2. DatabasesFit'
      BY <1>1, <2>1, <2>3, <3>1, BuildStepRows DEF KeepsInv, DatabasesFit, SameRows, Live, Open
    <3>3. RowsOf(db') = RowsOf(db) /\ RowsOf(made') = RowsOf(made) /\ RowsOf(old') = RowsOf(old)
      BY <2>1, <3>1 DEF SameRows, RowsOf
    <3> QED BY <2>1, <3>1, <3>2, <3>3 DEF KeepsInv, SwapKeepsRows, OthersKept, SameRows, RowsOf
  <2> QED BY <2>2, <2>3
<1>2. CASE BuildFails
  <2>1. build # "none" /\ UNCHANGED <<active, prepared, backups, builder, serve, reset, requests,
                                      acked>>
    BY <1>2 DEF BuildFails, BuildFrame
  <2> QED BY <2>1 DEF KeepsInv, DatabasesFit, SwapKeepsRows, OthersKept, RowsOf, Live,
                      active, prepared, backups, requests
<1> QED BY <1>1, <1>2

(* A step that leaves the databases and the reset alone need only fit.     *)
LEMMA FrameKeeps ==
  ASSUME KeepsInv, DatabasesFit', UNCHANGED <<db, made, old, kept, acked, reset>>
  PROVE  KeepsInv'
BY DEF KeepsInv, SwapKeepsRows, OthersKept, RowsOf

(* A step outside a reset that keeps the rows of the live database.        *)
LEMMA LiveKeeps ==
  ASSUME KeepsInv, DatabasesFit', UNCHANGED <<old, kept, reset>>, reset = "down",
         acked' \subseteq (acked \cup RowsOf(db')), RowsOf(db) \subseteq RowsOf(db')
  PROVE  KeepsInv'
BY DEF KeepsInv, SwapKeepsRows, OthersKept, RowsOf

(* The starts and ends of serve.                                           *)
LEMMA ServeKeeps ==
  ASSUME KeepsInv,
         StartServe \/ CheckNew \/ Seeded \/ OpenDatabase \/ Recover \/ Recovered \/ Shutdown
         \/ Stopped \/ KillServe
  PROVE  KeepsInv'
<1> USE DemoAssumption
<1> USE DEF active, prepared, backups, builds, requests, ServeFrame, NoBuild, Begins
<1>0. Empty \in Databases
  BY DEF Empty, Database, Databases
<1>1. CASE StartServe
  <2>1. DatabasesFit'
    BY <1>1 DEF StartServe, LockFree, KeepsInv, DatabasesFit, Open, Live
  <2> QED BY <1>1, <2>1, FrameKeeps DEF StartServe
<1>2. CASE CheckNew
  <2>1. reset = "down"
    BY <1>2 DEF CheckNew, KeepsInv, DatabasesFit
  <2>2. DatabasesFit'
    BY <1>0, <1>2, <2>1 DEF CheckNew, KeepsInv, DatabasesFit, Open, Live
  <2> QED BY <1>2, <2>1, <2>2, LiveKeeps DEF CheckNew
<1>3. CASE Seeded
  <2>1. reset = "down" /\ db = NoDb
    BY <1>3 DEF Seeded, KeepsInv, DatabasesFit
  <2>2. DatabasesFit'
    BY <1>3, <2>1 DEF Seeded, Place, KeepsInv, DatabasesFit, Open, Live
  <2> QED BY <1>3, <2>1, <2>2, LiveKeeps DEF Seeded, RowsOf
<1>4. CASE OpenDatabase
  <2>1. reset = "down"
    BY <1>4 DEF OpenDatabase, KeepsInv, DatabasesFit
  <2>2. DatabasesFit'
    BY <1>0, <1>4, <2>1 DEF OpenDatabase, KeepsInv, DatabasesFit, Open, Live
  <2>3. RowsOf(db) \subseteq RowsOf(db')
    BY <1>4 DEF OpenDatabase, RowsOf
  <2> QED BY <1>4, <2>1, <2>2, <2>3, LiveKeeps DEF OpenDatabase
<1>5. CASE Recover
  <2>1. DatabasesFit'
    BY <1>5 DEF Recover, WipeStopped, KeepsInv, DatabasesFit, Open, Live
  <2> QED BY <1>5, <2>1, FrameKeeps DEF Recover
<1>6. CASE Recovered
  <2>1. DatabasesFit'
    BY <1>6 DEF Recovered, KeepsInv, DatabasesFit, Open, Live
  <2> QED BY <1>6, <2>1, FrameKeeps DEF Recovered
<1>7. CASE Shutdown
  <2>1. DatabasesFit'
    BY <1>7 DEF Shutdown, KeepsInv, DatabasesFit, Open, Live
  <2> QED BY <1>7, <2>1, FrameKeeps DEF Shutdown
<1>8. CASE Stopped
  <2>1. DatabasesFit'
    BY <1>8 DEF Stopped, KeepsInv, DatabasesFit, Open, Live
  <2> QED BY <1>8, <2>1, FrameKeeps DEF Stopped
<1>9. CASE KillServe
  <2>1. reset = "down"
    BY <1>9 DEF KillServe, KeepsInv, DatabasesFit
  <2>2. DatabasesFit'
    BY <1>9, <2>1 DEF KillServe, KeepsInv, DatabasesFit, Open, Live
  <2> QED BY <1>9, <2>1, <2>2, LiveKeeps DEF KillServe
<1> QED BY <1>1, <1>2, <1>3, <1>4, <1>5, <1>6, <1>7, <1>8, <1>9

(* What requests and commands do to a running server's database.           *)
LEMMA RequestKeeps ==
  ASSUME KeepsInv, ~CommandsRace,
         \/ \E r \in Rows: Serve(r) \/ CommandWrite(r)
         \/ MarkBuild \/ StartTask \/ DropPut \/ TaskEnds \/ TaskPanics \/ AbortTask
         \/ CheckLogin \/ OpenSession \/ CheckDelete \/ DeleteAccount \/ DeleteFolder
  PROVE  KeepsInv'
<1> USE DemoAssumption
<1> USE DEF active, prepared, backups, builds, requests, RequestFrame, ServeFrame, BuildFrame
<1>1. ASSUME NEW r \in Rows, Serve(r) PROVE KeepsInv'
  <2>1. reset = "down" /\ db \in Databases
    BY <1>1 DEF Serve, KeepsInv, DatabasesFit, Open
  <2>2. db' \in Databases /\ db'.others = db.others \cup {r} /\ acked' = acked \cup {r}
    BY <1>1, <2>1 DEF Serve, StoreRow, Databases
  <2>3. DatabasesFit'
    BY <1>1, <2>1, <2>2 DEF Serve, StoreRow, KeepsInv, DatabasesFit, Open, Live
  <2>4. RowsOf(db) = db.others /\ RowsOf(db') = db'.others
    BY <2>1, <2>2 DEF RowsOf
  <2>5. UNCHANGED <<old, kept, reset>>
    BY <1>1 DEF Serve, StoreRow
  <2> QED BY <2>1, <2>2, <2>3, <2>4, <2>5, LiveKeeps
<1>2. ASSUME NEW r \in Rows, CommandWrite(r) PROVE KeepsInv'
  <2>1. reset = "down" /\ serve \notin {"check", "seed", "open"}
    BY <1>2 DEF CommandWrite
  <2>2. Empty \in Databases
    BY DEF Empty, Database, Databases
  <2>3. db' \in Databases /\ RowsOf(db') = RowsOf(db) \cup {r} /\ acked' = acked \cup {r}
    <3>1. CASE db = NoDb
      BY <1>2, <2>2, <3>1 DEF CommandWrite, Databases, RowsOf
    <3>2. CASE db # NoDb
      <4>1. db \in Databases
        BY <3>2 DEF KeepsInv, DatabasesFit
      <4>2. db' = [db EXCEPT !.others = db.others \cup {r}] /\ acked' = acked \cup {r}
        BY <1>2, <3>2 DEF CommandWrite
      <4>3. db' \in Databases /\ db'.others = db.others \cup {r}
        BY <4>1, <4>2 DEF Databases
      <4> QED BY <3>2, <4>2, <4>3 DEF RowsOf
    <3> QED BY <3>1, <3>2
  <2>4. DatabasesFit'
    BY <1>2, <2>1, <2>3 DEF CommandWrite, KeepsInv, DatabasesFit, Open, Live
  <2>5. UNCHANGED <<old, kept, reset>>
    BY <1>2 DEF CommandWrite
  <2> QED BY <2>1, <2>3, <2>4, <2>5, LiveKeeps
<1>3. CASE MarkBuild \/ DropPut \/ CheckLogin \/ CheckDelete
  <2>1. DatabasesFit' /\ UNCHANGED <<db, made, old, kept, acked, reset>>
    BY <1>3 DEF MarkBuild, DropPut, CheckLogin, CheckDelete, KeepsInv, DatabasesFit, Open, Live
  <2> QED BY <2>1, FrameKeeps
<1>4. CASE DeleteFolder
  <2>1. DatabasesFit' /\ UNCHANGED <<db, made, old, kept, acked, reset>>
    BY <1>4 DEF DeleteFolder, KeepsInv, DatabasesFit, Open, Live
  <2> QED BY <2>1, FrameKeeps
<1>5. CASE TaskEnds \/ TaskPanics \/ AbortTask
  <2>1. DatabasesFit' /\ UNCHANGED <<db, made, old, kept, acked, reset>>
    BY <1>5 DEF TaskEnds, TaskPanics, AbortTask, NoBuild, KeepsInv, DatabasesFit, Open, Live
  <2> QED BY <2>1, FrameKeeps
<1>6. ASSUME NEW d \in Databases, db' = d, d.others = db.others, db \in Databases,
             reset = "down", UNCHANGED <<old, kept, acked, reset>>, DatabasesFit'
      PROVE  KeepsInv'
  BY <1>6, LiveKeeps DEF RowsOf
<1>7. CASE StartTask
  <2>1. serve = "up" /\ reset = "down" /\ db \in Databases
    BY <1>7 DEF StartTask, KeepsInv, DatabasesFit, Open
  <2>2. CASE db' = [db EXCEPT !.session = FALSE] /\ Begins("task")
    <3>1. db' \in Databases /\ db'.others = db.others
      BY <2>1, <2>2 DEF Databases
    <3>2. DatabasesFit'
      BY <1>7, <2>1, <2>2, <3>1 DEF StartTask, Begins, KeepsInv, DatabasesFit, Open, Live
    <3> QED BY <1>6, <1>7, <2>1, <3>1, <3>2 DEF StartTask
  <2>3. CASE UNCHANGED <<db, builds>>
    <3>1. DatabasesFit' /\ UNCHANGED <<db, made, old, kept, acked, reset>>
      BY <1>7, <2>3 DEF StartTask, KeepsInv, DatabasesFit, Open, Live
    <3> QED BY <3>1, FrameKeeps
  <2> QED BY <1>7, <2>2, <2>3 DEF StartTask
<1>8. CASE OpenSession \/ DeleteAccount
  <2>1. serve = "up" /\ reset = "down" /\ db \in Databases
    BY <1>8 DEF OpenSession, DeleteAccount, KeepsInv, DatabasesFit, Open
  <2>2. db' \in Databases /\ db'.others = db.others
    BY <1>8, <2>1 DEF OpenSession, DeleteAccount, Databases
  <2>3. DatabasesFit'
    BY <1>8, <2>1, <2>2 DEF OpenSession, DeleteAccount, KeepsInv, DatabasesFit, Open, Live
  <2> QED BY <1>6, <1>8, <2>1, <2>2, <2>3 DEF OpenSession, DeleteAccount
<1> QED BY <1>1, <1>2, <1>3, <1>4, <1>5, <1>7, <1>8

(* The reset up to its swap.                                               *)
LEMMA ResetKeeps ==
  ASSUME KeepsInv, StartReset \/ Snapshot \/ ResetBuilt \/ Verify \/ GiveUp
  PROVE  KeepsInv'
<1> USE DemoAssumption
<1> USE DEF active, prepared, backups, builds, requests, ResetFrame, NoBuild, Begins,
            KeepsInv, OthersKept, Swapping
<1>1. CASE StartReset
  BY <1>1 DEF StartReset, LockFree, DatabasesFit, SwapKeepsRows, RowsOf, Open, Live
<1>2. CASE Snapshot
  <2>1. Empty \in Databases
    BY DEF Empty, Database, Databases
  <2> QED BY <1>2, <2>1 DEF Snapshot, DatabasesFit, SwapKeepsRows, RowsOf, Open, Live
<1>3. CASE ResetBuilt
  BY <1>3 DEF ResetBuilt, DatabasesFit, SwapKeepsRows, RowsOf, Open, Live
<1>4. CASE Verify
  BY <1>4 DEF Verify, OthersUnchanged, DatabasesFit, SwapKeepsRows, RowsOf, Open, Live
<1>5. CASE GiveUp
  BY <1>5 DEF GiveUp, DatabasesFit, SwapKeepsRows, RowsOf, Open, Live
<1> QED BY <1>1, <1>2, <1>3, <1>4, <1>5

(* The swap, its rollback, and a kill in either.                           *)
LEMMA SwapKeeps ==
  ASSUME KeepsInv,
         \/ BackUpDatabase \/ BackUpFolder \/ InstallDatabase \/ InstallFolder \/ CleanUp
         \/ MarkReady \/ RenameFails \/ RollBackFolder \/ RollBackDatabase \/ GiveBack
         \/ KillReset
  PROVE  KeepsInv'
<1> USE DemoAssumption
<1> USE DEF active, prepared, backups, builds, requests, ResetFrame, SwapFrame, RollFrame, NoBuild,
            KeepsInv, OthersKept, Swapping
<1>1. CASE BackUpDatabase
  BY <1>1 DEF BackUpDatabase, DatabasesFit, SwapKeepsRows, RowsOf, Open, Live
<1>2. CASE BackUpFolder
  BY <1>2 DEF BackUpFolder, DatabasesFit, SwapKeepsRows, RowsOf, Open, Live
<1>3. CASE InstallDatabase
  BY <1>3 DEF InstallDatabase, DatabasesFit, SwapKeepsRows, RowsOf, Open, Live
<1>4. CASE InstallFolder
  BY <1>4 DEF InstallFolder, DatabasesFit, SwapKeepsRows, RowsOf, Open, Live
<1>5. CASE CleanUp
  BY <1>5 DEF CleanUp, DatabasesFit, SwapKeepsRows, RowsOf, Open, Live
<1>6. CASE MarkReady
  BY <1>6 DEF MarkReady, DatabasesFit, SwapKeepsRows, RowsOf, Open, Live
<1>7. CASE RenameFails
  BY <1>7 DEF RenameFails, DatabasesFit, SwapKeepsRows, RowsOf, Open, Live
<1>8. CASE RollBackFolder
  BY <1>8 DEF RollBackFolder, DatabasesFit, SwapKeepsRows, RowsOf, Open, Live
<1>9. CASE RollBackDatabase
  BY <1>9 DEF RollBackDatabase, Installed, DatabasesFit, SwapKeepsRows, RowsOf, Open, Live
<1>10. CASE GiveBack
  BY <1>10 DEF GiveBack, KeepWork, NothingInWork, DatabasesFit, SwapKeepsRows, RowsOf, Open, Live
<1>11. CASE KillReset
  BY <1>11 DEF KillReset, DatabasesFit, SwapKeepsRows, RowsOf, Open, Live
<1> QED BY <1>1, <1>2, <1>3, <1>4, <1>5, <1>6, <1>7, <1>8, <1>9, <1>10, <1>11

(* So every step keeps the invariant.                                      *)
LEMMA NextKeeps == ~CommandsRace /\ KeepsInv /\ [Next]_vars => KeepsInv'
<1> SUFFICES ASSUME ~CommandsRace, KeepsInv, [Next]_vars PROVE KeepsInv'
  OBVIOUS
<1>1. CASE UNCHANGED vars
  BY <1>1 DEF vars, active, prepared, backups, builds, requests, KeepsInv, DatabasesFit,
              SwapKeepsRows, OthersKept, RowsOf, Open, Swapping, Live
<1>2. CASE Next
  BY <1>2, BuildKeeps, ServeKeeps, RequestKeeps, ResetKeeps, SwapKeeps DEF Next
<1> QED BY <1>1, <1>2

(* If no command writes while a database is replaced, no row that another  *)
(* account stored is ever lost, whatever fails or is killed: it is in the  *)
(* database, in the swap's backup or in a work folder that stays           *)
(* (reset_demo.rs, Swap and install_reset_state_or_keep_work).             *)
THEOREM RowsAreKept == ~CommandsRace /\ Spec => []OthersKept
<1>1. ~CommandsRace /\ Spec => []KeepsInv
  <2> SUFFICES ASSUME ~CommandsRace PROVE Spec => []KeepsInv
    OBVIOUS
  <2>1. KeepsInv /\ [Next]_vars => KeepsInv'
    BY NextKeeps
  <2> QED BY <2>1, InitKeeps, PTL DEF Spec
<1>2. KeepsInv => OthersKept
  BY DEF KeepsInv
<1> QED BY <1>1, <1>2, PTL

--------------------------------------------------------------------------------

(* Where a database stands while reset-demo runs, and that the marker is   *)
(* away meanwhile.                                                         *)
ReadyInv ==
  /\ ready => db # NoDb /\ reset = "down"
  /\ reset \in {"snapshot", "build", "verify", "back up database", "install folder", "clean up",
                "mark"} => db # NoDb
  /\ reset \in {"back up folder", "install database", "install folder"} => old # NoDb
  /\ reset \in {"roll back folder", "roll back database"} =>
       old # NoDb \/ (db # NoDb /\ made # NoDb)
  /\ reset = "give back" => old # NoDb \/ db # NoDb

(* A step outside a reset that takes no database away.                     *)
LEMMA FrameReady ==
  ASSUME ReadyInv, UNCHANGED <<old, reset>>, ready' => ready /\ reset = "down",
         db # NoDb => db' # NoDb, made # NoDb => made' # NoDb
  PROVE  ReadyInv'
BY DEF ReadyInv

(* A step while no reset runs, after which the marker is true.             *)
LEMMA DownReady ==
  ASSUME reset = "down", reset' = "down", ready' => db' # NoDb PROVE ReadyInv'
BY DEF ReadyInv

(* The steps of builds, of serve and of requests.                          *)
LEMMA ServeReady ==
  ASSUME KeepsInv, KeepsInv', ReadyInv, ~CommandsRace,
         \/ BuildWorks \/ BuildFails
         \/ StartServe \/ CheckNew \/ Seeded \/ OpenDatabase \/ Recover \/ Recovered
         \/ \E r \in Rows: Serve(r) \/ CommandWrite(r)
         \/ MarkBuild \/ StartTask \/ DropPut \/ TaskEnds \/ TaskPanics
         \/ Shutdown \/ AbortTask \/ Stopped
         \/ CheckLogin \/ OpenSession \/ CheckDelete \/ DeleteAccount \/ DeleteFolder
         \/ KillServe
  PROVE  ReadyInv'
<1> USE DemoAssumption
<1> USE DEF active, prepared, backups, builds, requests, ServeFrame, BuildFrame, RequestFrame,
            NoBuild
<1>1. CASE BuildWorks
  <2>1. UNCHANGED <<old, reset, ready>>
    BY <1>1 DEF BuildWorks
  <2>2. (db # NoDb => db' # NoDb) /\ (made # NoDb => made' # NoDb)
    BY <1>1, BuildStepRows DEF SameRows
  <2> QED BY <2>1, <2>2, FrameReady DEF ReadyInv
<1>2. CASE BuildFails
  BY <1>2, FrameReady DEF BuildFails, ReadyInv
<1>3. CASE StartServe \/ Recover \/ Recovered \/ Shutdown \/ Stopped
  <2>1. CASE StartServe
    BY <2>1, FrameReady DEF StartServe, ReadyInv
  <2>2. CASE Recover
    BY <2>2, FrameReady DEF Recover, ReadyInv
  <2>3. CASE Recovered
    BY <2>3, FrameReady DEF Recovered, ReadyInv
  <2>4. CASE Shutdown
    BY <2>4, FrameReady DEF Shutdown, ReadyInv
  <2>5. CASE Stopped
    BY <2>5, FrameReady DEF Stopped, ReadyInv
  <2> QED BY <1>3, <2>1, <2>2, <2>3, <2>4, <2>5
<1>4. CASE CheckNew \/ Seeded \/ OpenDatabase \/ KillServe
  <2>1. reset = "down" /\ reset' = "down"
    BY <1>4 DEF CheckNew, Seeded, OpenDatabase, KillServe, KeepsInv, DatabasesFit
  <2>2. ready' => db' # NoDb
    BY <1>4 DEF CheckNew, Seeded, Place, OpenDatabase, KillServe, Empty, Database, Databases,
                KeepsInv, DatabasesFit, ReadyInv, Open
  <2> QED BY <2>1, <2>2, DownReady
<1>5. ASSUME NEW r \in Rows, Serve(r) \/ CommandWrite(r) PROVE ReadyInv'
  <2>1. reset = "down" /\ reset' = "down"
    BY <1>5 DEF Serve, StoreRow, CommandWrite, KeepsInv, DatabasesFit, Open
  <2>2. serve \notin {"check", "seed", "open"} /\ UNCHANGED <<ready, serve>>
    BY <1>5 DEF Serve, StoreRow, CommandWrite
  <2>3. CASE Serve(r)
    BY <2>1, <2>2, <2>3, DownReady DEF Serve, KeepsInv, DatabasesFit, Open
  <2>4. CASE CommandWrite(r)
    <3>1. CASE db = NoDb
      BY <2>1, <2>2, <3>1, DownReady DEF ReadyInv
    <3>2. CASE db # NoDb
      <4>1. db \in Databases
        BY <3>2 DEF KeepsInv, DatabasesFit
      <4>2. db' = [db EXCEPT !.others = db.others \cup {r}]
        BY <2>4, <3>2 DEF CommandWrite
      <4>3. db' \in Databases
        BY <4>1, <4>2 DEF Databases
      <4> QED BY <2>1, <4>3, DownReady
    <3> QED BY <3>1, <3>2
  <2> QED BY <1>5, <2>3, <2>4
<1>6. CASE MarkBuild \/ DropPut \/ TaskEnds \/ TaskPanics \/ AbortTask
           \/ CheckLogin \/ CheckDelete \/ DeleteFolder
  <2>1. CASE MarkBuild
    BY <2>1, FrameReady DEF MarkBuild, ReadyInv
  <2>2. CASE DropPut
    BY <2>2, FrameReady DEF DropPut, ReadyInv
  <2>3. CASE TaskEnds
    BY <2>3, FrameReady DEF TaskEnds, ReadyInv
  <2>4. CASE TaskPanics
    BY <2>4, FrameReady DEF TaskPanics, ReadyInv
  <2>5. CASE AbortTask
    BY <2>5, FrameReady DEF AbortTask, ReadyInv
  <2>6. CASE CheckLogin
    BY <2>6, FrameReady DEF CheckLogin, ReadyInv
  <2>7. CASE CheckDelete
    BY <2>7, FrameReady DEF CheckDelete, ReadyInv
  <2>8. CASE DeleteFolder
    BY <2>8, FrameReady DEF DeleteFolder, ReadyInv
  <2> QED BY <1>6, <2>1, <2>2, <2>3, <2>4, <2>5, <2>6, <2>7, <2>8
<1>7. CASE StartTask \/ OpenSession \/ DeleteAccount
  <2>1. serve' = "up" /\ reset = "down" /\ reset' = "down"
    BY <1>7 DEF StartTask, OpenSession, DeleteAccount, KeepsInv, DatabasesFit
  <2> QED BY <2>1, DownReady DEF KeepsInv, DatabasesFit, Open
<1> QED BY <1>1, <1>2, <1>3, <1>4, <1>5, <1>6, <1>7

(* The steps of reset-demo.                                                *)
LEMMA ResetReady ==
  ASSUME KeepsInv, ReadyInv, ~FreshResets,
         \/ StartReset \/ Snapshot \/ ResetBuilt \/ Verify \/ GiveUp
         \/ BackUpDatabase \/ BackUpFolder \/ InstallDatabase \/ InstallFolder \/ CleanUp
         \/ MarkReady \/ RenameFails \/ RollBackFolder \/ RollBackDatabase \/ GiveBack
         \/ KillReset
  PROVE  ReadyInv'
<1> USE DEF active, prepared, backups, SwapFrame, RollFrame, ReadyInv, KeepsInv, DatabasesFit
<1>1. CASE StartReset
  BY <1>1 DEF StartReset, ClearReady
<1>2. CASE Snapshot \/ ResetBuilt \/ Verify
  <2>1. CASE Snapshot
    BY <2>1 DEF Snapshot
  <2>2. CASE ResetBuilt
    BY <2>2 DEF ResetBuilt
  <2>3. CASE Verify
    BY <2>3 DEF Verify
  <2> QED BY <1>2, <2>1, <2>2, <2>3
<1>3. CASE GiveUp
  BY <1>3 DEF GiveUp
<1>4. CASE BackUpDatabase \/ BackUpFolder
  <2>1. CASE BackUpDatabase
    BY <2>1 DEF BackUpDatabase
  <2>2. CASE BackUpFolder
    BY <2>2 DEF BackUpFolder
  <2> QED BY <1>4, <2>1, <2>2
<1>5. CASE InstallDatabase \/ InstallFolder \/ CleanUp
  <2>1. CASE InstallDatabase
    BY <2>1 DEF InstallDatabase
  <2>2. CASE InstallFolder
    BY <2>2 DEF InstallFolder
  <2>3. CASE CleanUp
    BY <2>3 DEF CleanUp
  <2> QED BY <1>5, <2>1, <2>2, <2>3
<1>6. CASE MarkReady
  BY <1>6 DEF MarkReady
<1>7. CASE RenameFails
  BY <1>7 DEF RenameFails
<1>8. CASE RollBackFolder \/ RollBackDatabase
  <2>1. CASE RollBackFolder
    BY <2>1 DEF RollBackFolder, Installed
  <2>2. CASE RollBackDatabase
    BY <2>2 DEF RollBackDatabase, Installed
  <2> QED BY <1>8, <2>1, <2>2
<1>9. CASE GiveBack
  BY <1>9 DEF GiveBack, KeepWork, NothingInWork
<1>10. CASE KillReset
  BY <1>10 DEF KillReset
<1> QED BY <1>1, <1>2, <1>3, <1>4, <1>5, <1>6, <1>7, <1>8, <1>9, <1>10

(* If commands do not write while a database is replaced, and reset-demo   *)
(* runs only where there is one, the ready marker stands only beside a     *)
(* database, through every failure and kill (ReadyWhileRebuilding).        *)
THEOREM ReadyIsTrue == ~CommandsRace /\ ~FreshResets /\ Spec => []ReadyTrue
<1>1. Init => ReadyInv
  BY DEF Init, ReadyInv
<1>2. ~CommandsRace /\ ~FreshResets /\ Spec => [](KeepsInv /\ ReadyInv)
  <2> SUFFICES ASSUME ~CommandsRace, ~FreshResets PROVE Spec => [](KeepsInv /\ ReadyInv)
    OBVIOUS
  <2>1. KeepsInv /\ ReadyInv /\ [Next]_vars => (KeepsInv /\ ReadyInv)'
    <3> SUFFICES ASSUME KeepsInv, ReadyInv, [Next]_vars PROVE KeepsInv' /\ ReadyInv'
      OBVIOUS
    <3>1. KeepsInv'
      BY NextKeeps
    <3>2. CASE UNCHANGED vars
      BY <3>1, <3>2 DEF vars, active, prepared, backups, ReadyInv
    <3>3. CASE Next
      BY <3>1, <3>3, ServeReady, ResetReady DEF Next
    <3> QED BY <3>1, <3>2, <3>3
  <2> QED BY <1>1, <2>1, InitKeeps, PTL DEF Spec
<1>3. ReadyInv => ReadyTrue
  BY DEF ReadyInv, ReadyTrue
<1> QED BY <1>2, <1>3, PTL

--------------------------------------------------------------------------------
(* The Demo Account itself.                                                *)

(* What a database promises of the account's folder beside it: once the    *)
(* record of its build is gone, the account is whole or there is none.     *)
Sound(d, f) ==
  d # NoDb /\ ~d.record => d.demo = "none" \/ (d.demo = "whole" /\ f = "whole")

Finished(d, f) == d # NoDb /\ ~d.record /\ d.demo = "whole" /\ f = "whole"

(* What each step of a build has made so far, and that its record stands.  *)
Seeding == {"seed", "files", "import", "finish", "end"}
Recorded == Seeding \cup {"wipe", "account", "folder", "unrecord"}
Folder == IF builder = "reset" THEN madeDir ELSE dir
BuildMade ==
  /\ build \in Recorded \cup {"none", "record", "done", "removed"}
  /\ build = "none" => ~Live
  /\ build \in {"folder", "unrecord"} => Built.demo = "none"
  /\ build \in {"files", "import", "finish"} => Built.demo = "part"
  /\ build = "end" => Built.demo = "whole"
  /\ build \in {"finish", "end"} => Folder = "whole"
  /\ build = "done" => Finished(Built, Folder)
  /\ Live /\ build \in Recorded => Built.record
  /\ build \in Seeding => then = "seed"
  /\ then \in {"seed", "unrecord", "removed"}

(* Nobody enters or deletes the account while it is being built.           *)
BuildAlone ==
  /\ state = "building" => login = "none" /\ delete = "none"
  /\ put = "marked" => state = "building" /\ build = "none"
  /\ build # "none" /\ Live /\ serve = "up" => state = "building" /\ ~db.session
  /\ delete = "folder" => db.demo = "none"

(* A running server has no stopped build: with at most one fault, a build  *)
(* that failed was wiped to the end.                                       *)
NoneStopped ==
  /\ faults \in Nat
  /\ serve = "up" /\ build # "none" /\ Live /\ then # "seed" => faults # 0 /\ then = "unrecord"
  /\ serve = "up" /\ (build \in {"none", "removed"} \/ (build = "record" /\ Live)) => ~db.record

(* The account on its way through the swap and its rollback: the new one   *)
(* is whole, and the one before it can still be put together.              *)
Before(f) == Sound(IF old # NoDb \/ Installed THEN old ELSE db, f)
SwapWhole ==
  /\ reset \in {"verify", "back up database", "back up folder", "install database"} =>
       Finished(made, madeDir)
  /\ reset = "install folder" => Finished(db, madeDir)
  /\ reset \in {"clean up", "mark"} => Finished(db, dir)
  /\ reset \in {"back up folder", "install database"} => db = NoDb
  /\ ~torn =>
       /\ reset = "back up folder" => Sound(old, dir)
       /\ reset \in {"install database", "install folder"} => Sound(old, oldDir)
       /\ reset = "roll back folder" => Before(IF oldDir = "none" THEN dir ELSE oldDir)
       /\ reset = "roll back database" => oldDir # "none" \/ Before(dir)
       /\ reset = "give back" => oldDir # "none" \/ old # NoDb \/ Sound(db, dir)
  /\ reset \notin Swapping \/ reset = "back up folder" => oldDir = "none"
  /\ reset \in {"install database", "install folder"} => dir = "none"

AtRest ==
  ~torn /\ reset \notin {"install folder", "roll back folder", "roll back database", "give back"}
    => Sound(db, dir)

WholeInv == BuildMade /\ BuildAlone /\ NoneStopped /\ SwapWhole /\ AtRest

(* What the steps of a build write into a database.                        *)
LEMMA RowWrites ==
  /\ NoDb \notin Databases
  /\ \A d \in Databases, s \in {"none", "part", "whole"} :
       LET e == [d EXCEPT !.demo = s]
       IN  e.demo = s /\ e.record = d.record /\ e.session = d.session
  /\ \A d \in Databases, r \in BOOLEAN :
       LET e == [d EXCEPT !.record = r]
       IN  e.demo = d.demo /\ e.record = r /\ e.session = d.session
  /\ \A d \in Databases :
       /\ LET e == [d EXCEPT !.demo = "none", !.session = FALSE]
          IN  e.demo = "none" /\ e.record = d.record /\ e.session = FALSE
       /\ LET e == [d EXCEPT !.session = FALSE]
          IN  e.demo = d.demo /\ e.record = d.record /\ e.session = FALSE
BY DemoAssumption DEF Databases

(* Where a build works, and what it leaves alone.                          *)
LEMMA BuildPlaces ==
  ASSUME KeepsInv, BuildWorks
  PROVE  /\ UNCHANGED <<builder, serve, reset, state, put, login, delete, old, oldDir, torn>>
         /\ UNCHANGED faults /\ build # "none"
         /\ Built \in Databases /\ Built' \in Databases
         /\ Live => /\ db = Built /\ dir = Folder /\ db' = Built' /\ dir' = Folder'
                    /\ reset = "down"
         /\ ~Live => db' = db /\ (db = NoDb \/ dir' = dir) /\ serve # "up"
                     /\ reset \in {"down", "build"}
<1>1. /\ UNCHANGED <<builder, serve, reset, state, put, login, delete, old, oldDir, torn>>
      /\ UNCHANGED faults
  BY DEF BuildWorks, BuildFrame, backups, requests, bounds
<1>2. build # "none"
      /\ IF Live THEN SameRows(db, db') /\ made' = made ELSE SameRows(made, made') /\ db' = db
  BY BuildStepRows
<1>3. Live' = Live
  BY <1>1 DEF Live
<1>4. Built \in Databases /\ Built' \in Databases
  BY <1>2, <1>3 DEF Built, SameRows
<1>5. CASE Live
  BY <1>1, <1>2, <1>3, <1>4, <1>5 DEF Built, Folder, Live, KeepsInv, DatabasesFit, Open
<1>6. CASE ~Live
  <2>1. (serve = "seed" /\ db = NoDb) \/ (reset = "build" /\ builder = "reset")
    BY <1>2, <1>6 DEF KeepsInv, DatabasesFit
  <2>4. serve # "up"
    BY <2>1 DEF KeepsInv, DatabasesFit
  <2>2. builder = "reset" => dir' = dir
    BY DEF BuildWorks, BeginBuild, WipeMessages, WipeAccount, WipeFolder, SeedAccount, CopyFiles,
           ImportSources, FinishAccount, EndBuild, Unrecord, Files, SameFiles
  <2>3. serve = "seed" => reset = "down"
    BY DEF KeepsInv, DatabasesFit
  <2> QED
    BY <1>1, <1>2, <1>4, <1>6, <2>1, <2>2, <2>3, <2>4
<1> QED
  BY <1>5, <1>6

(* What each step of a build makes.                                        *)
LEMMA BuildMakes ==
  ASSUME KeepsInv, BuildWorks, BuildMade
  PROVE  /\ BuildMade'
         /\ Live => Sound(Built', Folder')
         /\ ~Built.session => ~Built'.session
         /\ then' \in {"seed", then} /\ build' \notin {"none", "record"}
         /\ build' = "removed" => ~Built'.record \/ then = "removed"
<1>0. Built \in Databases /\ Built' \in Databases /\ builder' = builder
  BY BuildPlaces
<1>1. Live' = Live
  BY <1>0 DEF Live
<1>3. \A f : Files(f) => Folder' = f
  BY <1>0 DEF Files, Folder
<1>4. SameFiles => Folder' = Folder
  BY <1>0 DEF SameFiles, Folder
<1>5. UNCHANGED <<db, made>> => Built' = Built
  BY <1>1 DEF Built
<1>6. Built # NoDb /\ Built' # NoDb
  BY <1>0, RowWrites
<1>7. CASE BeginBuild
  <2>0. Built' = [Built EXCEPT !.record = TRUE]
    BY <1>1, <1>7 DEF BeginBuild, Write, Built
  <2>1. Built'.record /\ Built'.demo = Built.demo /\ build' = "wipe" /\ then' = "seed"
        /\ Built'.session = Built.session
    BY <1>0, <2>0, <1>7, RowWrites DEF BeginBuild, Step
  <2> QED
    BY <2>1 DEF BuildMade, Seeding, Recorded, Sound
<1>8. CASE WipeMessages
  <2>0. Built' = [Built EXCEPT !.demo = IF Built.demo = "none" THEN Built.demo ELSE "part"]
    BY <1>1, <1>8 DEF WipeMessages, Write, Built
  <2>1. Built'.record = Built.record /\ (~Built.session => ~Built'.session)
        /\ build = "wipe" /\ build' = "account" /\ then' = then
    BY <1>0, <2>0, <1>8, RowWrites DEF WipeMessages, Step, Databases
  <2> QED
    BY <1>1, <2>1 DEF BuildMade, Seeding, Recorded, Sound
<1>9. CASE WipeAccount
  <2>0. Built' = [Built EXCEPT !.demo = "none", !.session = FALSE]
    BY <1>1, <1>9 DEF WipeAccount, Write, Built
  <2>1. Built'.record = Built.record /\ (~Built.session => ~Built'.session)
        /\ build = "account" /\ build' = "folder" /\ then' = then
        /\ Built'.demo = "none"
    BY <1>0, <2>0, <1>9, RowWrites DEF WipeAccount, Step
  <2> QED
    BY <1>1, <2>1 DEF BuildMade, Seeding, Recorded, Sound
<1>10. CASE WipeFolder
  <2>1. Built' = Built /\ build = "folder" /\ build' = then /\ then' = then
    BY <1>5, <1>10 DEF WipeFolder
  <2> QED
    BY <1>1, <2>1 DEF BuildMade, Seeding, Recorded, Sound
<1>11. CASE SeedAccount
  <2>0. Built' = [Built EXCEPT !.demo = "part"]
    BY <1>1, <1>11 DEF SeedAccount, Write, Built
  <2>1. Built'.record = Built.record /\ (~Built.session => ~Built'.session)
        /\ build = "seed" /\ build' = "files" /\ then' = then
        /\ Built'.demo = "part"
    BY <1>0, <2>0, <1>11, RowWrites DEF SeedAccount, Step
  <2> QED
    BY <1>1, <2>1 DEF BuildMade, Seeding, Recorded, Sound
<1>12. CASE CopyFiles \/ ImportSources
  <2>1. /\ Built' = Built /\ build \in {"files", "import"} /\ then' = then
        /\ build' \in {"import", "finish"} /\ (build' = "finish" => Folder' = "whole")
    BY <1>3, <1>5, <1>12 DEF CopyFiles, ImportSources, Step
  <2> QED
    BY <1>1, <2>1 DEF BuildMade, Seeding, Recorded, Sound
<1>13. CASE FinishAccount
  <2>0. Built' = [Built EXCEPT !.demo = IF Built.demo = "part" THEN "whole" ELSE Built.demo]
    BY <1>1, <1>13 DEF FinishAccount, Write, Built
  <2>1. build = "finish" /\ build' = "end" /\ then' = then /\ Folder' = Folder
        /\ Built' = [Built EXCEPT !.demo = IF Built.demo = "part" THEN "whole" ELSE Built.demo]
    BY <2>0, <1>4, <1>13 DEF FinishAccount, Step
  <2>2. Built.demo = "part"
    BY <2>1 DEF BuildMade
  <2>3. Built'.session = Built.session /\ Built'.record = Built.record /\ Built'.demo = "whole"
    BY <1>0, <2>1, <2>2, RowWrites
  <2> QED
    BY <1>1, <2>1, <2>3 DEF BuildMade, Seeding, Recorded, Sound
<1>14. CASE EndBuild
  <2>0. Built' = [Built EXCEPT !.record = FALSE]
    BY <1>1, <1>14 DEF EndBuild, Write, Built
  <2>1. build = "end" /\ build' = "done" /\ then' = then /\ Folder' = Folder
        /\ Built'.record = FALSE /\ Built'.demo = Built.demo
        /\ Built'.session = Built.session
    BY <1>0, <2>0, <1>4, <1>14, RowWrites DEF EndBuild, Step
  <2> QED
    BY <1>1, <1>6, <2>1 DEF BuildMade, Finished, Seeding, Recorded, Sound
<1>15. CASE Unrecord
  <2>0. Built' = [Built EXCEPT !.record = FALSE]
    BY <1>1, <1>15 DEF Unrecord, Write, Built
  <2>1. build = "unrecord" /\ build' = "removed" /\ then' = then
        /\ Built'.record = FALSE /\ Built'.demo = Built.demo
        /\ Built'.session = Built.session
    BY <1>0, <2>0, <1>15, RowWrites DEF Unrecord, Step
  <2> QED
    BY <1>1, <2>1 DEF BuildMade, Seeding, Recorded, Sound
<1> QED
  BY <1>7, <1>8, <1>9, <1>10, <1>11, <1>12, <1>13, <1>14, <1>15 DEF BuildWorks

(* A step of a build keeps the account whole, or its record standing.      *)
LEMMA BuildKeepsWhole ==
  ASSUME KeepsInv, WholeInv, BuildWorks
  PROVE  WholeInv'
<1>1. /\ UNCHANGED <<builder, serve, reset, state, put, login, delete, old, oldDir, torn>>
      /\ UNCHANGED faults /\ build # "none"
      /\ Live => db = Built /\ db' = Built' /\ dir' = Folder' /\ reset = "down"
      /\ ~Live => db' = db /\ (db = NoDb \/ dir' = dir) /\ serve # "up"
                  /\ reset \in {"down", "build"}
  BY BuildPlaces
<1>2. /\ BuildMade'
      /\ Live => Sound(Built', Folder')
      /\ ~Built.session => ~Built'.session
      /\ then' \in {"seed", then} /\ build' \notin {"none", "record"}
      /\ build' = "removed" => ~Built'.record \/ then = "removed"
  BY BuildMakes DEF WholeInv
<1>3. Live' = Live
  BY <1>1 DEF Live
<1>4. delete # "none" => serve = "up"
  BY DEF KeepsInv, DatabasesFit
<1>5. BuildAlone'
  BY <1>1, <1>2, <1>3, <1>4 DEF WholeInv, BuildAlone
<1>6. NoneStopped'
  BY <1>1, <1>2, <1>3 DEF WholeInv, NoneStopped
<1>7. SwapWhole'
  BY <1>1 DEF WholeInv, SwapWhole, Swapping
<1>8. AtRest'
  <2>1. Live => Sound(db', dir')
    BY <1>1, <1>2
  <2>2. ~Live => (db' = NoDb \/ (db' = db /\ dir' = dir)) /\ reset' = reset /\ torn' = torn
    BY <1>1
  <2> QED
    BY <2>1, <2>2 DEF WholeInv, AtRest, Sound
<1> QED
  BY <1>2, <1>5, <1>6, <1>7, <1>8 DEF WholeInv

(* A step that leaves the databases and the swap alone.                    *)
LEMMA FrameWhole ==
  ASSUME WholeInv, BuildMade', BuildAlone', NoneStopped',
         UNCHANGED <<db, dir, made, madeDir, old, oldDir, reset, torn>>
  PROVE  WholeInv'
BY DEF WholeInv, SwapWhole, AtRest, Before, Installed

(* A build that fails is wiped, once: nothing else fails.                  *)
LEMMA FailureKeepsWhole ==
  ASSUME KeepsInv, WholeInv, BuildFails, ~RecordFails, MaxFaults <= 1
  PROVE  WholeInv'
<1> USE DEF active, prepared, backups, requests, BuildFrame
<1>0. MaxFaults \in Nat /\ faults \in Nat
  BY DemoAssumption DEF WholeInv, NoneStopped
<1>1. /\ UNCHANGED <<db, dir, made, madeDir, old, oldDir, reset, torn, builder, serve, state, put,
                     login, delete>>
      /\ faults = 0 /\ faults' = 1
  BY <1>0 DEF BuildFails, Fault
<1>2. Live' = Live /\ Built' = Built /\ Folder' = Folder
  BY <1>1 DEF Live, Built, Folder
<1>3. build \notin {"none", "removed"} /\ (Live => Built.record)
  BY DEF BuildFails, WholeInv, BuildMade, Seeding, Recorded
<1>4. serve = "up" /\ Live => then = "seed"
  BY <1>1, <1>3 DEF WholeInv, NoneStopped
<1>5. Live => builder # "reset"
  BY DEF Live
<1>6. (build' = "wipe" /\ then' = "unrecord") \/ (build' = "removed" /\ then' = then)
  BY DEF BuildFails
<1>7. serve = "up" /\ Live => build' = "wipe" /\ then' = "unrecord"
  BY <1>4, <1>5 DEF BuildFails
<1>8. BuildMade'
  BY <1>2, <1>3, <1>6 DEF WholeInv, BuildMade, Seeding, Recorded
<1>9. BuildAlone'
  BY <1>1, <1>2, <1>3, <1>6 DEF WholeInv, BuildAlone
<1>10. NoneStopped'
  <2>1. serve = "up" => Live
    BY <1>3 DEF KeepsInv, DatabasesFit
  <2> QED
    BY <1>1, <1>2, <1>7, <2>1 DEF NoneStopped
<1> QED
  BY <1>1, <1>8, <1>9, <1>10, FrameWhole

(* Outside a swap, only the account at the configured paths counts.        *)
LEMMA DownWhole ==
  ASSUME BuildMade', BuildAlone', NoneStopped', reset' = "down", oldDir' = "none",
         ~torn' => Sound(db', dir')
  PROVE  WholeInv'
BY DEF WholeInv, SwapWhole, AtRest, Swapping

(* What is known while no reset runs.                                      *)
LEMMA DownFacts ==
  ASSUME WholeInv, reset = "down"
  PROVE  oldDir = "none" /\ (~torn => Sound(db, dir))
BY DEF WholeInv, SwapWhole, AtRest, Swapping

(* No build, or one that begins.                                           *)
LEMMA BuildStarts ==
  ASSUME NoBuild \/ \E who : Begins(who) PROVE BuildMade'
BY DEF NoBuild, Begins, BuildMade, Live, Seeding, Recorded

(* The starts and ends of serve.                                           *)
LEMMA ServeWhole ==
  ASSUME KeepsInv, KeepsInv', WholeInv,
         StartServe \/ CheckNew \/ Seeded \/ OpenDatabase \/ Recover \/ Recovered \/ Shutdown
         \/ Stopped \/ KillServe
  PROVE  WholeInv'
<1> USE DEF active, prepared, backups, builds, requests, bounds, ServeFrame
<1>1. UNCHANGED <<old, oldDir, reset>> /\ reset = "down" /\ (UNCHANGED faults)
  BY DEF StartServe, CheckNew, Seeded, OpenDatabase, Recover, Recovered, Shutdown, Stopped,
         KillServe, Starts, Killed, LockFree, KeepsInv, DatabasesFit
<1>2. oldDir' = "none" /\ reset' = "down" /\ (~torn => Sound(db, dir))
  BY <1>1, DownFacts
<1>3. faults' \in Nat
  BY <1>1 DEF WholeInv, NoneStopped
<1>4. CASE StartServe
  <2>1. UNCHANGED <<db, dir, made, madeDir, torn, build, builder, then>>
    BY <1>4 DEF StartServe
  <2>2. BuildMade'
    BY <2>1 DEF WholeInv, BuildMade, Built, Folder, Live
  <2>3. BuildAlone'
    BY <1>4 DEF StartServe, WholeInv, BuildAlone, Live
  <2>4. NoneStopped'
    BY <1>3, <1>4 DEF StartServe, NoneStopped
  <2> QED
    BY <1>2, <2>1, <2>2, <2>3, <2>4, DownWhole
<1>5. CASE CheckNew
  <2>1. UNCHANGED <<db, dir, madeDir, torn, state, put, login, delete>> /\ serve' \in {"seed", "open"}
    BY <1>5 DEF CheckNew
  <2>2. BuildMade'
    <3>1. CASE db = NoDb
      BY <1>5, <3>1, BuildStarts DEF CheckNew
    <3>2. CASE db # NoDb
      BY <1>5, <3>2 DEF CheckNew, WholeInv, BuildMade, Built, Folder, Live
    <3> QED
      BY <3>1, <3>2
  <2>3. BuildAlone' /\ NoneStopped'
    BY <1>3, <2>1 DEF WholeInv, BuildAlone, NoneStopped, KeepsInv, DatabasesFit
  <2> QED
    BY <1>2, <2>1, <2>2, <2>3, DownWhole
<1>6. CASE Seeded
  <2>1. NoBuild /\ serve' = "open" /\ UNCHANGED <<dir, state, put, login, delete>> /\ Place
    BY <1>6 DEF Seeded
  <2>2. BuildMade'
    BY <2>1, BuildStarts
  <2>3. BuildAlone' /\ NoneStopped'
    BY <1>3, <2>1 DEF WholeInv, BuildAlone, NoneStopped, KeepsInv, DatabasesFit
  <2>4. Built = made /\ Folder = dir
    BY <1>6 DEF Seeded, KeepsInv, DatabasesFit, Built, Folder, Live
  <2>5. ~torn' => Sound(db', dir')
    BY <1>2, <2>1, <2>4 DEF Place, WholeInv, BuildMade, Finished, Sound
  <2> QED
    BY <1>2, <2>2, <2>3, <2>5, DownWhole
<1>7. CASE OpenDatabase
  <2>1. UNCHANGED <<dir, madeDir, build, builder, then, state, put, login, delete, torn>>
        /\ serve = "open" /\ serve' = "recover"
    BY <1>7 DEF OpenDatabase
  <2>2. build = "none"
    BY <1>1, <2>1 DEF KeepsInv, DatabasesFit, Open
  <2>3. BuildMade'
    BY <2>1, <2>2 DEF WholeInv, BuildMade, Live, Seeding, Recorded
  <2>4. BuildAlone' /\ NoneStopped'
    BY <1>3, <2>1 DEF WholeInv, BuildAlone, NoneStopped, KeepsInv, DatabasesFit
  <2>5. ~torn' => Sound(db', dir')
    <3>1. Empty.demo = "none"
      BY DEF Empty, Database
    <3> QED
      BY <1>2, <1>7, <2>1, <3>1 DEF OpenDatabase, Sound
  <2> QED
    BY <1>2, <2>3, <2>4, <2>5, DownWhole
<1>8. CASE Recover
  <2>1. UNCHANGED <<db, dir, made, state, put, login, delete, torn>> /\ serve = "recover"
        /\ build = "none"
    BY <1>8 DEF Recover
  <2>2. BuildMade' /\ BuildAlone' /\ NoneStopped'
    <3>1. CASE db.record
      BY <1>3, <1>8, <2>1, <3>1
      DEF Recover, WipeStopped, WholeInv, BuildMade, BuildAlone, NoneStopped, Built, Live, Seeding,
          Recorded, KeepsInv, DatabasesFit
    <3>2. CASE ~db.record
      BY <1>3, <1>8, <2>1, <3>2
      DEF Recover, WholeInv, BuildMade, BuildAlone, NoneStopped, Live, Seeding,
          Recorded, KeepsInv, DatabasesFit
    <3> QED
      BY <3>1, <3>2
  <2> QED
    BY <1>2, <2>1, <2>2, DownWhole
<1>9. CASE Recovered
  <2>1. UNCHANGED <<db, dir, put, login, delete, torn>> /\ serve = "recover" /\ NoBuild
        /\ (serve' = "up" => ~db.record) /\ (state' = state \/ state' = "failed")
    BY <1>9 DEF Recovered
  <2>2. BuildMade'
    BY <2>1, BuildStarts
  <2>3. BuildAlone' /\ NoneStopped'
    BY <1>3, <2>1 DEF WholeInv, BuildAlone, NoneStopped, NoBuild, KeepsInv, DatabasesFit
  <2> QED
    BY <1>2, <2>1, <2>2, <2>3, DownWhole
<1>10. CASE Shutdown
  <2>1. UNCHANGED <<db, dir, made, madeDir, build, builder, then, state, put, login, delete, torn>>
        /\ serve' = "stop"
    BY <1>10 DEF Shutdown
  <2>2. BuildMade'
    BY <2>1 DEF WholeInv, BuildMade, Built, Folder, Live
  <2>3. BuildAlone' /\ NoneStopped'
    BY <1>3, <2>1 DEF WholeInv, BuildAlone, NoneStopped
  <2> QED
    BY <1>2, <2>1, <2>2, <2>3, DownWhole
<1>11. CASE Stopped
  <2>1. UNCHANGED <<db, dir, made, madeDir, build, builder, then, put, login, delete, torn>>
        /\ serve = "stop" /\ serve' = "down" /\ state' = "idle"
    BY <1>11 DEF Stopped
  <2>2. BuildMade'
    BY <2>1 DEF WholeInv, BuildMade, Built, Folder, Live
  <2>3. BuildAlone' /\ NoneStopped'
    BY <1>3, <2>1 DEF WholeInv, BuildAlone, NoneStopped, KeepsInv, DatabasesFit
  <2> QED
    BY <1>2, <2>1, <2>2, <2>3, DownWhole
<1>12. CASE KillServe
  <2>1. UNCHANGED <<db, dir, torn>> /\ serve' = "down" /\ state' = "idle" /\ NoBuild
        /\ put' = "none" /\ login' = "none" /\ delete' = "none"
    BY <1>12 DEF KillServe
  <2>2. BuildMade'
    BY <2>1, BuildStarts
  <2>3. BuildAlone' /\ NoneStopped'
    BY <1>3, <2>1 DEF BuildAlone, NoneStopped
  <2> QED
    BY <1>2, <2>1, <2>2, <2>3, DownWhole
<1> QED
  BY <1>4, <1>5, <1>6, <1>7, <1>8, <1>9, <1>10, <1>11, <1>12

(* The build of a running server, and what requests do meanwhile.          *)
LEMMA RequestWhole ==
  ASSUME KeepsInv, KeepsInv', WholeInv,
         ~DeletesRace, ~RecordFails, MaxFaults <= 1,
         \/ MarkBuild \/ StartTask \/ DropPut \/ TaskEnds \/ TaskPanics \/ AbortTask
         \/ CheckLogin \/ OpenSession \/ CheckDelete \/ DeleteAccount \/ DeleteFolder
  PROVE  WholeInv'
<1> USE DEF active, prepared, backups, builds, requests, bounds, RequestFrame, ServeFrame, BuildFrame
<1>0. MaxFaults \in Nat /\ faults \in Nat
  BY DemoAssumption DEF WholeInv, NoneStopped
<1>1. /\ UNCHANGED <<old, oldDir, reset, made, madeDir>>
      /\ reset = "down" /\ db \in Databases /\ serve \in Open
  BY DEF MarkBuild, StartTask, DropPut, TaskEnds, TaskPanics, AbortTask, CheckLogin, OpenSession,
         CheckDelete, DeleteAccount, DeleteFolder, KeepsInv, DatabasesFit, Open
<1>2. oldDir' = "none" /\ reset' = "down" /\ (~torn => Sound(db, dir))
  BY <1>1, DownFacts
<1>3. put # "none" \/ login # "none" \/ delete # "none" => serve = "up"
  BY DEF KeepsInv, DatabasesFit
<1>4. build # "none" => Live
  BY <1>1 DEF KeepsInv, DatabasesFit, Open
<1>5. db # NoDb
  BY <1>1, RowWrites
<1>6. CASE MarkBuild
  <2>1. UNCHANGED <<db, dir, torn, build, builder, then, login, delete, serve, faults>>
        /\ state # "building" /\ serve = "up"
    BY <1>6 DEF MarkBuild, Starts
  <2>2. BuildMade'
    BY <1>1, <2>1 DEF WholeInv, BuildMade, Built, Folder, Live
  <2>3. build = "none"
    BY <1>4, <2>1 DEF WholeInv, BuildAlone
  <2>4. BuildAlone'
    BY <1>6, <2>1, <2>3 DEF MarkBuild, WholeInv, BuildAlone
  <2>5. NoneStopped'
    BY <2>1 DEF WholeInv, NoneStopped, Live
  <2> QED
    BY <1>2, <2>1, <2>2, <2>4, <2>5, DownWhole
<1>7. CASE StartTask
  <2>1. UNCHANGED <<dir, torn, login, delete, serve>> /\ put = "marked" /\ put' = "none"
    BY <1>7 DEF StartTask
  <2>2. state = "building" /\ build = "none" /\ login = "none" /\ delete = "none" /\ serve = "up"
    BY <1>3, <2>1 DEF WholeInv, BuildAlone
  <2>3. ~db.record
    BY <2>2 DEF WholeInv, NoneStopped
  <2>4. CASE db' = [db EXCEPT !.session = FALSE] /\ Begins("task") /\ UNCHANGED <<state, bounds>>
    <3>1. db'.demo = db.demo /\ db'.record = db.record /\ db'.session = FALSE
      BY <1>1, <2>4, RowWrites
    <3>2. BuildMade'
      BY <2>4, BuildStarts
    <3>3. BuildAlone' /\ NoneStopped'
      BY <1>0, <2>1, <2>2, <2>3, <2>4, <3>1 DEF BuildAlone, NoneStopped, Begins
    <3>4. ~torn' => Sound(db', dir')
      BY <1>2, <1>5, <2>1, <3>1 DEF Sound
    <3> QED
      BY <1>2, <3>2, <3>3, <3>4, DownWhole
  <2>5. CASE Fault /\ state' = "idle" /\ UNCHANGED <<db, builds>>
    <3>1. BuildMade'
      BY <1>1, <2>1, <2>5 DEF WholeInv, BuildMade, Built, Folder, Live
    <3>2. faults' \in Nat
      BY <1>0, <2>5 DEF Fault
    <3>3. BuildAlone' /\ NoneStopped'
      BY <2>1, <2>2, <2>3, <2>5, <3>2 DEF BuildAlone, NoneStopped
    <3> QED
      BY <1>2, <2>1, <2>5, <3>1, <3>3, DownWhole
  <2> QED
    BY <1>7, <2>4, <2>5 DEF StartTask
<1>8. CASE DropPut
  <2>1. UNCHANGED <<db, dir, torn, build, builder, then, state, login, delete, serve, faults>>
        /\ put' = "none"
    BY <1>8 DEF DropPut
  <2>2. BuildMade'
    BY <1>1, <2>1 DEF WholeInv, BuildMade, Built, Folder, Live
  <2>3. BuildAlone' /\ NoneStopped'
    BY <2>1 DEF WholeInv, BuildAlone, NoneStopped, Live
  <2> QED
    BY <1>2, <2>1, <2>2, <2>3, DownWhole
<1>9. CASE TaskEnds
  <2>1. /\ UNCHANGED <<db, dir, put, login, delete, serve, faults>>
        /\ Live /\ build \in {"done", "removed"}
        /\ NoBuild /\ state' # "building" /\ torn' = (torn /\ build # "done")
    BY <1>9 DEF TaskEnds, LeaveBuilding
  <2>2. BuildMade'
    BY <2>1, BuildStarts
  <2>3. build = "done" => Finished(db, dir)
    BY <2>1 DEF WholeInv, BuildMade, Built, Folder, Live
  <2>4. put # "marked" /\ (delete = "folder" => db.demo = "none")
    BY <2>1 DEF WholeInv, BuildAlone
  <2>5. BuildAlone'
    BY <2>1, <2>4 DEF BuildAlone, NoBuild
  <2>6. NoneStopped'
    BY <2>1, <2>3 DEF WholeInv, NoneStopped, NoBuild, Finished
  <2>7. ~torn' => Sound(db', dir')
    <3>1. CASE torn /\ build = "done"
      BY <2>1, <2>3, <3>1 DEF Sound, Finished
    <3>2. CASE ~(torn /\ build = "done")
      BY <1>2, <2>1, <3>2
    <3> QED
      BY <3>1, <3>2
  <2> QED
    BY <1>2, <2>2, <2>5, <2>6, <2>7, DownWhole
<1>10. CASE TaskPanics \/ AbortTask
  <2>1. /\ UNCHANGED <<db, dir, torn, state, put, login, delete, serve>>
        /\ builder = "task" /\ build \notin {"done", "removed"} /\ builder' = "watcher"
        /\ then' \in {"unrecord", "removed"} /\ build' \in {"wipe", "removed"}
        /\ build' = "wipe" => db.record \/ build # "record"
        /\ faults' \in Nat
        /\ serve = "up" => faults' # 0 /\ then' = "unrecord" /\ build' = "wipe"
    BY <1>0, <1>10 DEF TaskPanics, AbortTask, Fault
  <2>2. Live /\ Live' /\ build # "none" /\ Built' = db'
    BY <2>1 DEF Live, WholeInv, BuildMade, Built
  <2>3. db.record \/ build = "record"
    BY <2>1, <2>2 DEF WholeInv, BuildMade, Built
  <2>4. BuildMade'
    BY <2>1, <2>2, <2>3 DEF BuildMade, Seeding, Recorded
  <2>5. BuildAlone'
    BY <2>1, <2>2 DEF WholeInv, BuildAlone
  <2>6. NoneStopped'
    BY <2>1 DEF NoneStopped
  <2> QED
    BY <1>2, <2>1, <2>4, <2>5, <2>6, DownWhole
<1>11. CASE CheckLogin \/ CheckDelete
  <2>1. UNCHANGED <<db, dir, torn, build, builder, then, state, put, serve, faults>>
        /\ state # "building" /\ (delete' = "folder" => delete = "folder")
    BY <1>11 DEF CheckLogin, CheckDelete
  <2>2. BuildMade'
    BY <1>1, <2>1 DEF WholeInv, BuildMade, Built, Folder, Live
  <2>3. BuildAlone' /\ NoneStopped'
    BY <2>1 DEF WholeInv, BuildAlone, NoneStopped, Live
  <2> QED
    BY <1>2, <2>1, <2>2, <2>3, DownWhole
<1>12. CASE OpenSession \/ DeleteAccount \/ DeleteFolder
  <2>1. UNCHANGED <<torn, build, builder, then, state, put, serve, faults>>
        /\ (login # "none" \/ delete # "none")
    BY <1>12 DEF OpenSession, DeleteAccount, DeleteFolder
  <2>2. state # "building" /\ build = "none"
    BY <1>3, <1>4, <2>1 DEF WholeInv, BuildAlone
  <2>3. BuildMade'
    BY <2>1, <2>2 DEF WholeInv, BuildMade, Live, Seeding, Recorded
  <2>4. /\ db'.record = db.record
        /\ db'.demo = "none" \/ (db'.demo = db.demo /\ dir' = dir)
        /\ delete' = "folder" => db'.demo = "none"
    <3>1. CASE OpenSession
      <4>1. db' \in Databases /\ db'.demo = db.demo /\ db'.record = db.record
        BY <1>1, <3>1 DEF OpenSession, Databases
      <4> QED
        BY <3>1, <4>1 DEF OpenSession, WholeInv, BuildAlone
    <3>2. CASE DeleteAccount
      BY <1>1, <3>2, RowWrites DEF DeleteAccount
    <3>3. CASE DeleteFolder
      BY <3>3 DEF DeleteFolder, WholeInv, BuildAlone
    <3> QED
      BY <1>12, <3>1, <3>2, <3>3
  <2>5. BuildAlone' /\ NoneStopped'
    BY <2>1, <2>2, <2>4 DEF WholeInv, BuildAlone, NoneStopped
  <2>6. ~torn' => Sound(db', dir')
    BY <1>2, <1>5, <2>1, <2>4 DEF Sound
  <2> QED
    BY <1>2, <2>3, <2>5, <2>6, DownWhole
<1> QED
  BY <1>6, <1>7, <1>8, <1>9, <1>10, <1>11, <1>12

(* Rows of other accounts say nothing about the Demo Account.              *)
LEMMA RowsWhole ==
  ASSUME KeepsInv, WholeInv, ~CommandsRace, NEW r \in Rows, Serve(r) \/ CommandWrite(r)
  PROVE  WholeInv'
<1> USE DEF prepared, backups, builds, requests, bounds
<1>1. /\ UNCHANGED <<dir, made, madeDir, old, oldDir, serve, reset, build, builder, then, state, put,
                     login, delete, torn, faults>>
      /\ reset = "down"
  BY DEF Serve, StoreRow, CommandWrite, KeepsInv, DatabasesFit, Open
<1>2. oldDir' = "none" /\ reset' = "down" /\ (~torn => Sound(db, dir))
  BY <1>1, DownFacts
<1>3. build # "none" /\ Live => db # NoDb
  BY DEF KeepsInv, DatabasesFit
<1>4. serve = "up" => db # NoDb
  BY DEF KeepsInv, DatabasesFit, Open
<1>5. delete # "none" => db # NoDb
  BY DEF KeepsInv, DatabasesFit, Open
<1>6. CASE db # NoDb
  <2>1. db \in Databases /\ db' = [db EXCEPT !.others = @ \cup {r}]
    BY <1>6 DEF Serve, StoreRow, CommandWrite, KeepsInv, DatabasesFit
  <2>2. /\ db'.demo = db.demo /\ db'.record = db.record /\ db'.session = db.session
        /\ db' \in Databases
    BY <2>1 DEF Databases
  <2>3. Live' = Live /\ Folder' = Folder
    BY <1>1 DEF Live, Folder
  <2>4. Built'.demo = Built.demo /\ Built'.record = Built.record /\ (Live => Built' # NoDb)
        /\ (~Live => Built' = Built)
    BY <1>1, <2>2, <2>3, RowWrites DEF Built
  <2>5. BuildMade'
    BY <1>1, <2>3, <2>4 DEF WholeInv, BuildMade, Finished
  <2>6. BuildAlone' /\ NoneStopped'
    BY <1>1, <2>2, <2>3 DEF WholeInv, BuildAlone, NoneStopped
  <2>7. ~torn' => Sound(db', dir')
    BY <1>1, <1>2, <1>6, <2>2 DEF Sound
  <2> QED
    BY <1>2, <2>5, <2>6, <2>7, DownWhole
<1>7. CASE db = NoDb
  <2>1. db' = [Empty EXCEPT !.others = {r}] /\ serve # "seed"
    BY <1>4, <1>7 DEF Serve, CommandWrite
  <2>2. db'.demo = "none"
    BY <2>1 DEF Empty, Database
  <2>3. build = "none"
    BY <1>1, <1>3, <1>7, <2>1 DEF KeepsInv, DatabasesFit
  <2>4. BuildMade'
    BY <1>1, <2>3 DEF WholeInv, BuildMade, Live, Seeding, Recorded
  <2>5. BuildAlone' /\ NoneStopped'
    BY <1>1, <1>4, <1>7, <2>2, <2>3 DEF WholeInv, BuildAlone, NoneStopped
  <2> QED
    BY <1>2, <2>2, <2>4, <2>5, DownWhole DEF Sound
<1> QED
  BY <1>6, <1>7

(* While a reset runs, no server does, and only the reset builds.          *)
LEMMA ResetAlone ==
  ASSUME KeepsInv, WholeInv, reset # "down"
  PROVE  /\ serve = "down" /\ put = "none" /\ login = "none" /\ delete = "none"
         /\ reset # "build" => build = "none"
BY DEF KeepsInv, DatabasesFit, Open

(* What its steps leave of the others' invariants.                         *)
LEMMA ResetFrames ==
  ASSUME KeepsInv, WholeInv, reset # "down" \/ LockFree, UNCHANGED <<serve, state, put, login, delete>>,
         faults' \in Nat
  PROVE  BuildAlone' /\ NoneStopped'
<1>1. serve = "down" /\ put = "none" /\ login = "none" /\ delete = "none"
  BY ResetAlone DEF LockFree, KeepsInv, DatabasesFit
<1> QED
  BY <1>1 DEF WholeInv, BuildAlone, NoneStopped

LEMMA NoBuildStays ==
  ASSUME WholeInv, build = "none", UNCHANGED <<build, builder, then>> PROVE BuildMade'
BY DEF WholeInv, BuildMade, Live, Seeding, Recorded

(* The reset up to its swap.                                               *)
LEMMA ResetWhole ==
  ASSUME KeepsInv, KeepsInv', ReadyInv, WholeInv, ~FreshResets,
         StartReset \/ Snapshot \/ ResetBuilt \/ Verify \/ GiveUp
  PROVE  WholeInv'
<1> USE DEF active, prepared, backups, builds, requests, bounds, ResetFrame
<1>0. MaxFaults \in Nat /\ faults \in Nat
  BY DemoAssumption DEF WholeInv, NoneStopped
<1>1. /\ UNCHANGED <<db, dir, old, oldDir, serve, state, put, login, delete, torn>>
      /\ faults' \in Nat /\ (reset # "down" \/ LockFree)
  <2>1. CASE StartReset
    BY <1>0, <2>1 DEF StartReset, Starts
  <2>2. CASE Snapshot \/ ResetBuilt \/ Verify
    BY <1>0, <2>2 DEF Snapshot, ResetBuilt, Verify
  <2>3. CASE GiveUp
    BY <1>0, <2>3 DEF GiveUp, Fault
  <2> QED
    BY <2>1, <2>2, <2>3
<1>2. BuildAlone' /\ NoneStopped'
  BY <1>1, ResetFrames
<1>3. reset \in {"down", "snapshot", "build", "verify"}
  BY DEF StartReset, Snapshot, ResetBuilt, Verify, GiveUp, LockFree
<1>4. oldDir = "none" /\ (~torn => Sound(db, dir))
  BY <1>3 DEF WholeInv, SwapWhole, AtRest, Swapping
<1>5. reset' \in {"down", "snapshot", "build", "verify", "back up database"}
  BY DEF StartReset, Snapshot, ResetBuilt, Verify, GiveUp
<1>6. AtRest'
  BY <1>1, <1>4, <1>5 DEF AtRest
<1>7. (reset' \in {"verify", "back up database"} => Finished(made', madeDir')) => SwapWhole'
  BY <1>1, <1>4, <1>5 DEF SwapWhole, Swapping
<1>8. CASE StartReset
  <2>1. build = "none" /\ UNCHANGED <<build, builder, then>> /\ reset' = "snapshot"
    BY <1>8 DEF StartReset, LockFree, KeepsInv, DatabasesFit, Open
  <2> QED
    BY <1>2, <1>6, <1>7, <2>1, NoBuildStays DEF WholeInv
<1>9. CASE Snapshot
  <2>1. BuildMade' /\ reset' = "build"
    BY <1>9, BuildStarts DEF Snapshot
  <2> QED
    BY <1>2, <1>6, <1>7, <2>1 DEF WholeInv
<1>10. CASE ResetBuilt
  <2>1. BuildMade' /\ UNCHANGED <<made, madeDir>>
    BY <1>10, BuildStarts DEF ResetBuilt
  <2>2. Built = made /\ Folder = madeDir
    BY <1>10 DEF ResetBuilt, KeepsInv, DatabasesFit, Built, Folder, Live
  <2>3. Finished(made, madeDir)
    BY <1>10, <2>2 DEF ResetBuilt, WholeInv, BuildMade
  <2> QED
    BY <1>2, <1>6, <1>7, <2>1, <2>3 DEF WholeInv
<1>11. CASE Verify
  <2>1. UNCHANGED <<made, madeDir, build, builder, then>> /\ reset = "verify"
    BY <1>11 DEF Verify
  <2>2. Finished(made, madeDir)
    BY <2>1 DEF WholeInv, SwapWhole
  <2>3. BuildMade'
    BY <2>1, ResetAlone, NoBuildStays
  <2> QED
    BY <1>2, <1>6, <1>7, <2>1, <2>2, <2>3 DEF WholeInv
<1>12. CASE GiveUp
  <2>1. BuildMade' /\ reset' = "down"
    BY <1>12, BuildStarts DEF GiveUp
  <2> QED
    BY <1>2, <1>6, <1>7, <2>1 DEF WholeInv
<1> QED
  BY <1>8, <1>9, <1>10, <1>11, <1>12

(* The swap, its rollback and a kill: what was whole is put back, or the   *)
(* reset says that it could not.                                           *)
LEMMA SwapStaysWhole ==
  ASSUME KeepsInv, KeepsInv', ReadyInv, WholeInv,
         \/ BackUpDatabase \/ BackUpFolder \/ InstallDatabase \/ InstallFolder \/ CleanUp
         \/ MarkReady \/ RenameFails \/ RollBackFolder \/ RollBackDatabase \/ GiveBack
         \/ KillReset
  PROVE  WholeInv'
<1> USE DEF active, prepared, backups, builds, requests, bounds, ResetFrame, SwapFrame, RollFrame
<1>0. MaxFaults \in Nat /\ faults \in Nat
  BY DemoAssumption DEF WholeInv, NoneStopped
<1>1. /\ UNCHANGED <<serve, state, put, login, delete>>
      /\ reset # "down"
      /\ NoBuild \/ (reset # "build" /\ UNCHANGED <<build, builder, then>>)
  BY DEF BackUpDatabase, BackUpFolder, InstallDatabase, InstallFolder, CleanUp, MarkReady,
         RenameFails, RollBackFolder, RollBackDatabase, GiveBack, KillReset
<1>2. faults' \in Nat
  <2>1. CASE MarkReady
    BY <1>0, <2>1 DEF MarkReady, Fault
  <2>2. CASE \/ BackUpDatabase \/ BackUpFolder \/ InstallDatabase \/ InstallFolder \/ CleanUp
             \/ RenameFails \/ RollBackFolder \/ RollBackDatabase \/ GiveBack \/ KillReset
    BY <1>0, <2>2
    DEF BackUpDatabase, BackUpFolder, InstallDatabase, InstallFolder, CleanUp,
        RenameFails, RollBackFolder, RollBackDatabase, GiveBack, KillReset, RenameFault, Killed
  <2> QED
    BY <2>1, <2>2
<1>3. BuildAlone' /\ NoneStopped'
  BY <1>1, <1>2, ResetFrames
<1>4. BuildMade'
  BY <1>1, ResetAlone, NoBuildStays, BuildStarts
<1>5. SwapWhole' /\ AtRest' => WholeInv'
  BY <1>3, <1>4 DEF WholeInv
<1>6. SwapWhole /\ AtRest
  BY DEF WholeInv
<1> HIDE DEF active, prepared, backups, builds, requests, bounds, ResetFrame, SwapFrame, RollFrame
<1>8. \A d, f : Finished(d, f) => Sound(d, f)
  BY DEF Finished, Sound
<1>9. CASE BackUpDatabase
  <2>1. /\ reset = "back up database" /\ reset' = "back up folder" /\ old' = db /\ db' = NoDb
        /\ UNCHANGED <<dir, made, madeDir, oldDir, torn>>
    BY <1>9 DEF BackUpDatabase, SwapFrame, prepared
  <2> QED
    BY <1>5, <1>6, <2>1 DEF SwapWhole, AtRest, Sound, Swapping
<1>10. CASE BackUpFolder
  <2>1. /\ reset = "back up folder" /\ reset' = "install database" /\ oldDir' = dir /\ dir' = "none"
        /\ UNCHANGED <<db, made, madeDir, old, torn>>
    BY <1>10 DEF BackUpFolder, SwapFrame, prepared
  <2> QED
    BY <1>5, <1>6, <2>1 DEF SwapWhole, AtRest, Sound, Swapping
<1>11. CASE InstallDatabase
  <2>1. /\ reset = "install database" /\ reset' = "install folder" /\ db' = made
        /\ UNCHANGED <<dir, madeDir, old, oldDir, torn>>
    BY <1>11 DEF InstallDatabase, SwapFrame
  <2> QED
    BY <1>5, <1>6, <2>1 DEF SwapWhole, AtRest, Swapping
<1>12. CASE InstallFolder
  <2>1. /\ reset = "install folder" /\ reset' = "clean up" /\ dir' = madeDir
        /\ UNCHANGED <<db, made, old, oldDir, torn>>
    BY <1>12 DEF InstallFolder, SwapFrame
  <2> QED
    BY <1>5, <1>6, <1>8, <2>1 DEF SwapWhole, AtRest, Swapping
<1>13. CASE CleanUp
  <2>1. /\ reset = "clean up" /\ reset' = "mark" /\ oldDir' = "none"
        /\ UNCHANGED <<db, dir, torn>>
    BY <1>13 DEF CleanUp, SwapFrame, active
  <2> QED
    BY <1>5, <1>6, <1>8, <2>1 DEF SwapWhole, AtRest, Swapping
<1>14. CASE MarkReady
  <2>1. reset = "mark" /\ reset' = "down" /\ UNCHANGED <<db, dir, old, oldDir>>
    BY <1>14 DEF MarkReady, active, backups
  <2> QED
    BY <1>5, <1>6, <1>8, <2>1 DEF SwapWhole, AtRest, Swapping
<1>15. CASE RenameFails
  <2>1. /\ reset \in {"back up database", "back up folder", "install database", "install folder"}
        /\ reset' = "roll back folder" /\ UNCHANGED <<db, dir, made, madeDir, old, oldDir, torn>>
    BY <1>15 DEF RenameFails, active, prepared, backups
  <2>2. ~torn => Before(IF oldDir = "none" THEN dir ELSE oldDir)
    <3>1. CASE reset = "back up database"
      <4>1. old = NoDb /\ made # NoDb /\ oldDir = "none"
        BY <1>6, <3>1 DEF KeepsInv, DatabasesFit, SwapWhole, Swapping
      <4> QED
        BY <1>6, <3>1, <4>1 DEF AtRest, Before, Installed
    <3>2. CASE reset # "back up database"
      <4>1. old # NoDb
        BY <2>1, <3>2 DEF ReadyInv
      <4> QED
        BY <1>6, <2>1, <3>2, <4>1 DEF SwapWhole, Before, Swapping
    <3> QED
      BY <3>1, <3>2
  <2>3. SwapWhole'
    BY <2>1, <2>2 DEF SwapWhole, Before, Installed, Swapping
  <2> QED
    BY <1>5, <2>1, <2>3 DEF AtRest
<1>16. CASE RollBackFolder
  <2>1. /\ reset = "roll back folder" /\ reset' = "roll back database"
        /\ UNCHANGED <<db, made, madeDir, old, torn>>
        /\ \/ dir' = IF oldDir = "none" THEN dir ELSE oldDir
           \/ oldDir' # "none"
    BY <1>16 DEF RollBackFolder, RollFrame, prepared
  <2>2. ~torn => oldDir' # "none" \/ Before(dir)'
    BY <1>6, <2>1 DEF SwapWhole, Before, Installed
  <2>3. SwapWhole'
    BY <2>1, <2>2 DEF SwapWhole, Swapping
  <2> QED
    BY <1>5, <2>1, <2>3 DEF AtRest
<1>17. CASE RollBackDatabase
  <2>1. /\ reset = "roll back database" /\ reset' = "give back"
        /\ UNCHANGED <<dir, oldDir, torn>>
        /\ \/ db' = IF old # NoDb \/ Installed THEN old ELSE db
           \/ old' # NoDb
    BY <1>17 DEF RollBackDatabase, RollFrame
  <2>2. ~torn => oldDir' # "none" \/ old' # NoDb \/ Sound(db', dir')
    BY <1>6, <2>1 DEF SwapWhole, Before
  <2>3. SwapWhole'
    BY <2>1, <2>2 DEF SwapWhole, Swapping
  <2> QED
    BY <1>5, <2>1, <2>3 DEF AtRest
<1>18. CASE GiveBack
  <2>1. /\ reset = "give back" /\ reset' = "down" /\ UNCHANGED <<db, dir>> /\ oldDir' = "none"
        /\ ~torn' => NothingInWork /\ ~torn
    BY <1>18 DEF GiveBack, KeepWork, active
  <2> QED
    BY <1>5, <1>6, <2>1 DEF SwapWhole, AtRest, NothingInWork, Swapping
<1>19. CASE KillReset
  <2>1. /\ reset' = "down" /\ UNCHANGED <<db, dir>> /\ oldDir' = "none"
        /\ torn' = (torn \/ HalfSwapped)
    BY <1>19 DEF KillReset, active
  <2>2. ASSUME ~torn, ~HalfSwapped PROVE Sound(db, dir)
    <3>1. reset # "install folder" /\ (reset = "clean up" \/ (old = NoDb /\ oldDir = "none"))
      BY <2>2 DEF HalfSwapped, NothingInWork
    <3>2. CASE reset \in {"roll back folder", "roll back database"}
      <4>1. made # NoDb /\ old = NoDb /\ oldDir = "none"
        BY <3>1, <3>2 DEF ReadyInv
      <4> QED
        BY <1>6, <2>2, <3>2, <4>1 DEF SwapWhole, Before, Installed
    <3>3. CASE reset = "give back"
      BY <1>6, <2>2, <3>1, <3>3 DEF SwapWhole
    <3> QED
      BY <1>6, <2>2, <3>1, <3>2, <3>3 DEF AtRest
  <2>3. ~torn' => Sound(db', dir')
    BY <2>1, <2>2
  <2> QED
    BY <1>3, <1>4, <2>1, <2>3, DownWhole
<1> QED
  BY <1>9, <1>10, <1>11, <1>12, <1>13, <1>14, <1>15, <1>16, <1>17, <1>18, <1>19

(* At most one step of a build fails, and not its first write; no command  *)
(* writes beside a build or a swap, no request checked before a build      *)
(* outlives its start, and reset-demo finds a database.                    *)
Undisturbed ==
  ~CommandsRace /\ ~FreshResets /\ ~DeletesRace /\ ~RecordFails /\ MaxFaults <= 1

LEMMA InitWhole == Init => WholeInv
BY DEF Init, WholeInv, BuildMade, BuildAlone, NoneStopped, SwapWhole, AtRest, Sound, Live,
       Seeding, Recorded, Swapping

LEMMA NextWhole ==
  ASSUME Undisturbed, KeepsInv, ReadyInv, WholeInv, [Next]_vars
  PROVE  KeepsInv' /\ ReadyInv' /\ WholeInv'
<1> USE DEF Undisturbed
<1>1. KeepsInv'
  BY NextKeeps
<1>2. CASE UNCHANGED vars
  <2> USE <1>2 DEF vars, active, prepared, backups, builds, requests, bounds
  <2>1. UNCHANGED <<db, dir, made, madeDir, old, oldDir, reset, torn, build, builder, then, serve,
                    state, put, login, delete, faults, ready>>
    OBVIOUS
  <2> HIDE <1>2 DEF vars, active, prepared, backups, builds, requests, bounds
  <2>2. BuildMade'
    BY <2>1 DEF WholeInv, BuildMade, Built, Folder, Live
  <2>3. BuildAlone' /\ NoneStopped'
    BY <2>1 DEF WholeInv, BuildAlone, NoneStopped, Live
  <2> QED
    BY <1>1, <2>1, <2>2, <2>3, FrameWhole DEF ReadyInv
<1>3. CASE Next
  <2>1. ReadyInv'
    BY <1>1, <1>3, ServeReady, ResetReady DEF Next
  <2>2. WholeInv'
    BY <1>1, <1>3, BuildKeepsWhole, FailureKeepsWhole, ServeWhole, RequestWhole, RowsWhole, ResetWhole,
       SwapStaysWhole
    DEF Next
  <2> QED
    BY <1>1, <2>1, <2>2
<1> QED
  BY <1>2, <1>3

(* As long as at most one step of a build fails, and nothing else writes   *)
(* into a database while it is built or replaced, what a running server    *)
(* shows of the Demo Account is whole, rows and files, after however many  *)
(* kills, restarts, resets and failed renames: a build that stopped is     *)
(* wiped before the first request, and a swap that failed is put back or   *)
(* says that it was not (server_api.rs, recover_stopped_demo_build;        *)
(* reset_demo.rs, replace_reset_state_with).                               *)
THEOREM ShownDemoIsWhole == Undisturbed /\ Spec => []DemoWhole
<1>1. Undisturbed /\ Spec => [](KeepsInv /\ ReadyInv /\ WholeInv)
  <2> SUFFICES ASSUME Undisturbed PROVE Spec => [](KeepsInv /\ ReadyInv /\ WholeInv)
    OBVIOUS
  <2>1. Init => KeepsInv /\ ReadyInv /\ WholeInv
    BY InitKeeps, InitWhole DEF Init, ReadyInv
  <2>2. KeepsInv /\ ReadyInv /\ WholeInv /\ [Next]_vars => (KeepsInv /\ ReadyInv /\ WholeInv)'
    BY NextWhole
  <2> QED
    BY <2>1, <2>2, PTL DEF Spec
<1>2. KeepsInv /\ WholeInv => DemoWhole
  <2> SUFFICES ASSUME KeepsInv, WholeInv, serve = "up", ~torn, db.demo # "none",
                      db.session \/ state # "building"
               PROVE  db.demo = "whole" /\ dir = "whole"
    BY DEF DemoWhole
  <2>1. reset = "down" /\ db # NoDb /\ (build # "none" => Live)
    BY DEF KeepsInv, DatabasesFit, Open
  <2>2. build = "none"
    BY <2>1 DEF WholeInv, BuildAlone
  <2>3. ~db.record
    BY <2>2 DEF WholeInv, NoneStopped
  <2> QED
    BY <2>1, <2>3 DEF WholeInv, AtRest, Sound
<1> QED
  BY <1>1, <1>2, PTL

================================================================================
