----------------------------- MODULE Staging_proofs -----------------------------
(***************************************************************************)
(* A staging folder never loses what a conversation file names, and a run  *)
(* that resumes makes what a single run would have made.                   *)
(*                                                                         *)
(* The invariant has three parts: what is on disk (DiskInv), what a writer *)
(* knows while the queue is drained (WritersInv), and what the media pass  *)
(* knows between two steps on one item (PassInv).  FreshInv adds what the  *)
(* run has settled so far.                                                 *)
(***************************************************************************)
EXTENDS Staging, TLAPS

(* A record can be followed, and only what shrank enough has a derivative. *)
Safe(o, r) == Recoverable(o, r) /\ (r.at = "derivative" => verdict[o] = "small")

DocSafe(d) ==
  conv[d] # NoFile =>
    /\ conv[d] \in [AttsOf[d] -> Records]
    /\ \A o \in AttsOf[d] : Safe(o, conv[d][o])

OriginalSafe(o) ==
  /\ orig[o] \in {"absent", "whole"}
  /\ o \in deriv => verdict[o] = "small"
  /\ note[o] # "none" => verdict[o] = "large"

DiskInv ==
  /\ DOMAIN conv = Docs /\ DOMAIN orig = Originals /\ DOMAIN note = Originals
  /\ \A d \in Docs : DocSafe(d)
  /\ \A o \in Originals : OriginalSafe(o)

(* All that a writer staged is whole, and so is the copy it is to rename.  *)
WriterSafe(w) ==
  LET r == work[w] IN
  /\ r.step # "gone" => phase = "drain"
  /\ r.step \in {"unit", "staging", "copying", "renaming"} => r.doc \in Docs
  /\ r.step \in {"staging", "copying", "renaming"} =>
       /\ r.todo \subseteq AttsOf[r.doc]
       /\ \A o \in AttsOf[r.doc] \ (r.todo \cup r.lost) : orig[o] = "whole"
  /\ r.step \in {"copying", "renaming"} => r.cur \in Originals
  /\ r.step = "renaming" => temp[TempName(w, r.cur)] # "partial"

WritersInv ==
  /\ DOMAIN work = Workers /\ DOMAIN temp = TempNames
  /\ \A n \in TempNames : temp[n] \in {"absent", "partial", "whole"}
  /\ queue \subseteq Docs
  /\ \A w \in Workers : WriterSafe(w)

(* What the media pass does next to an item suits the item.                *)
PassInv ==
  LET d == media.doc
      o == media.cur IN
  phase = "media" =>
    /\ media.step \in {"items"} => media.todo = {} \/ (d \in Docs /\ conv[d] # NoFile)
    /\ media.step = "items" => media.todo \subseteq AttsOf[d]
    /\ media.step \notin {"doc", "items"} =>
         d \in Docs /\ conv[d] # NoFile /\ o \in AttsOf[d] /\ media.todo \subseteq AttsOf[d]
    /\ media.step \in {"small", "patched"} => verdict[o] = "small" /\ orig[o] = "whole"
    /\ media.step \in {"committed", "cleaning"} => verdict[o] = "small" /\ o \in deriv
    /\ media.step \in {"large", "noted", "dropping"} => verdict[o] = "large" /\ orig[o] = "whole"
    /\ media.step \in {"noted", "dropping"} => note[o] # "none"

IInv == DiskInv /\ WritersInv /\ PassInv

(* Nothing is on disk, and nobody is at work.                              *)
LEMMA InitSafe == Init => IInv
BY StagingAssumption
   DEF Init, IInv, DiskInv, DocSafe, OriginalSafe, WritersInv, WriterSafe, PassInv,
       TempNames, NoTemps, TempName, Gone, Unit, Listing, Pass

(* The invariant says what NothingLost does.                               *)
LEMMA InvImplies == IInv => NothingLost
BY DEF IInv, DiskInv, DocSafe, Safe, NothingLost

(* Records can be followed while files only come, and while what is known  *)
(* of the documents' files does not get less.                              *)
LEMMA DocsStay ==
  ASSUME DiskInv, UNCHANGED <<verdict, conv>>, powerCut => powerCut',
         \A o \in Originals : orig[o] = "whole" => orig'[o] = "whole" \/ o \in deriv'
                                \/ (verdict[o] = "large" /\ (note'[o] # "none" \/ powerCut')),
         deriv \subseteq deriv',
         \A o \in Originals :
           note[o] # "none" => note'[o] # "none" \/ o \in deriv' \/ (verdict[o] = "large" /\ powerCut')
  PROVE  \A d \in Docs : DocSafe(d)'
BY StagingAssumption DEF DiskInv, DocSafe, Safe, Recoverable, NoteLost, Wanted, Docs

(* One document is written with records that can be followed.              *)
LEMMA OneDocument ==
  ASSUME DiskInv, UNCHANGED <<verdict, orig, deriv, note, powerCut>>, NEW d \in Docs,
         DOMAIN conv' = Docs, \A e \in Docs \ {d} : conv'[e] = conv[e],
         conv'[d] \in [AttsOf[d] -> Records],
         \A o \in AttsOf[d] : Safe(o, conv'[d][o])
  PROVE  DiskInv'
<1>1. \A o, r : Safe(o, r) <=> Safe(o, r)'
  BY DEF Safe, Recoverable, NoteLost, Wanted
<1>2. DocSafe(d)'
  BY <1>1 DEF DocSafe
<1>3. ASSUME NEW e \in Docs \ {d} PROVE DocSafe(e)'
  BY <1>1 DEF DiskInv, DocSafe
<1> QED
  BY <1>2, <1>3 DEF DiskInv, OriginalSafe

--------------------------------------------------------------------------------
(* The writers.                                                            *)

(* A writer's step keeps what does not depend on its own record.           *)
LEMMA WriterFrame ==
  ASSUME IInv, NEW w \in Workers, work[w].step # "gone", UNCHANGED phase,
         NEW r, work' = [work EXCEPT ![w] = r],
         DOMAIN temp' = TempNames,
         \A n \in TempNames : temp'[n] \in {"absent", "partial", "whole"},
         \A v \in Workers \ {w}, o \in Originals : temp'[TempName(v, o)] = temp[TempName(v, o)],
         \A o \in Originals : orig[o] = "whole" => orig'[o] = "whole",
         queue' \subseteq queue,
         WriterSafe(w)'
  PROVE  WritersInv' /\ PassInv'
<1>1. phase = "drain"
  BY DEF IInv, WritersInv, WriterSafe
<1>2. PassInv'
  BY <1>1 DEF PassInv
<1>3. ASSUME NEW v \in Workers, v # w  PROVE WriterSafe(v)'
  <2>1. WriterSafe(v) /\ work'[v] = work[v]
    BY <1>3 DEF IInv, WritersInv
  <2> QED
    BY <1>3, <2>1, StagingAssumption DEF WriterSafe
<1>4. DOMAIN work' = Workers /\ queue' \subseteq Docs
  BY DEF IInv, WritersInv
<1> QED
  BY <1>2, <1>3, <1>4 DEF WritersInv

(* The disk does not change.                                               *)
LEMMA DiskStays == ASSUME DiskInv, UNCHANGED <<verdict, disk, powerCut>> PROVE DiskInv'
BY DocsStay DEF DiskInv, OriginalSafe, disk

(* Steps that only look, or take a unit.                                   *)
LEMMA WriterTurns ==
  ASSUME IInv, NEW w \in Workers, CheckAbort(w) \/ Pop(w) \/ StartUnit(w)
  PROVE  IInv'
<1> USE DEF DrainFrame, Becomes, disk, bounds
<1> DEFINE Safely(r) == /\ r.step \notin {"copying", "renaming"}
                        /\ r.step \in {"unit", "staging"} => r.doc \in Docs
                        /\ r.step = "staging" => r.todo = AttsOf[r.doc]
                        /\ r.step # "gone" => phase = "drain"
<1>1. DiskInv /\ WritersInv /\ WriterSafe(w) /\ DOMAIN work = Workers
  BY DEF IInv, WritersInv
<1>2. DiskInv'
  BY <1>1, DiskStays DEF CheckAbort, Pop, StartUnit, Fail, FailThread
<1>3. \E r : work' = [work EXCEPT ![w] = r] /\ Safely(r)
  <2>1. CASE CheckAbort(w)
    BY <1>1, <2>1 DEF CheckAbort, WriterSafe, Gone, Unit
  <2>2. CASE Pop(w)
    BY <1>1, <2>2 DEF Pop, WritersInv, WriterSafe, Gone, Unit
  <2>3. CASE StartUnit(w)
    BY <1>1, <2>3 DEF StartUnit, WriterSafe, Fail, FailThread, Gone, Idle, Unit
  <2> QED
    BY <2>1, <2>2, <2>3
<1>4. PICK r : work' = [work EXCEPT ![w] = r] /\ Safely(r)
  BY <1>3
<1>5. work'[w] = r
  BY <1>1, <1>4
<1>6. WriterSafe(w)'
  BY <1>4, <1>5 DEF WriterSafe, CheckAbort, Pop, StartUnit
<1>7. work[w].step # "gone" /\ UNCHANGED <<temp, orig, phase>> /\ queue' \subseteq queue
  BY DEF CheckAbort, Pop, StartUnit
<1>8. DOMAIN temp' = TempNames /\ \A n \in TempNames : temp'[n] \in {"absent", "partial", "whole"}
  BY <1>1, <1>7 DEF WritersInv
<1>9. WritersInv' /\ PassInv'
  BY <1>4, <1>6, <1>7, <1>8, WriterFrame
<1> QED
  BY <1>2, <1>9 DEF IInv

(* Steps that change one temporary file of the writer, and not the disk.   *)
LEMMA TempSteps ==
  ASSUME IInv, NEW w \in Workers, work[w].step # "gone", UNCHANGED <<verdict, disk, phase, queue, media, powerCut>>,
         NEW r, work' = [work EXCEPT ![w] = r], NEW o \in Originals,
         NEW is \in {"absent", "partial", "whole"}, temp' = [temp EXCEPT ![TempName(w, o)] = is],
         WriterSafe(w)'
  PROVE  IInv'
<1>1. DiskInv'
  BY DiskStays DEF IInv
<1>2. TempName(w, o) \in TempNames /\ DOMAIN temp = TempNames
  BY DEF TempName, TempNames, IInv, WritersInv
<1>3. DOMAIN temp' = TempNames /\ \A n \in TempNames : temp'[n] \in {"absent", "partial", "whole"}
  BY <1>2 DEF IInv, WritersInv
<1>4. \A v \in Workers \ {w}, p \in Originals : temp'[TempName(v, p)] = temp[TempName(v, p)]
  BY <1>2 DEF TempName, TempNames
<1>5. WritersInv' /\ PassInv'
  BY <1>3, <1>4, WriterFrame DEF disk
<1> QED
  BY <1>1, <1>5 DEF IInv

(* A copy is begun, or the attachment is given up.                         *)
LEMMA StageSafe == ASSUME IInv, NEW w \in Workers, Stage(w) PROVE IInv'
<1> USE DEF DrainFrame, Becomes, bounds
<1>1. DiskInv /\ WritersInv /\ WriterSafe(w) /\ DOMAIN work = Workers /\ phase = "drain"
  BY DEF IInv, WritersInv, WriterSafe, Stage
<1>2. work[w].doc \in Docs /\ work[w].step = "staging"
      /\ UNCHANGED <<verdict, disk, phase, queue, media, powerCut, orig>>
  BY <1>1 DEF WriterSafe, Stage, disk
<1>3. ASSUME Fail(w), UNCHANGED temp PROVE IInv'
  <2>1. WriterSafe(w)' /\ work' = [work EXCEPT ![w] = Gone]
    BY <1>1, <1>3 DEF Fail, FailThread, WriterSafe, Gone, Unit
  <2> QED
    BY <1>1, <1>2, <1>3, <2>1, DiskStays, WriterFrame DEF WritersInv, IInv
<1>4. ASSUME NEW o \in work[w].todo, Miss(w, o), UNCHANGED temp PROVE IInv'
  <2> DEFINE r == Unit(work[w].doc, "staging", work[w].todo \ {o}, work[w].lost \cup {o}, NoOriginal)
  <2>1. work' = [work EXCEPT ![w] = r] /\ work'[w] = r
    BY <1>1, <1>4 DEF Miss, StagedOne
  <2>2. WriterSafe(w)'
    BY <1>1, <1>2, <2>1 DEF WriterSafe, Unit
  <2> QED
    BY <1>1, <1>2, <1>4, <2>1, <2>2, DiskStays, WriterFrame DEF WritersInv, IInv
<1>5. ASSUME NEW o \in work[w].todo, temp' = [temp EXCEPT ![TempName(w, o)] = "partial"],
             Becomes(w, Unit(work[w].doc, "copying", work[w].todo, work[w].lost, o))
      PROVE  IInv'
  <2> DEFINE r == Unit(work[w].doc, "copying", work[w].todo, work[w].lost, o)
  <2>1. work' = [work EXCEPT ![w] = r] /\ work'[w] = r
    BY <1>1, <1>5
  <2>2. o \in Originals
    BY <1>1, <1>2, <1>5, StagingAssumption DEF WriterSafe
  <2>3. WriterSafe(w)'
    BY <1>1, <1>2, <2>1, <2>2 DEF WriterSafe, Unit
  <2> QED
    BY <1>2, <1>5, <2>1, <2>2, <2>3, TempSteps
<1> QED
  BY <1>3, <1>4, <1>5 DEF Stage

(* The copy is complete, or the attachment is given up.                    *)
LEMMA CopySafe == ASSUME IInv, NEW w \in Workers, Copy(w) PROVE IInv'
<1> USE DEF DrainFrame, Becomes, bounds
<1> DEFINE o == work[w].cur
<1>1. DiskInv /\ WritersInv /\ WriterSafe(w) /\ DOMAIN work = Workers /\ phase = "drain"
  BY DEF IInv, WritersInv, WriterSafe, Copy
<1>2. work[w].doc \in Docs /\ work[w].step = "copying" /\ o \in Originals
      /\ UNCHANGED <<verdict, disk, phase, queue, media, powerCut>>
  BY <1>1 DEF WriterSafe, Copy, disk
<1>3. TempName(w, o) \in TempNames
  BY <1>2 DEF TempName, TempNames
<1>4. ASSUME temp' = [temp EXCEPT ![TempName(w, o)] = IF @ = "absent" THEN @ ELSE "whole"],
             Becomes(w, Unit(work[w].doc, "renaming", work[w].todo, work[w].lost, o))
      PROVE  IInv'
  <2> DEFINE r == Unit(work[w].doc, "renaming", work[w].todo, work[w].lost, o)
             is == IF temp[TempName(w, o)] = "absent" THEN "absent" ELSE "whole"
  <2>1. work' = [work EXCEPT ![w] = r] /\ work'[w] = r
    BY <1>1, <1>4
  <2>2. temp' = [temp EXCEPT ![TempName(w, o)] = is] /\ temp'[TempName(w, o)] = is
    BY <1>1, <1>3, <1>4 DEF WritersInv
  <2>3. WriterSafe(w)'
    BY <1>1, <1>2, <2>1, <2>2 DEF WriterSafe, Unit, disk
  <2>4. is \in {"absent", "partial", "whole"}
    OBVIOUS
  <2> HIDE DEF is, r
  <2> QED
    BY <1>2, <2>1, <2>2, <2>3, <2>4, TempSteps
<1>5. ASSUME temp' = [temp EXCEPT ![TempName(w, o)] = "absent"], Miss(w, o) PROVE IInv'
  <2> DEFINE r == Unit(work[w].doc, "staging", work[w].todo \ {o}, work[w].lost \cup {o}, NoOriginal)
  <2>1. work' = [work EXCEPT ![w] = r] /\ work'[w] = r
    BY <1>1, <1>5 DEF Miss, StagedOne
  <2>2. WriterSafe(w)'
    BY <1>1, <1>2, <2>1 DEF WriterSafe, Unit, disk
  <2> HIDE DEF r
  <2> QED
    BY <1>2, <1>5, <2>1, <2>2, TempSteps
<1> QED
  BY <1>4, <1>5 DEF Copy

(* A whole copy takes its place, or the attachment is given up.            *)
LEMMA RenameSafe == ASSUME IInv, NEW w \in Workers, Rename(w) PROVE IInv'
<1> USE DEF DrainFrame, Becomes, bounds
<1> DEFINE o == work[w].cur
           n == TempName(w, o)
<1>1. DiskInv /\ WritersInv /\ WriterSafe(w) /\ DOMAIN work = Workers /\ phase = "drain"
  BY DEF IInv, WritersInv, WriterSafe, Rename
<1>2. work[w].doc \in Docs /\ work[w].step = "renaming" /\ o \in Originals /\ temp[n] # "partial"
      /\ UNCHANGED <<verdict, conv, deriv, note, phase, queue, media, powerCut>>
  BY <1>1 DEF WriterSafe, Rename
<1>3. n \in TempNames /\ DOMAIN temp = TempNames /\ temp[n] \in {"absent", "whole"}
      /\ temp' = [temp EXCEPT ![n] = "absent"]
  BY <1>1, <1>2 DEF TempName, TempNames, WritersInv, Rename
<1>4. CASE UNCHANGED orig /\ Miss(w, o)
  <2> DEFINE r == Unit(work[w].doc, "staging", work[w].todo \ {o}, work[w].lost \cup {o}, NoOriginal)
  <2>1. work' = [work EXCEPT ![w] = r] /\ work'[w] = r /\ UNCHANGED orig
    BY <1>1, <1>4 DEF Miss, StagedOne
  <2>2. WriterSafe(w)'
    BY <1>1, <1>2, <2>1 DEF WriterSafe, Unit
  <2> HIDE DEF r
  <2> QED
    BY <1>2, <1>3, <2>1, <2>2, TempSteps DEF disk
<1>5. CASE /\ temp[n] = "whole" /\ orig' = [orig EXCEPT ![o] = temp[n]]
           /\ StagedOne(w, o, work[w].lost) \/ Miss(w, o)
  <2> PICK L \in {work[w].lost, work[w].lost \cup {o}} : StagedOne(w, o, L)
    BY <1>5 DEF Miss
  <2> DEFINE r == Unit(work[w].doc, "staging", work[w].todo \ {o}, L, NoOriginal)
  <2>1. work' = [work EXCEPT ![w] = r] /\ work'[w] = r /\ orig' = [orig EXCEPT ![o] = "whole"]
    BY <1>1, <1>5 DEF StagedOne
  <2>2. DOMAIN orig' = Originals
        /\ \A p \in Originals : orig'[p] = IF p = o THEN "whole" ELSE orig[p]
    BY <1>1, <1>2, <2>1 DEF DiskInv
  <2>3. WriterSafe(w)'
    BY <1>1, <1>2, <2>1, <2>2, StagingAssumption DEF WriterSafe, Unit
  <2>4. \A d \in Docs : DocSafe(d)'
    BY <1>1, <1>2, <2>2, DocsStay
  <2>5. DiskInv'
    BY <1>1, <1>2, <2>2, <2>4 DEF DiskInv, OriginalSafe
  <2>6. DOMAIN temp' = TempNames /\ \A m \in TempNames : temp'[m] \in {"absent", "partial", "whole"}
    BY <1>1, <1>3 DEF WritersInv
  <2>7. \A v \in Workers \ {w}, p \in Originals : temp'[TempName(v, p)] = temp[TempName(v, p)]
    BY <1>3 DEF TempName, TempNames
  <2> HIDE DEF r
  <2>8. WritersInv' /\ PassInv'
    BY <1>2, <2>1, <2>2, <2>3, <2>6, <2>7, WriterFrame
  <2> QED
    BY <2>5, <2>8 DEF IInv
<1> QED
  BY <1>3, <1>4, <1>5 DEF Rename

(* The conversation file vouches for files that are all there.             *)
LEMMA WriteSafe == ASSUME IInv, NEW w \in Workers, WriteConversation(w) PROVE IInv'
<1> USE DEF DrainFrame, Becomes, bounds
<1> DEFINE d == work[w].doc
<1>1. DiskInv /\ WritersInv /\ WriterSafe(w) /\ DOMAIN work = Workers /\ phase = "drain"
  BY DEF IInv, WritersInv, WriterSafe, WriteConversation
<1>2. d \in Docs /\ work[w].step = "staging" /\ work[w].todo = {}
      /\ UNCHANGED <<verdict, orig, deriv, note, temp, phase, queue, media, powerCut>>
  BY <1>1 DEF WriterSafe, WriteConversation
<1>3. PICK r \in {Idle, Gone} : work' = [work EXCEPT ![w] = r]
  BY DEF WriteConversation, Fail, FailThread
<1>4. WriterSafe(w)'
  <2>1. work'[w] = r
    BY <1>1, <1>3
  <2> QED
    BY <1>1, <1>2, <1>3, <2>1 DEF WriterSafe, Idle, Gone, Unit
<1>5. WritersInv' /\ PassInv'
  BY <1>1, <1>2, <1>3, <1>4, WriterFrame DEF WritersInv
<1>6. CASE UNCHANGED conv
  BY <1>1, <1>2, <1>5, <1>6, DiskStays DEF disk, IInv
<1>7. CASE conv' = [conv EXCEPT ![d] = StagedDoc(d, work[w].lost)]
  <2>1. DOMAIN conv' = Docs /\ conv'[d] = StagedDoc(d, work[w].lost)
        /\ \A e \in Docs \ {d} : conv'[e] = conv[e]
    BY <1>1, <1>2, <1>7 DEF DiskInv
  <2>2. conv'[d] \in [AttsOf[d] -> Records]
    BY <2>1 DEF StagedDoc, Records, At
  <2>3. \A o \in AttsOf[d] \ work[w].lost : orig[o] = "whole"
    BY <1>1, <1>2 DEF WriterSafe
  <2>4. ASSUME NEW o \in AttsOf[d] PROVE Safe(o, conv'[d][o])
    <3>1. conv'[d][o] = IF o \in work[w].lost THEN At("nowhere", "file_missing") ELSE At("original", "none")
      BY <2>1 DEF StagedDoc
    <3> QED
      BY <2>3, <3>1 DEF At, Safe, Recoverable
  <2> HIDE DEF d
  <2>5. DiskInv'
    BY <1>1, <1>2, <2>1, <2>2, <2>4, OneDocument
  <2> QED
    BY <1>5, <2>5 DEF IInv
<1> QED
  BY <1>6, <1>7 DEF WriteConversation

--------------------------------------------------------------------------------
(* The media pass.                                                         *)

(* No writer is left when the media pass runs.                             *)
LEMMA WritersAreGone ==
  ASSUME WritersInv, phase # "drain", UNCHANGED <<queue, work, temp>>
  PROVE  WritersInv'
BY DEF WritersInv, WriterSafe

(* A record of a document is replaced by one that can be followed.         *)
LEMMA PatchKeeps ==
  ASSUME DiskInv, UNCHANGED <<verdict, orig, deriv, note, powerCut>>,
         NEW d \in Docs, conv[d] # NoFile, NEW o \in AttsOf[d],
         NEW r \in Records, Safe(o, r), Patch(d, o, r)
  PROVE  DiskInv' /\ conv'[d] # NoFile
<1>1. DOMAIN conv = Docs /\ conv[d] \in [AttsOf[d] -> Records] /\ \A p \in AttsOf[d] : Safe(p, conv[d][p])
  BY DEF DiskInv, DocSafe
<1> DEFINE new == [conv[d] EXCEPT ![o] = r]
<1>2. conv' = [conv EXCEPT ![d] = new]
  BY DEF Patch
<1>3. new \in [AttsOf[d] -> Records] /\ \A p \in AttsOf[d] : new[p] = IF p = o THEN r ELSE conv[d][p]
  BY <1>1
<1>4. \A p \in AttsOf[d] : Safe(p, new[p])
  BY <1>1, <1>3
<1>5. new # NoFile
  BY <1>3, NoFileIsNoDocument, StagingAssumption
<1> HIDE DEF new
<1>6. DOMAIN conv' = Docs /\ conv'[d] = new /\ \A e \in Docs \ {d} : conv'[e] = conv[e]
  BY <1>1, <1>2
<1> QED
  BY <1>3, <1>4, <1>5, <1>6, OneDocument

(* The steps that only move on through the pass.                           *)
LEMMA MovesSafe ==
  ASSUME IInv, OpenDocument \/ NextDocument \/ PassDone \/ NextItem \/ Encode \/ PassFails
  PROVE  IInv'
<1> USE DEF MediaFrame, bounds
<1>1. phase = "media" /\ UNCHANGED <<verdict, disk, powerCut, queue, work, temp>>
  BY DEF OpenDocument, NextDocument, PassDone, NextItem, Encode, AtStep, PassFails
<1>2. DiskInv' /\ WritersInv'
  BY <1>1, DiskStays, WritersAreGone DEF IInv
<1>3. UNCHANGED <<verdict, conv, orig, deriv, note>> /\ PassInv
  BY <1>1 DEF disk, IInv
<1> SUFFICES PassInv'
  BY <1>2 DEF IInv
<1>4. CASE OpenDocument
  BY <1>1, <1>3, <1>4 DEF OpenDocument, PassInv, Pass, Pending
<1>5. CASE NextDocument \/ PassDone \/ PassFails
  BY <1>1, <1>3, <1>5 DEF NextDocument, PassDone, PassFails, PassInv, Pass, Listing
<1>6. CASE NextItem
  <2>1. media.todo \subseteq AttsOf[media.doc] /\ media.doc \in Docs /\ conv[media.doc] # NoFile
    BY <1>1, <1>3, <1>6 DEF NextItem, PassInv
  <2> QED
    BY <1>1, <1>3, <1>6, <2>1 DEF NextItem, PassInv, Pass
<1>7. CASE Encode
  <2>1. /\ media.step = "item" /\ media.doc \in Docs /\ conv[media.doc] # NoFile
        /\ media.cur \in AttsOf[media.doc] /\ media.todo \subseteq AttsOf[media.doc]
        /\ media' = Pass(media.doc, verdict[media.cur], media.todo, media.cur)
        /\ verdict[media.cur] \in {"small", "large"} /\ There(media.cur)
    BY <1>1, <1>3, <1>7 DEF Encode, AtStep, GoTo, PassInv, ToEncode, Transcodes, Heals
  <2>2. orig[media.cur] = "whole"
    BY <2>1, StagingAssumption DEF IInv, DiskInv, OriginalSafe, There
  <2> QED
    BY <1>1, <1>3, <2>1, <2>2 DEF PassInv, Pass
<1> QED
  BY <1>4, <1>5, <1>6, <1>7

(* Where the pass is, between two steps on an item.                        *)
LEMMA AtAnItem ==
  ASSUME IInv, phase = "media", media.step \notin {"doc", "items"}
  PROVE  /\ media.doc \in Docs /\ conv[media.doc] # NoFile
         /\ media.cur \in AttsOf[media.doc] /\ media.cur \in Originals
         /\ media.todo \subseteq AttsOf[media.doc]
         /\ OriginalSafe(media.cur)
         /\ conv[media.doc][media.cur] \in Records
         /\ Safe(media.cur, conv[media.doc][media.cur])
<1>1. media.doc \in Docs /\ conv[media.doc] # NoFile
      /\ media.cur \in AttsOf[media.doc] /\ media.todo \subseteq AttsOf[media.doc]
  BY DEF IInv, PassInv
<1>2. media.cur \in Originals
  BY <1>1, StagingAssumption
<1> QED
  BY <1>1, <1>2 DEF IInv, DiskInv, DocSafe

(* A record is settled, and the item with it.                              *)
LEMMA SettledSafe ==
  ASSUME IInv, phase = "media", media.step \notin {"doc", "items"}, UNCHANGED phase,
         UNCHANGED <<verdict, orig, deriv, note, powerCut, queue, work, temp>>,
         NEW r \in Records, Safe(media.cur, r), Patch(media.doc, media.cur, r), ItemDone
  PROVE  IInv'
<1>1. media.doc \in Docs /\ conv[media.doc] # NoFile
      /\ media.cur \in AttsOf[media.doc] /\ media.todo \subseteq AttsOf[media.doc]
  BY AtAnItem
<1>2. PICK d \in Docs : d = media.doc
  BY <1>1
<1>3. PICK o \in AttsOf[d] : o = media.cur
  BY <1>1, <1>2
<1>4. DiskInv' /\ conv'[d] # NoFile
  BY <1>1, <1>2, <1>3, PatchKeeps DEF IInv
<1>5. media' = Pass(d, "items", media.todo \ {o}, NoOriginal)
  BY <1>2, <1>3 DEF ItemDone
<1>6. PassInv'
  BY <1>1, <1>2, <1>4, <1>5 DEF PassInv, Pass
<1> QED
  BY <1>4, <1>6, WritersAreGone DEF IInv

(* What the pass finds missing, or ffmpeg cannot do, is settled truly.     *)
LEMMA ItemsSafe == ASSUME IInv, Settle \/ EncodeFails \/ EncodeDeclined PROVE IInv'
<1> USE DEF MediaFrame, bounds, AtStep
<1> DEFINE o == media.cur
<1>1. phase = "media" /\ media.step = "item" /\ UNCHANGED phase /\ ItemDone
      /\ UNCHANGED <<verdict, orig, deriv, note, powerCut, queue, work, temp>>
  BY DEF Settle, EncodeFails, EncodeDeclined
<1>2. OriginalSafe(o) /\ conv[media.doc] # NoFile
  BY <1>1, AtAnItem
<1>3. ASSUME NEW r \in Records, Safe(o, r), Patch(media.doc, o, r) PROVE IInv'
  BY <1>1, <1>3, SettledSafe
<1>4. ASSUME NEW why \in {"too_large", "file_missing"}, Patch(media.doc, o, At("nowhere", why))
      PROVE  IInv'
  BY <1>3, <1>4 DEF At, Records, Safe, Recoverable
<1>5. ASSUME NEW why \in {"none", "convert_failed"}, There(o), Patch(media.doc, o, At("original", why))
      PROVE  IInv'
  <2>1. orig[o] = "whole"
    BY <1>2, <1>5 DEF OriginalSafe, There
  <2> QED
    BY <1>3, <1>5, <2>1 DEF At, Records, Safe, Recoverable
<1>6. ASSUME Repoints(media.doc, o), Patch(media.doc, o, At("derivative", "none")) PROVE IInv'
  <2>1. o \in deriv /\ verdict[o] = "small"
    BY <1>2, <1>6 DEF Repoints, OriginalSafe
  <2> QED
    BY <1>3, <1>6, <2>1 DEF At, Records, Safe, Recoverable
<1>7. CASE UNCHANGED conv
  <2>1. DiskInv' /\ WritersInv'
    BY <1>1, <1>7, DiskStays, WritersAreGone DEF IInv, disk
  <2>2. media.doc \in Docs /\ media.todo \subseteq AttsOf[media.doc]
    BY <1>1, AtAnItem
  <2>3. PassInv'
    BY <1>1, <1>2, <1>7, <2>2 DEF PassInv, ItemDone, Pass
  <2> QED
    BY <2>1, <2>3 DEF IInv
<1>8. CASE Settle
  BY <1>4, <1>6, <1>8 DEF Settle
<1>9. CASE EncodeFails
  BY <1>5, <1>9 DEF EncodeFails, AfterFailure, ToEncode, Transcodes, Heals
<1>10. CASE EncodeDeclined
  BY <1>5, <1>7, <1>10 DEF EncodeDeclined, Heals
<1> QED
  BY <1>8, <1>9, <1>10

(* A record is patched before the file it names comes or the one it named  *)
(* goes.                                                                   *)
LEMMA PatchesSafe == ASSUME IInv, PatchTooLarge \/ PatchConverted PROVE IInv'
<1> USE DEF MediaFrame, bounds, AtStep
<1>1. phase = "media" /\ media.step \notin {"doc", "items"} /\ UNCHANGED phase
      /\ UNCHANGED <<verdict, orig, deriv, note, powerCut, queue, work, temp>>
  BY DEF PatchTooLarge, PatchConverted
<1>2. media.doc \in Docs /\ conv[media.doc] # NoFile
      /\ media.cur \in AttsOf[media.doc] /\ media.todo \subseteq AttsOf[media.doc]
  BY <1>1, AtAnItem
<1>3. PICK d \in Docs : d = media.doc
  BY <1>2
<1>4. PICK o \in AttsOf[d] : o = media.cur
  BY <1>2, <1>3
<1>5. WritersInv' /\ PassInv
  BY <1>1, WritersAreGone DEF IInv
<1>6. CASE PatchTooLarge
  <2>1. Patch(d, o, At("nowhere", "too_large")) /\ media' = Pass(d, "dropping", media.todo, o)
    BY <1>3, <1>4, <1>6 DEF PatchTooLarge, GoTo
  <2>2. DiskInv' /\ conv'[d] # NoFile
    BY <1>1, <1>2, <1>3, <1>4, <2>1, PatchKeeps DEF IInv, At, Records, Safe, Recoverable
  <2>3. media.step = "noted"
    BY <1>6 DEF PatchTooLarge
  <2>4. PassInv'
    BY <1>1, <1>2, <1>3, <1>4, <1>5, <2>1, <2>2, <2>3 DEF PassInv, Pass
  <2> QED
    BY <1>5, <2>2, <2>4 DEF IInv
<1>7. CASE PatchConverted
  <2>1. Patch(d, o, At("derivative", "none")) /\ media' = Pass(d, "patched", media.todo, o)
    BY <1>3, <1>4, <1>7 DEF PatchConverted, GoTo
  <2>2. media.step = "small" /\ verdict[o] = "small" /\ orig[o] = "whole"
    BY <1>1, <1>4, <1>5, <1>7 DEF PatchConverted, PassInv
  <2>3. DiskInv' /\ conv'[d] # NoFile
    BY <1>1, <1>2, <1>3, <1>4, <2>1, <2>2, PatchKeeps DEF IInv, At, Records, Safe, Recoverable, Wanted
  <2>4. PassInv'
    BY <1>1, <1>2, <1>3, <1>4, <1>5, <2>1, <2>2, <2>3 DEF PassInv, Pass
  <2> QED
    BY <1>5, <2>3, <2>4 DEF IInv
<1> QED
  BY <1>6, <1>7

(* A file comes or goes when a derivative, or a note, stands for it.       *)
LEMMA FilesSafe ==
  ASSUME IInv, WriteNote \/ DropTooLarge \/ Commit \/ DropConverted \/ DropNote
  PROVE  IInv'
<1> USE DEF MediaFrame, bounds, AtStep
<1> DEFINE o == media.cur
<1>1. phase = "media" /\ media.step \notin {"doc", "items"} /\ UNCHANGED phase
      /\ UNCHANGED <<verdict, conv, powerCut, queue, work, temp>>
  BY DEF WriteNote, DropTooLarge, Commit, DropConverted, DropNote
<1>2. /\ media.doc \in Docs /\ conv[media.doc] # NoFile
      /\ o \in AttsOf[media.doc] /\ o \in Originals
      /\ media.todo \subseteq AttsOf[media.doc] /\ OriginalSafe(o)
  BY <1>1, AtAnItem
<1>3. WritersInv' /\ PassInv /\ DiskInv
      /\ DOMAIN orig = Originals /\ DOMAIN note = Originals /\ DOMAIN conv = Docs
  BY <1>1, WritersAreGone DEF IInv, DiskInv
<1>4. ASSUME NEW p \in Originals PROVE OriginalSafe(p)
  BY <1>3 DEF DiskInv
<1>5. CASE WriteNote
  <2>1. verdict[o] = "large" /\ orig[o] = "whole"
    BY <1>1, <1>3, <1>5 DEF WriteNote, PassInv
  <2>2. \A d \in Docs : DocSafe(d)'
    BY <1>1, <1>3, <1>5, DocsStay DEF WriteNote
  <2>3. DiskInv'
    BY <1>1, <1>2, <1>3, <1>4, <1>5, <2>1, <2>2 DEF WriteNote, DiskInv, OriginalSafe
  <2>4. PassInv'
    BY <1>1, <1>2, <1>3, <1>5, <2>1 DEF WriteNote, GoTo, PassInv, Pass
  <2> QED
    BY <1>3, <2>3, <2>4 DEF IInv
<1>6. CASE DropTooLarge
  <2>1. verdict[o] = "large" /\ note[o] # "none"
    BY <1>1, <1>3, <1>6 DEF DropTooLarge, PassInv
  <2>2. \A d \in Docs : DocSafe(d)'
    BY <1>1, <1>3, <1>6, <2>1, DocsStay DEF DropTooLarge, RemoveOriginal
  <2>3. DiskInv'
    BY <1>1, <1>2, <1>3, <1>4, <1>6, <2>2 DEF DropTooLarge, RemoveOriginal, DiskInv, OriginalSafe
  <2>4. PassInv'
    BY <1>1, <1>2, <1>3, <1>6 DEF DropTooLarge, ItemDone, PassInv, Pass
  <2> QED
    BY <1>3, <2>3, <2>4 DEF IInv
<1>7. CASE Commit
  <2>1. verdict[o] = "small"
    BY <1>1, <1>3, <1>7 DEF Commit, PassInv
  <2>2. \A d \in Docs : DocSafe(d)'
    BY <1>1, <1>3, <1>7, DocsStay DEF Commit, CommitRename
  <2>3. DiskInv'
    BY <1>1, <1>2, <1>3, <1>4, <1>7, <2>1, <2>2 DEF Commit, CommitRename, DiskInv, OriginalSafe
  <2>4. PassInv'
    BY <1>1, <1>2, <1>3, <1>7, <2>1 DEF Commit, CommitRename, GoTo, PassInv, Pass
  <2> QED
    BY <1>3, <2>3, <2>4 DEF IInv
<1>8. CASE DropConverted
  <2>1. verdict[o] = "small" /\ o \in deriv
    BY <1>1, <1>3, <1>8 DEF DropConverted, PassInv
  <2>2. \A d \in Docs : DocSafe(d)'
    BY <1>1, <1>3, <1>8, <2>1, DocsStay DEF DropConverted, RemoveOriginal
  <2>3. DiskInv'
    BY <1>1, <1>2, <1>3, <1>4, <1>8, <2>2 DEF DropConverted, RemoveOriginal, DiskInv, OriginalSafe
  <2>4. PassInv'
    BY <1>1, <1>2, <1>3, <1>8, <2>1 DEF DropConverted, RemoveOriginal, GoTo, PassInv, Pass
  <2> QED
    BY <1>3, <2>3, <2>4 DEF IInv
<1>9. CASE DropNote
  <2>1. verdict[o] = "small" /\ o \in deriv
    BY <1>1, <1>3, <1>9 DEF DropNote, PassInv
  <2>2. \A d \in Docs : DocSafe(d)'
    BY <1>1, <1>3, <1>9, <2>1, DocsStay DEF DropNote
  <2>3. DiskInv'
    BY <1>1, <1>2, <1>3, <1>4, <1>9, <2>2 DEF DropNote, DiskInv, OriginalSafe
  <2>4. PassInv'
    BY <1>1, <1>2, <1>3, <1>9 DEF DropNote, ItemDone, PassInv, Pass
  <2> QED
    BY <1>3, <2>3, <2>4 DEF IInv
<1> QED
  BY <1>5, <1>6, <1>7, <1>8, <1>9

--------------------------------------------------------------------------------
(* The run as a whole.                                                     *)

(* A run starts, or stops, with nothing in memory.                         *)
LEMMA NothingInMemory ==
  ASSUME DOMAIN work' = Workers, NEW r \in {Idle, Gone}, \A w \in Workers : work'[w] = r,
         r = Gone \/ phase' = "drain", temp' = NoTemps, queue' \subseteq Docs, phase' # "media"
  PROVE  WritersInv' /\ PassInv'
BY DEF WritersInv, WriterSafe, PassInv, NoTemps, TempNames, TempName, Idle, Gone, Unit

(* A run starts, is cancelled or is killed, or the media pass begins.      *)
LEMMA RunsSafe == ASSUME IInv, Start \/ Cancel \/ Join \/ Kill PROVE IInv'
<1> USE DEF bounds, disk
<1>1. UNCHANGED <<verdict, disk, powerCut>>
  BY DEF Start, Cancel, Join, Kill, Ends
<1>2. DiskInv'
  BY <1>1, DiskStays DEF IInv
<1>3. CASE Start
  BY <1>2, <1>3, NothingInMemory DEF Start, IInv
<1>4. CASE Kill
  BY <1>2, <1>4, NothingInMemory DEF Kill, Ends, IInv
<1>5. CASE Cancel
  BY <1>2, <1>5 DEF Cancel, IInv, WritersInv, WriterSafe, PassInv
<1>6. CASE Join
  BY <1>2, <1>6, StagingAssumption
     DEF Join, IInv, WritersInv, WriterSafe, PassInv, Listing, Pass
<1> QED
  BY <1>3, <1>4, <1>5, <1>6

(* A power cut takes only notes that were not on disk yet.                 *)
LEMMA PowerCutSafe == ASSUME IInv, PowerCut PROVE IInv'
<1>1. UNCHANGED <<verdict, conv, orig, deriv>> /\ powerCut'
  BY DEF PowerCut, Ends
<1>2. DOMAIN note' = Originals /\ \A o \in Originals : note[o] = "none" => note'[o] = "none"
  BY DEF PowerCut
<1>3. DiskInv /\ \A o \in Originals : OriginalSafe(o)
  BY DEF IInv, DiskInv
<1>4. \A d \in Docs : DocSafe(d)'
  BY <1>1, <1>3, DocsStay DEF OriginalSafe
<1>5. DiskInv'
  BY <1>1, <1>2, <1>3, <1>4 DEF DiskInv, OriginalSafe
<1>6. WritersInv' /\ PassInv'
  BY NothingInMemory DEF PowerCut, Ends
<1> QED
  BY <1>5, <1>6 DEF IInv

(* Nothing happens.                                                        *)
LEMMA StutterSafe == ASSUME IInv, UNCHANGED vars PROVE IInv'
<1>1. DiskInv' /\ WritersInv'
  BY DiskStays DEF IInv, vars, disk, bounds, WritersInv, WriterSafe
<1> QED
  BY <1>1 DEF IInv, PassInv, vars, disk, bounds

(* So every step keeps the invariant.                                      *)
LEMMA NextSafe == ASSUME IInv, [Next]_vars PROVE IInv'
<1>1. ASSUME NEW w \in Workers, Writer(w) PROVE IInv'
  BY <1>1, WriterTurns, StageSafe, CopySafe, RenameSafe, WriteSafe DEF Writer
<1>2. CASE MediaStep \/ PassFails
  BY <1>2, MovesSafe, ItemsSafe, PatchesSafe, FilesSafe DEF MediaStep
<1>3. CASE Start \/ Cancel \/ Join \/ Kill
  BY <1>3, RunsSafe
<1>4. CASE PowerCut
  BY <1>4, PowerCutSafe
<1>5. CASE UNCHANGED vars
  BY <1>5, StutterSafe
<1> QED
  BY <1>1, <1>2, <1>3, <1>4, <1>5 DEF Next

(* Whatever a conversation file names is on disk, or can be found from     *)
(* what is, for any documents, attachments, writers, runs and stops, and   *)
(* whatever fails.                                                         *)
THEOREM NothingIsLost == Spec => []NothingLost
<1>1. IInv /\ [Next]_vars => IInv'
  BY NextSafe
<1> QED
  BY InitSafe, <1>1, InvImplies, PTL DEF Spec

--------------------------------------------------------------------------------
(* What a run makes when nothing fails.                                    *)

(* Why a record points nowhere, and that a derivative has no excuse.       *)
ReasonTrue(o, r) ==
  /\ r.at = "nowhere" => r.reason = "file_missing" \/ (r.reason = "too_large" /\ verdict[o] = "large")
  /\ r.at = "derivative" => r.reason = "none"

ReasonsInv == \A d \in Docs : conv[d] # NoFile => \A o \in AttsOf[d] : ReasonTrue(o, conv[d][o])

(* Every conversation is written, queued or held by a writer; a writer     *)
(* that left saw an empty queue.                                           *)
Holds(w, d) == work[w].step \in {"unit", "staging", "copying", "renaming"} /\ work[w].doc = d
QueueInv ==
  phase = "drain" /\ ~abort =>
    /\ \A d \in Docs : conv[d] # NoFile \/ d \in queue \/ \E w \in Workers : Holds(w, d)
    /\ \A w \in Workers : work[w].step = "gone" => queue = {}

(* The media pass has settled what it left behind.                         *)
Behind(d) == media.doc = NoDoc \/ d < media.doc
PassFresh ==
  phase = "media" =>
    /\ media.doc \in Docs \cup {NoDoc} /\ (media.step # "doc" => media.doc \in Docs)
    /\ media.step \notin {"doc", "items"} => media.cur \in media.todo
    /\ \A d \in Docs : conv[d] # NoFile
    /\ ~failures =>
         /\ \A d \in Docs : Behind(d) => \A o \in AttsOf[d] : Expected(o, conv[d][o])
         /\ media.step # "doc" =>
              \A o \in AttsOf[media.doc] \ media.todo : Expected(o, conv[media.doc][o])
    /\ media.step = "dropping" => conv[media.doc][media.cur] = At("nowhere", "too_large")
    /\ media.step \in {"patched", "committed", "cleaning"} =>
         conv[media.doc][media.cur] = At("derivative", "none")

FreshInv == ReasonsInv /\ QueueInv /\ PassFresh /\ ResumedLikeFresh

LEMMA InitFresh == Init => FreshInv
BY DEF Init, FreshInv, ReasonsInv, QueueInv, PassFresh, ResumedLikeFresh

(* Records stay true where they stay.                                      *)
LEMMA ReasonsStay == ASSUME ReasonsInv, UNCHANGED <<verdict, conv>> PROVE ReasonsInv'
BY DEF ReasonsInv, ReasonTrue

(* While the queue is drained, the other two parts say nothing.            *)
LEMMA DrainFresh ==
  ASSUME ReasonsInv', QueueInv', phase' = "drain" PROVE FreshInv'
BY DEF FreshInv, PassFresh, ResumedLikeFresh

(* A writer hands on what it holds, or stops the pool.                     *)
LEMMA QueueFrame ==
  ASSUME FreshInv, phase = "drain", DOMAIN work = Workers, NEW w \in Workers,
         NEW r, work' = [work EXCEPT ![w] = r],
         abort => abort', queue' \subseteq queue,
         \A d \in Docs : conv[d] # NoFile => conv'[d] # NoFile,
         ~abort' => \A d \in Docs : d \in queue \/ Holds(w, d) =>
                      \/ conv'[d] # NoFile \/ d \in queue'
                      \/ r.step \in {"unit", "staging", "copying", "renaming"} /\ r.doc = d,
         ~abort' /\ r.step = "gone" => queue' = {}
  PROVE  QueueInv'
<1>1. work'[w] = r /\ \A v \in Workers \ {w} : work'[v] = work[v]
  OBVIOUS
<1>2. ASSUME phase' = "drain", ~abort'
      PROVE  /\ \A d \in Docs : conv'[d] # NoFile \/ d \in queue' \/ \E v \in Workers : Holds(v, d)'
             /\ \A v \in Workers : work'[v].step = "gone" => queue' = {}
  <2>1. /\ \A d \in Docs : conv[d] # NoFile \/ d \in queue \/ \E v \in Workers : Holds(v, d)
        /\ \A v \in Workers : work[v].step = "gone" => queue = {}
    BY <1>2 DEF FreshInv, QueueInv
  <2>2. ASSUME NEW d \in Docs
        PROVE  conv'[d] # NoFile \/ d \in queue' \/ \E v \in Workers : Holds(v, d)'
    <3>1. CASE conv[d] # NoFile
      BY <3>1
    <3>2. CASE d \in queue \/ Holds(w, d)
      BY <1>1, <1>2, <3>2 DEF Holds
    <3>3. ASSUME NEW v \in Workers \ {w}, Holds(v, d)
          PROVE  \E u \in Workers : Holds(u, d)'
      BY <1>1, <3>3 DEF Holds
    <3> QED
      BY <2>1, <3>1, <3>2, <3>3
  <2> QED
    BY <1>1, <1>2, <2>1, <2>2
<1> QED
  BY <1>2 DEF QueueInv

(* The writers.                                                            *)
LEMMA WritersFresh ==
  ASSUME IInv, FreshInv, NEW w \in Workers, Writer(w)
  PROVE  FreshInv'
<1> USE DEF DrainFrame, Becomes, Holds
<1>1. work[w].step # "gone" /\ UNCHANGED <<phase, verdict>>
  BY DEF Writer, CheckAbort, Pop, StartUnit, Stage, Copy, Rename, WriteConversation
<1>2. phase = "drain" /\ phase' = "drain" /\ DOMAIN work = Workers
  BY <1>1 DEF IInv, WritersInv, WriterSafe
<1>3. ASSUME NEW r, work' = [work EXCEPT ![w] = r], abort => abort', queue' = queue, UNCHANGED conv,
             ~abort' => \/ r.step \in {"unit", "staging", "copying", "renaming"} /\ r.doc = work[w].doc
                        \/ r.step # "gone" /\ (work[w].step \in {"idle", "popping"}
                                               \/ conv[work[w].doc] # NoFile)
      PROVE  FreshInv'
  <2>1. ReasonsInv'
    BY <1>1, <1>3, ReasonsStay DEF FreshInv
  <2>2. ASSUME ~abort', NEW d \in Docs, d \in queue \/ Holds(w, d)
        PROVE  \/ conv'[d] # NoFile \/ d \in queue'
               \/ r.step \in {"unit", "staging", "copying", "renaming"} /\ r.doc = d
    BY <1>3, <2>2
  <2>3. ~abort' => r.step # "gone"
    BY <1>3
  <2>4. QueueInv'
    <3> HIDE DEF Holds
    <3> QED
      BY <1>2, <1>3, <2>2, <2>3, QueueFrame
  <2> QED
    BY <1>2, <2>1, <2>4, DrainFresh
<1>4. ASSUME Fail(w), UNCHANGED <<conv, queue>> PROVE FreshInv'
  BY <1>3, <1>4 DEF Fail, FailThread
<1>5. CASE CheckAbort(w)
  BY <1>3, <1>5 DEF CheckAbort, Unit, Gone
<1>6. CASE Pop(w)
  <2>1. ReasonsInv'
    BY <1>1, <1>6, ReasonsStay DEF FreshInv, Pop
  <2>2. QueueInv'
    BY <1>2, <1>6, QueueFrame DEF Pop, Unit, Gone
  <2> QED
    BY <1>2, <2>1, <2>2, DrainFresh
<1>7. CASE StartUnit(w)
  BY <1>3, <1>4, <1>7 DEF StartUnit, Complete, Unit, Idle
<1>8. CASE Stage(w)
  BY <1>3, <1>4, <1>8 DEF Stage, Miss, StagedOne, Unit
<1>9. CASE Copy(w)
  BY <1>3, <1>9 DEF Copy, Miss, StagedOne, Unit
<1>10. CASE Rename(w)
  BY <1>3, <1>10 DEF Rename, Miss, StagedOne, Unit
<1>11. CASE WriteConversation(w)
  <2> DEFINE d == work[w].doc
             new == StagedDoc(d, work[w].lost)
  <2>1. CASE Fail(w) /\ UNCHANGED conv
    BY <1>4, <1>11, <2>1 DEF WriteConversation
  <2>2. CASE conv' = [conv EXCEPT ![d] = new] /\ Becomes(w, Idle) /\ UNCHANGED abort
    <3>1. d \in Docs /\ DOMAIN conv = Docs
      BY <1>11 DEF WriteConversation, IInv, WritersInv, WriterSafe, DiskInv
    <3>2. conv'[d] = new /\ \A e \in Docs \ {d} : conv'[e] = conv[e]
      BY <2>2, <3>1
    <3>3. new # NoFile
      <4>1. new \in [AttsOf[d] -> Records] /\ AttsOf[d] \in SUBSET Originals
        BY <3>1, StagingAssumption DEF StagedDoc, Records, At
      <4> QED
        BY <4>1, NoFileIsNoDocument
    <3>4. \A o \in AttsOf[d] : ReasonTrue(o, conv'[d][o])
      BY <3>2 DEF StagedDoc, ReasonTrue, At
    <3>5. ReasonsInv'
      BY <1>1, <3>2, <3>4 DEF FreshInv, ReasonsInv, ReasonTrue
    <3> HIDE DEF new
    <3>6. QueueInv'
      BY <1>2, <1>11, <2>2, <3>2, <3>3, QueueFrame DEF WriteConversation, Idle, Unit
    <3> QED
      BY <1>2, <3>5, <3>6, DrainFresh
  <2> QED
    BY <1>11, <2>1, <2>2 DEF WriteConversation
<1> QED
  BY <1>5, <1>6, <1>7, <1>8, <1>9, <1>10, <1>11 DEF Writer

(* What a run made of an item stays so while others are converted.         *)
LEMMA ExpectedStays ==
  ASSUME UNCHANGED verdict, deriv \subseteq deriv',
         \A o \in Originals : orig'[o] = orig[o] \/ verdict[o] \in {"small", "large"},
         NEW o \in Originals, NEW r, Expected(o, r)
  PROVE  Expected(o, r)'
BY DEF Expected

(* Outside the queue, only the pass and its end count.                     *)
LEMMA MediaFresh ==
  ASSUME ReasonsInv', PassFresh', phase' # "drain", phase' = "done" => ResumedLikeFresh'
  PROVE  FreshInv'
BY DEF FreshInv, QueueInv, ResumedLikeFresh

(* What a patch writes.                                                    *)
LEMMA PatchWrites ==
  ASSUME DiskInv, NEW d \in Docs, conv[d] # NoFile, NEW o \in AttsOf[d], NEW r \in Records,
         Patch(d, o, r)
  PROVE  /\ conv'[d] # NoFile /\ \A e \in Docs \ {d} : conv'[e] = conv[e]
         /\ \A p \in AttsOf[d] : conv'[d][p] = IF p = o THEN r ELSE conv[d][p]
<1>1. DOMAIN conv = Docs /\ conv[d] \in [AttsOf[d] -> Records] /\ AttsOf[d] \in SUBSET Originals
  BY StagingAssumption DEF DiskInv, DocSafe
<1> DEFINE new == [conv[d] EXCEPT ![o] = r]
<1>2. conv' = [conv EXCEPT ![d] = new]
  BY DEF Patch
<1>3. new \in [AttsOf[d] -> Records] /\ \A p \in AttsOf[d] : new[p] = IF p = o THEN r ELSE conv[d][p]
  BY <1>1
<1>4. new # NoFile
  BY <1>1, <1>3, NoFileIsNoDocument
<1> HIDE DEF new
<1> QED
  BY <1>1, <1>2, <1>3, <1>4

(* What is no work for the pass is as it should be.                        *)
LEMMA NotPending ==
  ASSUME IInv, ReasonsInv, NEW d \in Docs, conv[d] # NoFile, NEW o \in AttsOf[d], o \notin Pending(d)
  PROVE  Expected(o, conv[d][o])
<1>1. o \in Originals /\ conv[d] \in [AttsOf[d] -> Records] /\ Safe(o, conv[d][o]) /\ OriginalSafe(o)
      /\ ReasonTrue(o, conv[d][o])
  BY StagingAssumption DEF IInv, DiskInv, DocSafe, ReasonsInv
<1>2. conv[d][o] \in Records
  BY <1>1
<1>4. PICK r \in Records : r = conv[d][o]
  BY <1>2
<1>5. r = At(r.at, r.reason)
  BY DEF Records, At
<1>6. CASE r.at = "nowhere"
  BY <1>1, <1>4, <1>5, <1>6 DEF ReasonTrue, Expected
<1>7. CASE r.at = "original"
  <2>1. verdict[o] = "untouched"
    BY <1>4, <1>7
    DEF Pending, Transcodes, Taken, Repoints, DroppedTooLarge, Unrecoverable, NamesOriginal, Wanted
  <2>2. orig[o] = "whole"
    BY <1>1, <1>4, <1>7, <2>1 DEF Safe, Recoverable, OriginalSafe, NoteLost
  <2> QED
    BY <1>4, <1>7, <2>1, <2>2 DEF Expected
<1>8. CASE r.at = "derivative"
  <2>1. o \in deriv
    BY <1>4, <1>8 DEF Pending, Heals, Unrecoverable, NamesMissingDerivative
  <2>2. verdict[o] = "small" /\ r.reason = "none"
    BY <1>1, <1>4, <1>8, <2>1 DEF OriginalSafe, ReasonTrue
  <2> QED
    BY <1>4, <1>5, <1>8, <2>1, <2>2 DEF Expected
<1> QED
  BY <1>6, <1>7, <1>8 DEF Records

(* The steps that only move on through the pass.                           *)
LEMMA MovesFresh ==
  ASSUME IInv, FreshInv, OpenDocument \/ NextDocument \/ PassDone \/ NextItem \/ Encode \/ PassFails
  PROVE  FreshInv'
<1> USE DEF MediaFrame, bounds, disk
<1>1. phase = "media" /\ UNCHANGED <<verdict, conv, orig, deriv, note, failures>>
  BY DEF OpenDocument, NextDocument, PassDone, NextItem, Encode, AtStep, PassFails
<1> HIDE DEF disk
<1>2. ReasonsInv'
  BY <1>1, ReasonsStay DEF FreshInv
<1>3. \A o, r : Expected(o, r) <=> Expected(o, r)'
  BY <1>1 DEF Expected
<1>4. /\ media.doc \in Docs \cup {NoDoc} /\ (media.step # "doc" => media.doc \in Docs)
      /\ media.step \notin {"doc", "items"} => media.cur \in media.todo
      /\ \A d \in Docs : conv[d] # NoFile
      /\ ~failures =>
           /\ \A d \in Docs : Behind(d) => \A o \in AttsOf[d] : Expected(o, conv[d][o])
           /\ media.step # "doc" =>
                \A o \in AttsOf[media.doc] \ media.todo : Expected(o, conv[media.doc][o])
  BY <1>1 DEF FreshInv, PassFresh
<1>5. NDocs \in Nat /\ Docs = 1..NDocs /\ NoDoc \notin Docs
  BY StagingAssumption DEF Docs
<1>6. ASSUME phase' = "failed" PROVE FreshInv'
  BY <1>2, <1>6, MediaFresh DEF PassFresh
<1>7. CASE OpenDocument
  <2>1. CASE phase' # "failed"
    <3> DEFINE d == media.doc
    <3>1. d \in Docs /\ phase' = "media" /\ media' = Pass(d, "items", Pending(d), NoOriginal)
      BY <1>1, <1>4, <1>7, <2>1 DEF OpenDocument
    <3>2. media'.doc = d /\ media'.step = "items" /\ media'.todo = Pending(d)
      BY <3>1 DEF Pass
    <3>3. \A o \in AttsOf[d] \ Pending(d) : Expected(o, conv[d][o])
      BY <1>4, <3>1, NotPending DEF FreshInv
    <3> HIDE DEF d
    <3>4. \A e \in Docs : Behind(e)' => Behind(e)
      BY <3>2 DEF Behind, d
    <3>5. PassFresh'
      BY <1>1, <1>3, <1>4, <3>1, <3>2, <3>3, <3>4 DEF PassFresh
    <3> QED
      BY <1>2, <3>1, <3>5, MediaFresh
  <2> QED
    BY <1>6, <2>1
<1>8. CASE NextDocument
  <2>1. /\ media.step = "items" /\ media.todo = {} /\ phase' = "media" /\ media.doc \in Docs
        /\ media' = Listing(IF media.doc = NDocs THEN NoDoc ELSE media.doc + 1)
    BY <1>1, <1>4, <1>8 DEF NextDocument
  <2>2. media'.step = "doc" /\ media'.doc = IF media.doc = NDocs THEN NoDoc ELSE media.doc + 1
    BY <2>1 DEF Listing, Pass
  <2>3. \A d \in Docs : Behind(d)' => Behind(d) \/ d = media.doc
    BY <1>5, <2>1, <2>2 DEF Behind
  <2>4. media'.doc \in Docs \cup {NoDoc}
    BY <1>5, <2>1, <2>2
  <2>5. ~failures => \A o \in AttsOf[media.doc] : Expected(o, conv[media.doc][o])
    BY <1>4, <2>1
  <2>6. PassFresh'
    BY <1>1, <1>3, <1>4, <2>1, <2>2, <2>3, <2>4, <2>5 DEF PassFresh
  <2> QED
    BY <1>2, <2>1, <2>6, MediaFresh
<1>9. CASE PassDone
  <2>1. phase' = "done" /\ media.doc = NoDoc
    BY <1>9 DEF PassDone
  <2>2. ResumedLikeFresh'
    BY <1>1, <1>3, <1>4, <2>1 DEF ResumedLikeFresh, Behind
  <2>3. PassFresh'
    BY <2>1 DEF PassFresh
  <2> QED
    BY <1>2, <2>1, <2>2, <2>3, MediaFresh
<1>10. CASE NextItem
  <2>1. CASE phase' # "failed"
    <3>1. PICK o \in media.todo : media' = Pass(media.doc, "item", media.todo, o)
      BY <1>1, <1>10, <2>1 DEF NextItem
    <3>2. media.step = "items" /\ phase' = "media"
      BY <1>1, <1>10, <2>1 DEF NextItem
    <3>3. media'.doc = media.doc /\ media'.step = "item" /\ media'.todo = media.todo /\ media'.cur = o
      BY <3>1 DEF Pass
    <3>4. \A e \in Docs : Behind(e)' => Behind(e)
      BY <3>3 DEF Behind
    <3>5. PassFresh'
      BY <1>1, <1>3, <1>4, <3>1, <3>2, <3>3, <3>4 DEF PassFresh
    <3> QED
      BY <1>2, <3>2, <3>5, MediaFresh
  <2> QED
    BY <1>6, <2>1
<1>11. CASE Encode
  <2>1. /\ media.step = "item" /\ phase' = "media" /\ verdict[media.cur] \in {"small", "large"}
        /\ media' = Pass(media.doc, verdict[media.cur], media.todo, media.cur)
    BY <1>1, <1>11 DEF Encode, AtStep, GoTo
  <2>2. media'.doc = media.doc /\ media'.step \in {"small", "large"} /\ media'.todo = media.todo
        /\ media'.cur = media.cur
    BY <2>1 DEF Pass
  <2>3. \A e \in Docs : Behind(e)' => Behind(e)
    BY <2>2 DEF Behind
  <2>4. PassFresh'
    BY <1>1, <1>3, <1>4, <2>1, <2>2, <2>3 DEF PassFresh
  <2> QED
    BY <1>2, <2>1, <2>4, MediaFresh
<1>12. CASE PassFails
  BY <1>6, <1>12 DEF PassFails
<1> QED
  BY <1>7, <1>8, <1>9, <1>10, <1>11, <1>12

(* A record of the item at hand is written, and the pass goes on with it   *)
(* or leaves it.                                                           *)
LEMMA ItemPatched ==
  ASSUME IInv, FreshInv, phase = "media", phase' = "media", media.step \notin {"doc", "items"},
         UNCHANGED <<verdict, orig, deriv>>, failures => failures',
         NEW r \in Records, Patch(media.doc, media.cur, r), ReasonTrue(media.cur, r),
         \/ ItemDone /\ (failures' \/ Expected(media.cur, r))
         \/ GoTo("dropping") /\ r = At("nowhere", "too_large")
         \/ GoTo("patched") /\ r = At("derivative", "none")
  PROVE  FreshInv'
<1>1. /\ media.doc \in Docs /\ conv[media.doc] # NoFile /\ media.cur \in AttsOf[media.doc]
      /\ DiskInv
  BY AtAnItem DEF IInv
<1>2. PICK d \in Docs : d = media.doc
  BY <1>1
<1>3. PICK o \in AttsOf[d] : o = media.cur
  BY <1>1, <1>2
<1>4. /\ conv'[d] # NoFile /\ \A e \in Docs \ {d} : conv'[e] = conv[e]
      /\ \A p \in AttsOf[d] : conv'[d][p] = IF p = o THEN r ELSE conv[d][p]
  BY <1>1, <1>2, <1>3, PatchWrites
<1>5. \A p, s : (Expected(p, s) <=> Expected(p, s)') /\ (ReasonTrue(p, s) <=> ReasonTrue(p, s)')
  BY DEF Expected, ReasonTrue
<1>6. /\ o \in media.todo
      /\ \A e \in Docs : conv[e] # NoFile
      /\ ~failures =>
           /\ \A e \in Docs : Behind(e) => \A p \in AttsOf[e] : Expected(p, conv[e][p])
           /\ \A p \in AttsOf[d] \ media.todo : Expected(p, conv[d][p])
  BY <1>2, <1>3 DEF FreshInv, PassFresh
<1>7. ReasonsInv'
  <2>1. \A e \in Docs : conv[e] # NoFile => \A p \in AttsOf[e] : ReasonTrue(p, conv[e][p])
    BY DEF FreshInv, ReasonsInv
  <2>2. ASSUME NEW e \in Docs, NEW p \in AttsOf[e] PROVE ReasonTrue(p, conv'[e][p])
    BY <1>2, <1>3, <1>4, <1>6, <2>1, <2>2
  <2> QED
    BY <1>5, <2>2 DEF ReasonsInv
<1>8. ~Behind(d)
  BY <1>2, StagingAssumption DEF Behind, Docs
<1>9. media'.doc = d
  BY <1>2 DEF ItemDone, GoTo, Pass
<1>10. \A e \in Docs : Behind(e)' => Behind(e) /\ e # d
  BY <1>2, <1>8, <1>9 DEF Behind
<1>11. ~failures' => \A e \in Docs : Behind(e)' => \A p \in AttsOf[e] : Expected(p, conv'[e][p])
  BY <1>4, <1>6, <1>10
<1>12. CASE ItemDone /\ (failures' \/ Expected(o, r))
  <2>1. media'.step = "items" /\ media'.todo = media.todo \ {o}
    BY <1>3, <1>12 DEF ItemDone, Pass
  <2>2. ~failures' => \A p \in AttsOf[d] \ media'.todo : Expected(p, conv'[d][p])
    BY <1>4, <1>6, <1>12, <2>1
  <2>3. PassFresh'
    BY <1>4, <1>5, <1>6, <1>9, <1>11, <2>1, <2>2 DEF PassFresh
  <2> QED
    BY <1>7, <2>3, MediaFresh
<1>13. CASE (GoTo("dropping") /\ r = At("nowhere", "too_large"))
            \/ (GoTo("patched") /\ r = At("derivative", "none"))
  <2>1. /\ media'.todo = media.todo /\ media'.cur = o
        /\ \/ media'.step = "dropping" /\ r = At("nowhere", "too_large")
           \/ media'.step = "patched" /\ r = At("derivative", "none")
    BY <1>3, <1>13 DEF GoTo, Pass
  <2>2. ~failures' => \A p \in AttsOf[d] \ media'.todo : Expected(p, conv'[d][p])
    BY <1>4, <1>6, <2>1
  <2>3. conv'[d][o] = r
    BY <1>4
  <2>4. PassFresh'
    BY <1>4, <1>5, <1>6, <1>9, <1>11, <2>1, <2>2, <2>3 DEF PassFresh
  <2> QED
    BY <1>7, <2>4, MediaFresh
<1> QED
  BY <1>3, <1>12, <1>13

(* What the pass settles of an item is what is expected of it.             *)
LEMMA ItemsFresh ==
  ASSUME IInv, FreshInv, Settle \/ EncodeFails \/ EncodeDeclined PROVE FreshInv'
<1> USE DEF MediaFrame, AtStep
<1> DEFINE o == media.cur
           d == media.doc
<1>1. phase = "media" /\ media.step = "item" /\ phase' = "media" /\ ItemDone
      /\ UNCHANGED <<verdict, orig, deriv>> /\ (failures => failures')
  BY DEF Settle, EncodeFails, EncodeDeclined
<1>2. OriginalSafe(o) /\ conv[d] # NoFile /\ d \in Docs /\ o \in AttsOf[d] /\ o \in Originals
      /\ ReasonsInv /\ PassFresh
  BY <1>1, AtAnItem DEF FreshInv
<1>3. ASSUME NEW r \in Records, Patch(d, o, r), ReasonTrue(o, r), failures' \/ Expected(o, r)
      PROVE  FreshInv'
  BY <1>1, <1>3, ItemPatched
<1>4. CASE Settle
  <2>1. CASE Repoints(d, o) /\ Patch(d, o, At("derivative", "none"))
    <3>1. o \in deriv /\ verdict[o] = "small"
      BY <1>2, <2>1 DEF Repoints, OriginalSafe
    <3> QED
      BY <1>3, <2>1, <3>1 DEF At, Records, ReasonTrue, Expected
  <2>2. CASE DroppedTooLarge(d, o) /\ Patch(d, o, At("nowhere", "too_large"))
    <3>1. verdict[o] = "large"
      BY <1>2, <2>2 DEF DroppedTooLarge, OriginalSafe
    <3> QED
      BY <1>3, <2>2, <3>1 DEF At, Records, ReasonTrue, Expected
  <2>3. CASE Unrecoverable(d, o) /\ Patch(d, o, At("nowhere", "file_missing"))
    BY <1>3, <2>3 DEF At, Records, ReasonTrue, Expected
  <2> QED
    BY <1>4, <2>1, <2>2, <2>3 DEF Settle
<1>5. CASE EncodeFails
  BY <1>3, <1>5 DEF EncodeFails, AfterFailure, At, Records, ReasonTrue
<1>6. CASE EncodeDeclined
  <2>1. orig[o] = "whole" /\ verdict[o] = "declined"
    BY <1>2, <1>6 DEF EncodeDeclined, ToEncode, Transcodes, Heals, There, OriginalSafe
  <2>2. CASE Heals(d, o)
    BY <1>3, <1>6, <2>1, <2>2 DEF EncodeDeclined, At, Records, ReasonTrue, Expected
  <2>3. CASE ~Heals(d, o)
    <3>1. conv' = conv /\ failures' = failures
      BY <1>6, <2>3 DEF EncodeDeclined
    <3>2. Expected(o, conv[d][o])
      BY <1>6, <2>1, <2>3 DEF EncodeDeclined, ToEncode, Transcodes, NamesOriginal, Expected
    <3>3. ReasonsInv'
      BY <1>1, <1>2, <3>1, ReasonsStay
    <3>4. media'.doc = d /\ media'.step = "items" /\ media'.todo = media.todo \ {o}
      BY <1>1 DEF ItemDone, Pass
    <3>5. \A e \in Docs : Behind(e)' => Behind(e)
      BY <3>4 DEF Behind
    <3>6. \A p, s : Expected(p, s) <=> Expected(p, s)'
      BY <1>1 DEF Expected
    <3>7. PassFresh'
      BY <1>1, <1>2, <3>1, <3>2, <3>4, <3>5, <3>6 DEF PassFresh
    <3> QED
      BY <1>1, <3>3, <3>7, MediaFresh
  <2> QED
    BY <2>2, <2>3
<1> QED
  BY <1>4, <1>5, <1>6

LEMMA PatchesFresh ==
  ASSUME IInv, FreshInv, PatchTooLarge \/ PatchConverted PROVE FreshInv'
<1> USE DEF MediaFrame, AtStep
<1>1. phase = "media" /\ media.step \in {"noted", "small"} /\ phase' = "media"
      /\ UNCHANGED <<verdict, orig, deriv, failures>> /\ PassInv
  BY DEF PatchTooLarge, PatchConverted, IInv
<1>2. CASE PatchTooLarge
  <2>1. verdict[media.cur] = "large"
    BY <1>1, <1>2 DEF PatchTooLarge, PassInv
  <2> QED
    BY <1>1, <1>2, <2>1, ItemPatched DEF PatchTooLarge, At, Records, ReasonTrue
<1>3. CASE PatchConverted
  BY <1>1, <1>3, ItemPatched DEF PatchConverted, At, Records, ReasonTrue
<1> QED
  BY <1>2, <1>3

(* Files come and go with the record already written.                      *)
LEMMA FilesFresh ==
  ASSUME IInv, FreshInv, WriteNote \/ DropTooLarge \/ Commit \/ DropConverted \/ DropNote
  PROVE  FreshInv'
<1> USE DEF MediaFrame, AtStep
<1> DEFINE o == media.cur
           d == media.doc
<1>1. /\ phase = "media" /\ phase' = "media" /\ media.step \notin {"doc", "items"}
      /\ UNCHANGED <<verdict, conv, failures>>
  BY DEF WriteNote, DropTooLarge, Commit, DropConverted, DropNote
<1>2. /\ PassInv /\ PassFresh /\ ReasonsInv /\ o \in Originals /\ o \in AttsOf[d] /\ d \in Docs
      /\ DOMAIN orig = Originals
  BY <1>1, AtAnItem DEF FreshInv, IInv, DiskInv
<1>3. verdict[o] \in {"small", "large"}
  BY <1>1, <1>2 DEF WriteNote, DropTooLarge, Commit, DropConverted, DropNote, PassInv
<1>4. deriv \subseteq deriv' /\ \A p \in Originals : orig'[p] = orig[p] \/ p = o
  BY <1>2 DEF WriteNote, DropTooLarge, Commit, CommitRename, DropConverted, DropNote, RemoveOriginal
<1>5. \A p \in Originals : \A s : Expected(p, s) => Expected(p, s)'
  BY <1>1, <1>3, <1>4, ExpectedStays
<1>6. ReasonsInv'
  BY <1>1, <1>2, ReasonsStay
<1>7. media'.doc = d
  BY DEF WriteNote, DropTooLarge, Commit, DropConverted, DropNote, ItemDone, GoTo, Pass
<1>8. \A e \in Docs : Behind(e)' => Behind(e)
  BY <1>7 DEF Behind
<1>9. /\ o \in media.todo
      /\ \A e \in Docs : conv[e] # NoFile
      /\ ~failures =>
           /\ \A e \in Docs : Behind(e) => \A p \in AttsOf[e] : Expected(p, conv[e][p])
           /\ \A p \in AttsOf[d] \ media.todo : Expected(p, conv[d][p])
      /\ media.step = "dropping" => conv[d][o] = At("nowhere", "too_large")
      /\ media.step \in {"patched", "committed", "cleaning"} => conv[d][o] = At("derivative", "none")
  BY <1>1, <1>2 DEF PassFresh
<1>10. \A e \in Docs : AttsOf[e] \subseteq Originals
  BY StagingAssumption
<1>11. ~failures => \A e \in Docs : Behind(e)' => \A p \in AttsOf[e] : Expected(p, conv[e][p])'
  BY <1>1, <1>5, <1>8, <1>9, <1>10
<1>12. ~failures => \A e \in Docs : e = d =>
                    \A p \in AttsOf[e] \ media.todo : Expected(p, conv[e][p])'
  BY <1>1, <1>2, <1>5, <1>9, <1>10
<1>13. PassFresh'
  <2>1. CASE WriteNote \/ Commit \/ DropConverted
    <3>1. /\ media'.todo = media.todo /\ media'.cur = o
          /\ media'.step \in {"noted", "committed", "cleaning"}
          /\ media'.step \in {"committed", "cleaning"} => media.step \in {"patched", "committed"}
      BY <2>1 DEF WriteNote, Commit, DropConverted, GoTo, Pass
    <3> QED
      BY <1>1, <1>2, <1>7, <1>9, <1>11, <1>12, <3>1 DEF PassFresh
  <2>2. CASE DropTooLarge \/ DropNote
    <3>1. media'.todo = media.todo \ {o} /\ media'.step = "items"
      BY <2>2 DEF DropTooLarge, DropNote, ItemDone, Pass
    <3>2. Expected(o, conv[d][o])
      <4>1. CASE DropTooLarge
        BY <1>1, <1>2, <1>9, <4>1 DEF DropTooLarge, PassInv, Expected
      <4>2. CASE DropNote
        BY <1>1, <1>2, <1>9, <4>2 DEF DropNote, PassInv, Expected
      <4> QED
        BY <2>2, <4>1, <4>2
    <3>3. ~failures => \A e \in Docs : e = d =>
                        \A p \in AttsOf[e] \ media'.todo : Expected(p, conv[e][p])'
      BY <1>1, <1>2, <1>5, <1>12, <3>1, <3>2
    <3> QED
      BY <1>1, <1>2, <1>7, <1>9, <1>11, <3>1, <3>3 DEF PassFresh
  <2> QED
    BY <2>1, <2>2
<1> QED
  BY <1>1, <1>6, <1>13, MediaFresh

(* A run starts, ends or stops, or hands over to the media pass.           *)
LEMMA RunsFresh ==
  ASSUME IInv, FreshInv, Workers # {}, Start \/ Cancel \/ Join \/ Kill \/ PowerCut \/ UNCHANGED vars
  PROVE  FreshInv'
<1> USE DEF disk
<1>1. UNCHANGED <<verdict, conv>>
  BY DEF Start, Cancel, Join, Kill, PowerCut, Ends, vars
<1>2. ReasonsInv'
  BY <1>1, ReasonsStay DEF FreshInv
<1>3. CASE Start
  <2>1. QueueInv'
    BY <1>3 DEF Start, QueueInv, Idle, Unit
  <2> QED
    BY <1>2, <1>3, <2>1, DrainFresh DEF Start
<1>4. CASE Kill \/ PowerCut
  BY <1>2, <1>4, MediaFresh DEF Kill, PowerCut, Ends, PassFresh
<1>5. CASE Cancel \/ UNCHANGED vars
  <2>1. UNCHANGED <<verdict, conv, orig, deriv, phase, queue, work, abort, failures, media>>
    BY <1>5 DEF Cancel, vars
  <2>2. QueueInv' /\ PassFresh' /\ ResumedLikeFresh'
    BY <2>1 DEF FreshInv, QueueInv, Holds, PassFresh, Behind, Expected, ResumedLikeFresh
  <2> QED
    BY <1>2, <2>2 DEF FreshInv
<1>6. CASE Join
  <2>1. /\ phase = "drain" /\ \A w \in Workers : work[w].step = "gone"
        /\ phase' = IF abort THEN "failed" ELSE "media"
        /\ media' = Listing(IF NDocs = 0 THEN NoDoc ELSE 1)
    BY <1>6 DEF Join
  <2>2. CASE abort
    BY <1>2, <2>1, <2>2, MediaFresh DEF PassFresh
  <2>3. CASE ~abort
    <3>1. \A d \in Docs : conv[d] # NoFile
      BY <2>1, <2>3 DEF FreshInv, QueueInv, Holds
    <3>2. media'.step = "doc" /\ media'.doc = IF NDocs = 0 THEN NoDoc ELSE 1
      BY <2>1 DEF Listing, Pass
    <3>3. media'.doc \in Docs \cup {NoDoc} /\ \A d \in Docs : ~Behind(d)'
      BY <3>2, StagingAssumption DEF Behind, Docs
    <3>4. PassFresh'
      BY <1>1, <3>1, <3>2, <3>3 DEF PassFresh
    <3> QED
      BY <1>2, <2>1, <2>3, <3>4, MediaFresh
  <2> QED
    BY <2>2, <2>3
<1> QED
  BY <1>3, <1>4, <1>5, <1>6

(* However many runs were stopped before, and wherever: one that ends well *)
(* and in which ffmpeg failed on nothing leaves the folder that a single   *)
(* run would have made, in every document (transcode.rs: "safe to call     *)
(* again after an interruption: it ... does whatever is left").            *)
THEOREM ResumesLikeFresh == Workers # {} /\ Spec => []ResumedLikeFresh
<1>1. ASSUME Workers # {}, IInv, FreshInv, [Next]_vars PROVE IInv' /\ FreshInv'
  <2>0. IInv'
    BY <1>1, NextSafe
  <2>1. ASSUME NEW w \in Workers, Writer(w) PROVE FreshInv'
    BY <1>1, <2>1, WritersFresh
  <2>2. CASE MediaStep \/ PassFails
    BY <1>1, <2>0, <2>2, MovesFresh, ItemsFresh, PatchesFresh, FilesFresh DEF MediaStep
  <2>3. CASE Start \/ Cancel \/ Join \/ Kill \/ PowerCut \/ UNCHANGED vars
    BY <1>1, <2>0, <2>3, RunsFresh
  <2> QED
    BY <1>1, <2>0, <2>1, <2>2, <2>3 DEF Next
<1>2. Workers # {} /\ Spec => [](IInv /\ FreshInv)
  <2> SUFFICES ASSUME Workers # {} PROVE Spec => [](IInv /\ FreshInv)
    OBVIOUS
  <2>1. Init => IInv /\ FreshInv
    BY InitSafe, InitFresh
  <2>2. IInv /\ FreshInv /\ [Next]_vars => (IInv /\ FreshInv)'
    BY <1>1
  <2> QED
    BY <2>1, <2>2, PTL DEF Spec
<1>3. IInv /\ FreshInv => ResumedLikeFresh
  BY DEF FreshInv
<1> QED
  BY <1>2, <1>3, PTL

================================================================================
