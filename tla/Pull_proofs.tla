------------------------------ MODULE Pull_proofs ------------------------------
(***************************************************************************)
(* For any messages, fingerprints, paths and bounds: what a pull that      *)
(* reports success has written, and what an Export Run's record says.      *)
(***************************************************************************)
EXTENDS Pull, FiniteSetTheorems, WellFoundedInduction, TLAPS

--------------------------------------------------------------------------------
(* The least of a set of numbers, and bounds of counts.                    *)
LEMMA LeastIs ==
  ASSUME NEW S, S \subseteq Nat, S # {}
  PROVE  Min(S) \in S /\ \A x \in S : Min(S) <= x
<1> DEFINE R == OpToRel(<, Nat)
<1>1. IsWellFoundedOn(R, Nat) /\ R = {ss \in Nat \X Nat : ss[1] < ss[2]}
  BY NatLessThanWellFounded DEF OpToRel
<1> HIDE DEF R
<1>2. PICK a \in S : \A b \in S : <<b, a>> \notin R
  BY <1>1, WFMin
<1>3. ASSUME NEW b \in S PROVE a <= b
  <2>1. <<b, a>> \in Nat \X Nat
    OBVIOUS
  <2>2. QED
    BY <1>1, <1>2, <2>1
<1>4. QED
  BY <1>3 DEF Min

LEMMA TwoMost ==
  ASSUME NEW a \in Nat, NEW b \in Nat
  PROVE  /\ Max({a, b}) \in Nat /\ a <= Max({a, b}) /\ b <= Max({a, b})
         /\ Min({a, b}) \in {a, b} /\ Min({a, b}) <= a /\ Min({a, b}) <= b
<1>1. \E x \in {a, b} : \A y \in {a, b} : x >= y
  OBVIOUS
<1>2. \E x \in {a, b} : \A y \in {a, b} : x =< y
  OBVIOUS
<1>3. Max({a, b}) \in {a, b} /\ \A y \in {a, b} : Max({a, b}) >= y
  BY <1>1 DEF Max
<1>4. Min({a, b}) \in {a, b} /\ \A y \in {a, b} : Min({a, b}) =< y
  BY <1>2 DEF Min
<1>5. QED
  BY <1>3, <1>4

LEMMA PlacesCount ==
  ASSUME listed \in [Runs -> SUBSET Msgs], NEW e \in Runs
  PROVE  /\ Total(e) \in Nat
         /\ \A m : Place(e, m) \in Nat /\ Place(e, m) <= Total(e)
<1>1. IsFiniteSet(listed[e])
  BY FS_Subset, PullAssumption
<1>2. ASSUME NEW m PROVE Place(e, m) \in Nat /\ Place(e, m) <= Total(e)
  <2>1. {k \in listed[e] : k <= m} \subseteq listed[e]
    OBVIOUS
  <2>2. QED
    BY <1>1, <2>1, FS_Subset, FS_CardinalityType DEF Place, Total
<1>3. QED
  BY <1>1, <1>2, FS_CardinalityType DEF Total

--------------------------------------------------------------------------------
(* Paths.                                                                  *)
LEMMA RelIsPath ==
  ASSUME NEW m \in Msgs, ShaOf[m] # NoSha
  PROVE  Rel(m) \in Paths /\ PartOf[Rel(m)] \in Parts
BY PullAssumption DEF Rel

(* A fingerprint's file is the one of a message that carries it.           *)
LEMMA FirstIsNamed ==
  ASSUME fetched \subseteq Msgs, NEW s \in Mentioned
  PROVE  \E m \in fetched : ShaOf[m] = s /\ First(s) = Rel(m) /\ s # NoSha
<1>1. With(s) \subseteq Nat /\ With(s) # {}
  BY PullAssumption DEF With, Mentioned
<1>2. Min(With(s)) \in With(s)
  BY <1>1, LeastIs
<1>3. QED
  BY <1>2, PullAssumption DEF With, First, Mentioned

LEMMA FirstIsPath ==
  ASSUME fetched \subseteq Msgs, NEW s \in Mentioned
  PROVE  s \in Shas /\ First(s) \in Paths /\ PartOf[First(s)] \in Parts
BY FirstIsNamed, RelIsPath, PullAssumption DEF Mentioned


--------------------------------------------------------------------------------
(* What failing does: the pull ends, goes on to close its run, or asks     *)
(* again.                                                                  *)
Fails ==
  /\ pc' = "close" /\ tries' = 0 /\ outcome' = "failed" /\ page' = {}
  /\ UNCHANGED <<run, offset, fetched, cancelled, written, jobVars>>

Repeats(p) ==
  /\ pc' = p /\ tries' \in 0..MaxRetries /\ page' = {}
  /\ UNCHANGED <<outcome, run, offset, fetched, cancelled, written, jobVars>>

LEMMA GiveUpDoes ==
  GiveUp => (pc \in {"create", "close"} /\ EndPull) \/ (pc \notin {"create", "close"} /\ Fails)
BY DEF GiveUp, Fails

LEMMA RetryDoes ==
  ASSUME tries \in 0..MaxRetries, NEW p, Retry(p)
  PROVE  Repeats(p) \/ GiveUp
<1>1. CASE MayRetry
  <2>1. tries + 1 \in 0..MaxRetries /\ tries' = (tries + 1) % (MaxRetries + 1)
    BY <1>1, PullAssumption DEF Retry, MayRetry
  <2>2. tries' \in 0..MaxRetries
    BY <2>1, PullAssumption
  <2>3. QED
    BY <1>1, <2>2 DEF Retry, Repeats
<1>2. CASE ~MayRetry
  BY <1>2 DEF Retry
<1>3. QED
  BY <1>1, <1>2

(* The steps of the pull that only fail or repeat a request.               *)
Setback == StopBeforeCreate \/ RequestFails \/ RequestRefused \/ ClosedMeanwhile \/ DiskFails

LEMMA SetbackDoes ==
  ASSUME TypeOK, Setback
  PROVE  /\ UNCHANGED <<serverVars, folderVars, boundVars>>
         /\ \/ Asking /\ Repeats(pc)
            \/ pc \in {"create", "close"} /\ EndPull
            \/ pc \in {"ask", "record", "place", "docs"} /\ Fails
BY GiveUpDoes, RetryDoes
   DEF TypeOK, Setback, StopBeforeCreate, RequestFails, RequestRefused, ClosedMeanwhile, DiskFails,
       Asking

--------------------------------------------------------------------------------
(* Types.  A download is of a fingerprint the fetched messages name.       *)
ServerType ==
  /\ life \in [Msgs -> {"new", "stored", "trashed", "gone"}] /\ blobs \subseteq Shas
  /\ status \in [Runs -> {"none", "running", "completed", "cancelled"}]
  /\ listed \in [Runs -> SUBSET Msgs] /\ handed \in [Runs -> SUBSET Msgs]
  /\ delivered \in [Runs -> Nat]

WalkType ==
  /\ pc \in {"idle", "create", "page", "ask", "read", "record", "plan", "download",
             "place", "docs", "close"}
  /\ tries \in 0..MaxRetries /\ run \in Runs \cup {NoRun} /\ offset \in Nat
  /\ page \subseteq Msgs /\ fetched \subseteq Msgs
  /\ cancelled \in BOOLEAN /\ outcome \in {"none", "ok", "failed"} /\ written \subseteq Convs

JobType ==
  /\ job \in [Shas -> {"none", "todo", "get", "got", "done", "failed"}]
  /\ jobTries \in [Shas -> 0..MaxRetries]

FolderType ==
  /\ file \in [Paths -> Shas \cup {NoFile, "short"}]
  /\ part \in [Parts -> Shas \cup {NoFile, "short"}]
  /\ doc \in [Convs -> SUBSET Msgs]

JobsMentioned == \A s \in Shas : job[s] # "none" => s \in Mentioned

NoJobs == \A s \in Shas : job[s] = "none"

JobsLater ==
  pc \in {"idle", "create", "page", "ask", "read", "record", "plan"} => NoJobs

TypeInv ==
  /\ ServerType /\ WalkType /\ JobType /\ FolderType
  /\ JobsMentioned /\ JobsLater

LEMMA TypeParts == ServerType /\ WalkType /\ JobType /\ FolderType <=> TypeOK
BY DEF TypeOK, ServerType, WalkType, JobType, FolderType

LEMMA TypeInit == Init => TypeInv
<1> SUFFICES ASSUME Init PROVE TypeInv
  OBVIOUS
<1>1. ServerType
  BY PullAssumption DEF Init, ServerType
<1>2. 0 \in 0..MaxRetries
  BY PullAssumption
<1>3. WalkType
  BY <1>2 DEF Init, WalkType
<1>4. JobType /\ NoJobs
  BY <1>2 DEF Init, JobType, NoJobs
<1>5. FolderType
  BY DEF Init, FolderType
<1>6. QED
  BY <1>1, <1>3, <1>4, <1>5 DEF TypeInv, JobsMentioned, JobsLater, NoJobs

(* What leaves the downloads alone, and what ends them.                    *)
LEMMA SameJobs ==
  ASSUME UNCHANGED <<job, jobTries, fetched>>
  PROVE  /\ JobType => JobType'
         /\ JobsMentioned => JobsMentioned'
         /\ NoJobs => NoJobs'
BY DEF JobType, JobsMentioned, NoJobs, Mentioned, With

LEMMA EndTypes ==
  ASSUME EndPull
  PROVE  WalkType' /\ JobType' /\ JobsMentioned' /\ JobsLater'
<1>1. 0 \in 0..MaxRetries
  BY PullAssumption
<1>2. WalkType'
  BY <1>1 DEF EndPull, WalkType
<1>3. JobType' /\ NoJobs'
  BY <1>1 DEF EndPull, JobType, NoJobs
<1>4. QED
  BY <1>2, <1>3 DEF JobsMentioned, JobsLater, NoJobs

LEMMA FailTypes ==
  ASSUME WalkType, JobType, JobsMentioned, Fails
  PROVE  WalkType' /\ JobType' /\ JobsMentioned' /\ JobsLater'
<1>1. UNCHANGED <<job, jobTries, fetched>>
  BY DEF Fails, jobVars
<1>2. JobType' /\ JobsMentioned'
  BY <1>1, SameJobs
<1>3. QED
  BY <1>2, PullAssumption DEF Fails, WalkType, JobsLater

LEMMA RepeatTypes ==
  ASSUME WalkType, JobType, JobsMentioned, NEW p \in {"create", "ask", "close"}, Repeats(p),
         p = "close" \/ NoJobs
  PROVE  WalkType' /\ JobType' /\ JobsMentioned' /\ JobsLater'
<1>1. UNCHANGED <<job, jobTries, fetched>>
  BY DEF Repeats, jobVars
<1>2. JobType' /\ JobsMentioned' /\ (NoJobs => NoJobs')
  BY <1>1, SameJobs
<1>3. JobsLater'
  BY <1>2 DEF Repeats, JobsLater
<1>4. QED
  BY <1>2, <1>3 DEF Repeats, WalkType

(* A step in which neither downloads nor fetched messages change.          *)
LEMMA QuietTypes ==
  ASSUME JobType, JobsMentioned, JobsLater, WalkType', UNCHANGED <<job, jobTries, fetched>>,
         pc' \in {"idle", "create", "page", "ask", "read", "record", "plan"} =>
           pc \in {"idle", "create", "page", "ask", "read", "record", "plan"}
  PROVE  WalkType' /\ JobType' /\ JobsMentioned' /\ JobsLater'
BY SameJobs DEF JobsLater


LEMMA SameServer ==
  ServerType /\ UNCHANGED <<life, blobs, status, listed, delivered, handed>> => ServerType'
BY DEF ServerType

LEMMA SameFolder == FolderType /\ UNCHANGED folderVars => FolderType'
BY DEF FolderType, folderVars

LEMMA SetbackTypes ==
  ASSUME TypeInv, Setback PROVE TypeInv'
<1> USE DEF TypeInv
<1>1. ServerType' /\ FolderType' /\ TypeOK
  BY SetbackDoes, SameServer, SameFolder, TypeParts DEF serverVars
<1>2. CASE EndPull
  BY <1>1, <1>2, EndTypes
<1>3. CASE Fails
  BY <1>1, <1>3, FailTypes
<1>4. CASE Asking /\ Repeats(pc)
  <2>1. pc \in {"create", "ask", "close"} /\ (pc = "close" \/ NoJobs)
    BY <1>4 DEF Asking, JobsLater
  <2>2. QED
    BY <1>1, <1>4, <2>1, RepeatTypes
<1>5. QED
  BY <1>1, <1>2, <1>3, <1>4, SetbackDoes

LEMMA CreateTypes ==
  ASSUME TypeInv, StartPull \/ CreateRun PROVE TypeInv'
<1> USE DEF TypeInv
<1>1. CASE StartPull
  <2>1. ServerType' /\ FolderType'
    BY <1>1, SameServer, SameFolder DEF StartPull, serverVars
  <2>2. WalkType' /\ UNCHANGED <<job, jobTries, fetched>> /\ pc = "idle"
    BY <1>1, PullAssumption DEF StartPull, Go, WalkType, pagingVars, jobVars
  <2>3. QED
    BY <2>1, <2>2, QuietTypes
<1>2. CASE CreateRun
  <2> DEFINE e == Min(Unused)
  <2>1. e \in Runs
    BY <1>2, LeastIs, PullAssumption DEF CreateRun, Unused
  <2>2. status' \in [Runs -> {"none", "running", "completed", "cancelled"}]
    BY <1>2 DEF CreateRun, ServerType
  <2>3. listed' \in [Runs -> SUBSET Msgs]
    BY <1>2 DEF CreateRun, ServerType
  <2>4. ServerType' /\ FolderType'
    BY <1>2, <2>2, <2>3, SameFolder DEF CreateRun, ServerType
  <2>5. pc = "create" /\ NoJobs /\ tries \in 0..MaxRetries
    BY <1>2 DEF CreateRun, JobsLater, WalkType
  <2>6. CASE Retry("create")
    <3>1. Repeats("create") \/ EndPull
      BY <2>5, <2>6, RetryDoes, GiveUpDoes
    <3>2. QED
      BY <2>4, <2>5, <3>1, RepeatTypes, EndTypes
  <2>7. CASE /\ run' = e /\ Go("page")
             /\ UNCHANGED <<pagingVars, cancelled, outcome, jobVars, written>>
    <3>1. WalkType' /\ UNCHANGED <<job, jobTries, fetched>>
      BY <2>1, <2>7, PullAssumption DEF Go, WalkType, pagingVars, jobVars
    <3>2. QED
      BY <2>4, <2>5, <3>1, QuietTypes
  <2>8. QED
    BY <1>2, <2>6, <2>7 DEF CreateRun
<1>3. QED
  BY <1>1, <1>2

LEMMA PagingTypes ==
  ASSUME TypeInv, NextPage \/ CheckRunning \/ ReadPage \/ HandOver PROVE TypeInv'
<1> USE DEF TypeInv
<1>1. CASE NextPage \/ CheckRunning \/ ReadPage
  <2>1. ServerType' /\ FolderType'
    BY <1>1, SameServer, SameFolder DEF NextPage, CheckRunning, ReadPage, serverVars, folderVars
  <2>2. CASE Fails
    BY <2>1, <2>2, FailTypes
  <2>3. CASE ~Fails
    <3>1. UNCHANGED <<job, jobTries, fetched>> /\ pc \in {"page", "ask", "read"}
      BY <1>1, <2>3, GiveUpDoes DEF NextPage, CheckRunning, ReadPage, memory, pagingVars, jobVars
    <3>2. CASE NextPage \/ CheckRunning
      <4>1. /\ UNCHANGED <<run, offset, page, fetched, cancelled, outcome, written>>
            /\ pc' \in {"ask", "read"} /\ tries' \in {0, tries}
        BY <2>3, <3>1, <3>2, GiveUpDoes DEF NextPage, CheckRunning, Go, memory, pagingVars
      <4>2. 0 \in 0..MaxRetries
        BY PullAssumption
      <4>3. WalkType'
        BY <4>1, <4>2 DEF WalkType
      <4>4. QED
        BY <2>1, <3>1, <4>3, QuietTypes
    <3>3. CASE ReadPage
      <4>1. page' \subseteq Msgs
        BY <3>3 DEF ReadPage, Stored
      <4>2. WalkType'
        BY <3>3, <4>1 DEF ReadPage, WalkType
      <4>3. QED
        BY <2>1, <3>1, <4>2, QuietTypes
    <3>4. QED
      BY <1>1, <3>2, <3>3
  <2>4. QED
    BY <2>2, <2>3
<1>2. CASE HandOver
  <2>1. pc = "record" /\ run \in Runs \cup {NoRun} /\ NoJobs /\ tries \in 0..MaxRetries
    BY <1>2 DEF HandOver, WalkType, JobsLater
  <2>2. handed' \in [Runs -> SUBSET Msgs]
    BY <1>2 DEF HandOver, ServerType, WalkType
  <2>3. delivered' \in [Runs -> Nat]
    <3>1. ASSUME NEW e \in Runs
          PROVE  Reached(e, offset) \in Nat /\ Max({delivered[e], Reached(e, offset)}) \in Nat
      <4>1. Total(e) \in Nat /\ offset + Limit \in Nat /\ delivered[e] \in Nat
        BY PlacesCount, PullAssumption DEF ServerType, WalkType
      <4>2. Reached(e, offset) \in Nat
        BY <4>1, TwoMost DEF Reached
      <4>3. QED
        BY <4>1, <4>2, TwoMost
    <3>2. QED
      BY <1>2, <3>1 DEF HandOver, ServerType
  <2>4. ServerType' /\ FolderType'
    BY <1>2, <2>2, <2>3, SameFolder DEF HandOver, ServerType
  <2>5. CASE Retry("ask")
    <3>1. Repeats("ask") \/ Fails
      BY <2>1, <2>5, RetryDoes, GiveUpDoes
    <3>2. QED
      BY <2>1, <2>4, <3>1, RepeatTypes, FailTypes
  <2>6. CASE /\ fetched' = fetched \cup page /\ page' = {}
             /\ IF MorePages(run, offset)
                THEN offset' = offset + Limit /\ Go("page")
                ELSE offset' = 0 /\ Go("plan")
             /\ UNCHANGED <<run, cancelled, outcome, jobVars, written>>
    <3>1. WalkType'
      BY <2>6, PullAssumption DEF WalkType, Go
    <3>2. JobType' /\ NoJobs'
      BY <2>1, <2>6 DEF JobType, NoJobs, jobVars
    <3>3. QED
      BY <2>4, <3>1, <3>2 DEF JobsMentioned, JobsLater, NoJobs
  <2>7. QED
    BY <1>2, <2>5, <2>6 DEF HandOver
<1>3. QED
  BY <1>1, <1>2


(* One step of one download.                                               *)
Download(s) == TakeJob(s) \/ Get(s) \/ GetBreaks(s) \/ GetRefused(s) \/ Rename(s)

DownloadEnds == {"get", "got", "done", "failed"}

LEMMA DownloadMoves ==
  ASSUME NEW s, Download(s)
  PROVE  /\ \E from \in {"todo", "get", "got"}, to \in DownloadEnds : JobStep(s, from, to)
         /\ doc' = doc
<1>1. \E from \in {"todo", "get", "got"}, to \in DownloadEnds : JobStep(s, from, to)
  BY DEF Download, TakeJob, Get, GetBreaks, GetRefused, Rename, DownloadEnds
<1>2. QED
  BY <1>1 DEF JobStep

LEMMA JobStepTypes ==
  ASSUME TypeInv, NEW s \in Shas, NEW from \in {"todo", "get", "got"}, NEW to \in DownloadEnds,
         JobStep(s, from, to)
  PROVE  /\ ServerType' /\ WalkType' /\ JobsMentioned' /\ JobsLater'
         /\ job' \in [Shas -> {"none", "todo", "get", "got", "done", "failed"}]
         /\ s \in Mentioned
<1> USE DEF TypeInv
<1>1. ServerType'
  BY SameServer DEF JobStep, serverVars
<1>2. /\ UNCHANGED <<pc, tries, run, offset, page, fetched, cancelled, outcome, written>>
      /\ pc = "download"
  BY DEF JobStep, pagingVars
<1>3. WalkType'
  BY <1>2 DEF WalkType
<1>4. job[s] = from /\ job' = [job EXCEPT ![s] = to]
  BY DEF JobStep
<1>5. job' \in [Shas -> {"none", "todo", "get", "got", "done", "failed"}]
  BY <1>4 DEF JobType, DownloadEnds
<1>6. s \in Mentioned /\ Mentioned' = Mentioned
  BY <1>2, <1>4 DEF JobsMentioned, Mentioned, With
<1>7. JobsMentioned'
  BY <1>4, <1>6 DEF JobType, JobsMentioned
<1>8. QED
  BY <1>1, <1>2, <1>3, <1>5, <1>6, <1>7 DEF JobsLater

LEMMA DownloadTypes ==
  ASSUME TypeInv, NEW s \in Shas, Download(s) PROVE TypeInv'
<1> USE DEF TypeInv
<1>1. /\ ServerType' /\ WalkType' /\ JobsMentioned' /\ JobsLater'
      /\ job' \in [Shas -> {"none", "todo", "get", "got", "done", "failed"}]
      /\ s \in Mentioned /\ doc' = doc
  BY DownloadMoves, JobStepTypes
<1>2. First(s) \in Paths /\ PartOf[First(s)] \in Parts
  BY <1>1, FirstIsPath DEF WalkType
<1>3. jobTries' \in [Shas -> 0..MaxRetries]
  <2>1. jobTries[s] < MaxRetries => (jobTries[s] + 1) % (MaxRetries + 1) \in 0..MaxRetries
    BY PullAssumption DEF JobType
  <2>2. jobTries[s] = MaxRetries => (jobTries[s] + 1) % (MaxRetries + 1) \in 0..MaxRetries
    BY PullAssumption
  <2>3. (jobTries[s] + 1) % (MaxRetries + 1) \in 0..MaxRetries
    BY <2>1, <2>2, PullAssumption DEF JobType
  <2>4. QED
    BY <2>3 DEF Download, TakeJob, Get, GetBreaks, GetRefused, Rename, JobType
<1>4. part' \in [Parts -> Shas \cup {NoFile, "short"}]
  BY <1>2 DEF Download, TakeJob, Get, GetBreaks, GetRefused, TidyUp, Rename, FolderType
<1>5. file' \in [Paths -> Shas \cup {NoFile, "short"}]
  BY <1>2 DEF Download, TakeJob, Get, GetBreaks, GetRefused, Rename, FolderType
<1>6. QED
  BY <1>1, <1>3, <1>4, <1>5 DEF JobType, FolderType

(* The other steps between the pages and the end.                          *)
LEMMA FolderTypes ==
  ASSUME TypeInv,
         PlanJobs \/ JobsEnd \/ PlaceOther \/ Placed \/ WriteConversation \/ Finish
  PROVE  TypeInv'
<1> USE DEF TypeInv
<1>1. ServerType'
  BY SameServer DEF PlanJobs, JobsEnd, PlaceOther, Placed, WriteConversation, Finish, serverVars
<1>2. CASE PlanJobs
  <2>1. WalkType' /\ FolderType' /\ pc' = "download"
    BY <1>2, PullAssumption, SameFolder DEF PlanJobs, Go, WalkType, pagingVars
  <2>2. job' = [s \in Shas |-> IF s \in Mentioned /\ ~IsFile(First(s)) THEN "todo" ELSE "none"]
    BY <1>2 DEF PlanJobs
  <2>3. JobType'
    BY <1>2, <2>2 DEF PlanJobs, JobType
  <2>4. Mentioned' = Mentioned
    BY <1>2 DEF PlanJobs, Mentioned, With, pagingVars
  <2>5. QED
    BY <1>1, <2>1, <2>2, <2>3, <2>4 DEF JobsMentioned, JobsLater
<1>3. CASE JobsEnd
  <2>1. FolderType'
    BY <1>3, SameFolder DEF JobsEnd
  <2>2. CASE Fails
    BY <1>1, <2>1, <2>2, FailTypes
  <2>3. CASE ~Fails
    <3>1. Go("place") /\ UNCHANGED <<memory, outcome>> /\ pc = "download"
      BY <1>3, <2>3, GiveUpDoes DEF JobsEnd
    <3>2. UNCHANGED <<run, offset, page, fetched, cancelled, outcome, written, job, jobTries>>
      BY <3>1 DEF memory, pagingVars, jobVars
    <3>3. WalkType' /\ pc' = "place"
      BY <3>1, <3>2, PullAssumption DEF Go, WalkType
    <3>4. QED
      BY <1>1, <2>1, <3>2, <3>3, QuietTypes
  <2>4. QED
    BY <2>2, <2>3
<1>4. CASE PlaceOther
  <2>1. PICK s \in Mentioned : \E p \in ToPlace(s) : file' = [file EXCEPT ![p] = file[First(s)]]
    BY <1>4 DEF PlaceOther
  <2>2. First(s) \in Paths
    BY FirstIsPath DEF WalkType
  <2>3. FolderType'
    BY <1>4, <2>1, <2>2 DEF PlaceOther, FolderType
  <2>4. WalkType' /\ UNCHANGED <<job, jobTries, fetched>> /\ pc' = pc
    BY <1>4 DEF PlaceOther, WalkType, pagingVars, jobVars
  <2>5. QED
    BY <1>1, <2>3, <2>4, QuietTypes
<1>5. CASE Placed
  <2>1. FolderType'
    BY <1>5, SameFolder DEF Placed
  <2>2. WalkType' /\ UNCHANGED <<job, jobTries, fetched>> /\ pc' = "docs"
    BY <1>5, PullAssumption DEF Placed, Go, WalkType, pagingVars, jobVars
  <2>3. QED
    BY <1>1, <2>1, <2>2, QuietTypes
<1>6. CASE WriteConversation
  <2>1. PICK c \in ToWrite :
          doc' = [doc EXCEPT ![c] = {m \in fetched : ConvOf[m] = c}] /\ written' = written \cup {c}
    BY <1>6 DEF WriteConversation
  <2>2. c \in Convs /\ fetched \subseteq Msgs
    BY PullAssumption DEF ToWrite, WalkType
  <2>3. FolderType'
    BY <1>6, <2>1, <2>2 DEF WriteConversation, FolderType
  <2>4. WalkType' /\ UNCHANGED <<job, jobTries, fetched>> /\ pc' = pc
    BY <1>6, <2>1, <2>2 DEF WriteConversation, WalkType, pagingVars, jobVars
  <2>5. QED
    BY <1>1, <2>3, <2>4, QuietTypes
<1>7. CASE Finish
  <2>1. FolderType'
    BY <1>7, SameFolder DEF Finish
  <2>2. WalkType' /\ UNCHANGED <<job, jobTries, fetched>> /\ pc' = "close"
    BY <1>7, PullAssumption DEF Finish, Go, WalkType, pagingVars, jobVars
  <2>3. QED
    BY <1>1, <2>1, <2>2, QuietTypes
<1>8. QED
  BY <1>2, <1>3, <1>4, <1>5, <1>6, <1>7


(* Closing, and what else happens.                                         *)
AccountStep ==
  \/ \E m \in Msgs : Import(m) \/ Trash(m) \/ Restore(m) \/ Delete(m)
  \/ \E s \in Shas : RemoveBlob(s)

(* What the account's changes leave alone.                                 *)
LEMMA AccountDoes ==
  ASSUME AccountStep
  PROVE  /\ UNCHANGED <<status, listed, delivered, handed, pc, tries, run, offset, page,
                        fetched, cancelled, outcome, written, job, jobTries, file, part, doc>>
         /\ \/ life' = life
            \/ \E m \in Msgs, to \in {"stored", "trashed", "gone"} :
                 /\ life' = [life EXCEPT ![m] = to]
                 /\ to = "stored" \/ life[m] \in {"stored", "trashed"}
<1>1. CASE \E s \in Shas : RemoveBlob(s)
  BY <1>1 DEF RemoveBlob, clientVars, pagingVars, jobVars, folderVars
<1>2. ASSUME NEW m \in Msgs, Import(m) \/ Trash(m) \/ Restore(m) \/ Delete(m)
      PROVE  /\ UNCHANGED <<status, listed, delivered, handed, pc, tries, run, offset, page,
                            fetched, cancelled, outcome, written, job, jobTries, file, part, doc>>
             /\ \E to \in {"stored", "trashed", "gone"} :
                  /\ life' = [life EXCEPT ![m] = to]
                  /\ to = "stored" \/ life[m] \in {"stored", "trashed"}
  BY <1>2 DEF Import, Trash, Restore, Delete, Becomes, clientVars, pagingVars, jobVars, folderVars
<1>3. QED
  BY <1>1, <1>2 DEF AccountStep

LEMMA OutsideTypes ==
  ASSUME TypeInv, CloseRun \/ Outside \/ UNCHANGED vars PROVE TypeInv'
<1> USE DEF TypeInv
<1>1. CASE CloseRun
  <2>1. status' \in [Runs -> {"none", "running", "completed", "cancelled"}]
    BY <1>1 DEF CloseRun, ServerType, CloseAs
  <2>2. ServerType' /\ FolderType'
    BY <1>1, <2>1, SameFolder DEF CloseRun, ServerType
  <2>3. pc = "close" /\ tries \in 0..MaxRetries
    BY <1>1 DEF CloseRun, WalkType
  <2>4. Repeats("close") \/ EndPull
    BY <1>1, <2>3, RetryDoes, GiveUpDoes DEF CloseRun
  <2>5. QED
    BY <2>2, <2>4, RepeatTypes, EndTypes
<1>2. CASE AccountStep
  <2>1. blobs' \subseteq Shas
    BY <1>2, PullAssumption
       DEF AccountStep, Import, Trash, Restore, Delete, RemoveBlob, ServerType
  <2>2. ServerType'
    BY <1>2, <2>1, AccountDoes DEF ServerType
  <2>3. WalkType' /\ FolderType' /\ UNCHANGED <<job, jobTries, fetched, pc>>
    BY <1>2, AccountDoes DEF WalkType, FolderType
  <2>4. QED
    BY <2>2, <2>3, QuietTypes
<1>3. ASSUME NEW e \in Runs, NEW s \in {"completed", "cancelled"}, CloseElsewhere(e, s)
      PROVE  TypeInv'
  <2>1. ServerType'
    BY <1>3 DEF CloseElsewhere, ServerType
  <2>2. WalkType' /\ FolderType' /\ UNCHANGED <<job, jobTries, fetched, pc>>
    BY <1>3 DEF CloseElsewhere, WalkType, FolderType, clientVars, pagingVars, jobVars, folderVars
  <2>3. QED
    BY <2>1, <2>2, QuietTypes
<1>4. CASE Cancel
  <2>1. ServerType' /\ FolderType'
    BY <1>4, SameServer, SameFolder DEF Cancel, serverVars
  <2>2. WalkType' /\ UNCHANGED <<job, jobTries, fetched, pc>>
    BY <1>4 DEF Cancel, WalkType, clientVars, pagingVars, jobVars
  <2>3. QED
    BY <2>1, <2>2, QuietTypes
<1>5. CASE Crash
  <2>1. ServerType' /\ EndPull
    BY <1>5, SameServer DEF Crash, serverVars
  <2>2. FolderType'
    BY <1>5 DEF Crash, FolderType
  <2>3. QED
    BY <2>1, <2>2, EndTypes
<1>6. ASSUME NEW p \in Paths, LoseFile(p) PROVE TypeInv'
  <2>1. ServerType'
    BY <1>6, SameServer DEF LoseFile, serverVars
  <2>2. FolderType'
    BY <1>6 DEF LoseFile, FolderType
  <2>3. WalkType' /\ UNCHANGED <<job, jobTries, fetched, pc>>
    BY <1>6 DEF LoseFile, WalkType, clientVars, pagingVars, jobVars
  <2>4. QED
    BY <2>1, <2>2, <2>3, QuietTypes
<1>7. CASE UNCHANGED vars
  <2>1. ServerType' /\ FolderType'
    BY <1>7, SameServer, SameFolder DEF vars, serverVars
  <2>2. WalkType' /\ UNCHANGED <<job, jobTries, fetched, pc>>
    BY <1>7 DEF vars, WalkType, memory, pagingVars, jobVars
  <2>3. QED
    BY <2>1, <2>2, QuietTypes
<1>8. QED
  BY <1>1, <1>2, <1>3, <1>4, <1>5, <1>6, <1>7 DEF Outside, AccountStep

(* Every step of the specification is one of these.                        *)
LEMMA StepCases ==
  ASSUME [Next]_vars
  PROVE  \/ Setback
         \/ StartPull \/ CreateRun
         \/ NextPage \/ CheckRunning \/ ReadPage \/ HandOver
         \/ PlanJobs \/ JobsEnd \/ PlaceOther \/ Placed \/ WriteConversation \/ Finish
         \/ \E s \in Shas : Download(s)
         \/ CloseRun \/ Outside \/ UNCHANGED vars
BY DEF Next, Step, Setback, Download

LEMMA TypeStep == TypeInv /\ [Next]_vars => TypeInv'
BY StepCases, SetbackTypes, CreateTypes, PagingTypes, FolderTypes, DownloadTypes, OutsideTypes

(* Type correctness, for any messages, fingerprints, paths and bounds.     *)
THEOREM TypeCorrect == Spec => []TypeOK
<1>1. TypeInv => TypeOK
  BY TypeParts DEF TypeInv
<1>2. QED
  BY <1>1, TypeInit, TypeStep, PTL DEF Spec


--------------------------------------------------------------------------------
(* Export Runs.  The pull's run was made, and a run that was not made has  *)
(* listed nothing and handed nothing over; what a run lists was stored.    *)
RunMade ==
  /\ pc \notin {"idle", "create"} => run \in Runs
  /\ run \in Runs => status[run] # "none"
  /\ pc \in {"idle", "create"} => run = NoRun /\ fetched = {} /\ offset = 0

UnmadeEmpty == \A e \in Runs : status[e] = "none" => handed[e] = {}

ListedWasStored == \A e \in Runs : \A m \in listed[e] : life[m] # "new"

RunInv == RunMade /\ UnmadeEmpty /\ ListedWasStored

LEMMA RunInit == Init => RunInv
BY PullAssumption DEF Init, RunInv, RunMade, UnmadeEmpty, ListedWasStored

(* A run that was made stays made.                                         *)
LEMMA MadeStays ==
  ASSUME TypeInv, [Next]_vars, NEW e \in Runs, status[e] # "none"
  PROVE  status'[e] # "none" /\ listed'[e] = listed[e]
<1> USE DEF TypeInv, ServerType
<1>1. CASE Setback
  BY <1>1, SetbackDoes, TypeParts DEF serverVars
<1>2. CASE CreateRun
  <2>1. Unused # {} /\ Min(Unused) \in Unused
    BY <1>2, LeastIs, PullAssumption DEF CreateRun, Unused
  <2>2. e # Min(Unused)
    BY <2>1 DEF Unused
  <2>3. QED
    BY <1>2, <2>2 DEF CreateRun
<1>3. CASE StartPull \/ NextPage \/ CheckRunning \/ ReadPage \/ HandOver
  BY <1>3 DEF StartPull, NextPage, CheckRunning, ReadPage, HandOver, serverVars
<1>4. CASE PlanJobs \/ JobsEnd \/ PlaceOther \/ Placed \/ WriteConversation \/ Finish
  BY <1>4 DEF PlanJobs, JobsEnd, PlaceOther, Placed, WriteConversation, Finish, serverVars
<1>5. ASSUME NEW s \in Shas, Download(s) PROVE status' = status /\ listed' = listed
  BY <1>5, DownloadMoves DEF JobStep, serverVars
<1>6. CASE CloseRun
  BY <1>6 DEF CloseRun, CloseAs
<1>7. CASE AccountStep
  BY <1>7, AccountDoes
<1>8. CASE Outside
  BY <1>7, <1>8 DEF Outside, AccountStep, CloseElsewhere, Cancel, Crash, LoseFile, serverVars
<1>9. CASE UNCHANGED vars
  BY <1>9 DEF vars, serverVars
<1>10. QED
  BY <1>1, <1>2, <1>3, <1>4, <1>5, <1>6, <1>8, <1>9, StepCases

(* Which runs are made, list and hand over what.                           *)
LEMMA RunsMove ==
  ASSUME TypeInv, RunInv, [Next]_vars
  PROVE  UnmadeEmpty' /\ ListedWasStored'
<1> USE DEF TypeInv, ServerType, RunInv, UnmadeEmpty, ListedWasStored
<1>1. CASE UNCHANGED <<status, listed, handed, life>>
  BY <1>1
<1>2. CASE Setback
  BY <1>1, <1>2, SetbackDoes, TypeParts DEF serverVars
<1>3. CASE CreateRun
  <2> DEFINE e == Min(Unused)
  <2>1. e \in Unused
    BY <1>3, LeastIs, PullAssumption DEF CreateRun, Unused
  <2>2. /\ status' = [status EXCEPT ![e] = "running"]
        /\ listed' = [listed EXCEPT ![e] = {m \in Msgs : life[m] = "stored"}]
        /\ handed' = handed /\ life' = life
    BY <1>3 DEF CreateRun
  <2> HIDE DEF e
  <2>3. QED
    BY <2>1, <2>2 DEF Unused
<1>4. CASE HandOver
  <2>1. status[run] = "running" /\ handed' = [handed EXCEPT ![run] = @ \cup page]
        /\ UNCHANGED <<status, listed, life>>
    BY <1>4 DEF HandOver, StillRunning
  <2>2. QED
    BY <2>1
<1>5. CASE StartPull \/ NextPage \/ CheckRunning \/ ReadPage
  BY <1>1, <1>5 DEF StartPull, NextPage, CheckRunning, ReadPage, serverVars
<1>6. CASE PlanJobs \/ JobsEnd \/ PlaceOther \/ Placed \/ WriteConversation \/ Finish
  BY <1>1, <1>6 DEF PlanJobs, JobsEnd, PlaceOther, Placed, WriteConversation, Finish, serverVars
<1>7. ASSUME NEW s \in Shas, Download(s) PROVE UNCHANGED <<status, listed, handed, life>>
  BY <1>7, DownloadMoves DEF JobStep, serverVars
<1>8. CASE CloseRun
  BY <1>8 DEF CloseRun, CloseAs
<1>9. CASE AccountStep
  <2>1. UNCHANGED <<status, listed, handed>> /\ \A m \in Msgs : life[m] # "new" => life'[m] # "new"
    BY <1>9, AccountDoes
  <2>2. QED
    BY <2>1
<1>10. ASSUME NEW e \in Runs, NEW s \in {"completed", "cancelled"}, CloseElsewhere(e, s)
       PROVE  UnmadeEmpty' /\ ListedWasStored'
  BY <1>10 DEF CloseElsewhere
<1>11. CASE Cancel \/ Crash \/ \E p \in Paths : LoseFile(p)
  BY <1>1, <1>11 DEF Cancel, Crash, LoseFile, serverVars
<1>12. CASE UNCHANGED vars
  BY <1>1, <1>12 DEF vars, serverVars
<1>13. QED
  BY <1>1, <1>2, <1>3, <1>4, <1>5, <1>6, <1>7, <1>8, <1>9, <1>10, <1>11, <1>12, StepCases
     DEF Outside, AccountStep

(* The pull's own run.                                                     *)
LEMMA OwnRun ==
  ASSUME TypeInv, RunInv, [Next]_vars
  PROVE  RunMade'
<1> USE DEF TypeInv, RunInv
<1>1. CASE EndPull
  BY <1>1, PullAssumption DEF EndPull, RunMade
<1>2. CASE Fails /\ pc \notin {"idle", "create"}
  BY <1>2, MadeStays, PullAssumption DEF Fails, RunMade
<1>3. ASSUME UNCHANGED <<run, fetched, offset>>, pc' = pc
      PROVE  RunMade'
  BY <1>3, MadeStays DEF RunMade
<1>4. ASSUME run' = run, pc \notin {"idle", "create"}, pc' \notin {"idle", "create"}
      PROVE  RunMade'
  BY <1>4, MadeStays DEF RunMade
<1>5. CASE Setback
  BY <1>1, <1>2, <1>3, <1>5, SetbackDoes, TypeParts DEF Repeats
<1>6. CASE StartPull
  BY <1>6, PullAssumption DEF StartPull, Go, RunMade, pagingVars
<1>7. CASE CreateRun
  <2>1. Min(Unused) \in Runs /\ pc = "create" /\ tries \in 0..MaxRetries
    BY <1>7, LeastIs, PullAssumption DEF CreateRun, Unused, WalkType
  <2>2. CASE Retry("create")
    <3>1. Repeats("create") \/ EndPull
      BY <2>1, <2>2, RetryDoes, GiveUpDoes
    <3>2. QED
      BY <1>1, <1>3, <2>1, <3>1 DEF Repeats
  <2>3. CASE run' = Min(Unused) /\ Go("page")
    <3>1. status'[Min(Unused)] = "running"
      BY <1>7, <2>1 DEF CreateRun, ServerType
    <3>2. QED
      BY <2>1, <2>3, <3>1 DEF Go, RunMade
  <2>4. QED
    BY <1>7, <2>2, <2>3 DEF CreateRun
<1>8. CASE NextPage \/ CheckRunning \/ ReadPage
  <2>1. CASE Fails
    BY <1>2, <1>8, <2>1 DEF NextPage, CheckRunning, ReadPage
  <2>2. CASE ~Fails
    BY <1>4, <1>8, <2>2, GiveUpDoes DEF NextPage, CheckRunning, ReadPage, Go, memory
  <2>3. QED
    BY <2>1, <2>2
<1>9. CASE HandOver
  <2>1. pc = "record" /\ tries \in 0..MaxRetries
    BY <1>9 DEF HandOver, WalkType
  <2>2. CASE Retry("ask")
    <3>1. Repeats("ask") \/ Fails
      BY <2>1, <2>2, RetryDoes, GiveUpDoes
    <3>2. QED
      BY <1>2, <1>4, <2>1, <3>1 DEF Repeats
  <2>3. CASE run' = run /\ (Go("page") \/ Go("plan"))
    BY <1>4, <2>1, <2>3 DEF Go
  <2>4. QED
    BY <1>9, <2>2, <2>3 DEF HandOver
<1>10. CASE PlanJobs \/ PlaceOther \/ Placed \/ WriteConversation \/ Finish
  BY <1>4, <1>10 DEF PlanJobs, PlaceOther, Placed, WriteConversation, Finish, Go
<1>11. CASE JobsEnd
  <2>1. pc = "download" /\ (Fails \/ (Go("place") /\ run' = run))
    BY <1>11, GiveUpDoes DEF JobsEnd, memory
  <2>2. QED
    BY <1>2, <1>4, <2>1 DEF Go
<1>12. ASSUME NEW s \in Shas, Download(s) PROVE RunMade'
  BY <1>3, <1>12, DownloadMoves DEF JobStep, pagingVars
<1>13. CASE CloseRun
  <2>1. Repeats("close") \/ EndPull
    BY <1>13, RetryDoes, GiveUpDoes DEF CloseRun, WalkType
  <2>2. QED
    BY <1>1, <1>3, <1>13, <2>1 DEF CloseRun, Repeats
<1>14. CASE AccountStep
  BY <1>3, <1>14, AccountDoes
<1>15. CASE Cancel \/ UNCHANGED vars
  BY <1>3, <1>15 DEF Cancel, vars, memory, clientVars, pagingVars
<1>16. ASSUME NEW e \in Runs, NEW s, CloseElsewhere(e, s) PROVE RunMade'
  BY <1>3, <1>16 DEF CloseElsewhere, clientVars, pagingVars
<1>17. ASSUME NEW p \in Paths, LoseFile(p) PROVE RunMade'
  BY <1>3, <1>17 DEF LoseFile, clientVars, pagingVars
<1>18. CASE Crash
  BY <1>1, <1>18 DEF Crash
<1>19. QED
  BY <1>5, <1>6, <1>7, <1>8, <1>9, <1>10, <1>11, <1>12, <1>13, <1>14, <1>15, <1>16, <1>17,
     <1>18, StepCases DEF Outside, AccountStep

LEMMA RunStep == TypeInv /\ RunInv /\ [Next]_vars => RunInv'
BY RunsMove, OwnRun DEF RunInv


--------------------------------------------------------------------------------
(* The record of an export.  The page that is about to be handed over lies *)
(* on the places the record will then say were read.                       *)
PageListed == pc = "record" => page \subseteq OnPage(run, offset)

RecordInv == NothingUnrecorded /\ PageListed

LEMMA RecordInit == Init => RecordInv
BY DEF Init, RecordInv, NothingUnrecorded, PageListed

(* Only an answer hands over and records.                                  *)
LEMMA OnlyAnswersRecord ==
  ASSUME TypeInv, [Next]_vars
  PROVE  HandOver \/ UNCHANGED <<handed, delivered>>
<1>1. CASE Setback
  BY <1>1, SetbackDoes, TypeParts DEF TypeInv, serverVars
<1>2. CASE StartPull \/ CreateRun \/ NextPage \/ CheckRunning \/ ReadPage
  BY <1>2 DEF StartPull, CreateRun, NextPage, CheckRunning, ReadPage, serverVars
<1>3. CASE PlanJobs \/ JobsEnd \/ PlaceOther \/ Placed \/ WriteConversation \/ Finish
  BY <1>3 DEF PlanJobs, JobsEnd, PlaceOther, Placed, WriteConversation, Finish, serverVars
<1>4. ASSUME NEW s \in Shas, Download(s) PROVE UNCHANGED <<handed, delivered>>
  BY <1>4, DownloadMoves DEF JobStep, serverVars
<1>5. CASE AccountStep
  BY <1>5, AccountDoes
<1>6. CASE CloseRun \/ Outside
  BY <1>5, <1>6 DEF CloseRun, Outside, AccountStep, CloseElsewhere, Cancel, Crash, LoseFile,
                    serverVars
<1>7. CASE UNCHANGED vars
  BY <1>7 DEF vars, serverVars
<1>8. QED
  BY <1>1, <1>2, <1>3, <1>4, <1>6, <1>7, StepCases

(* What was handed over stays listed, each message in its place.           *)
LEMMA HandedStays ==
  ASSUME TypeInv, RunInv, NothingUnrecorded, [Next]_vars,
         NEW e \in Runs, NEW m \in handed[e]
  PROVE  m \in listed'[e] /\ Place(e, m)' = Place(e, m)
<1>1. listed'[e] = listed[e]
  BY MadeStays DEF RunInv, UnmadeEmpty
<1>2. QED
  BY <1>1 DEF NothingUnrecorded, Place

(* record_delivered takes in the page that is handed over with it.         *)
LEMMA AnswerRecords ==
  ASSUME TypeInv, RunInv, RecordInv, HandOver
  PROVE  NothingUnrecorded'
<1> USE DEF TypeInv, ServerType, WalkType
<1>1. /\ run \in Runs /\ status[run] = "running" /\ listed' = listed
      /\ delivered' = [delivered EXCEPT ![run] = Max({@, Reached(run, offset)})]
      /\ handed' = [handed EXCEPT ![run] = @ \cup page]
      /\ page \subseteq OnPage(run, offset)
  BY DEF HandOver, StillRunning, RunInv, RunMade, RecordInv, PageListed
<1>2. \A e, m : Place(e, m)' = Place(e, m)
  BY <1>1 DEF Place
<1>3. ASSUME NEW m \in page PROVE m \in listed[run] /\ Place(run, m) <= Reached(run, offset)
  <2>1. m \in listed[run] /\ Place(run, m) <= offset + Limit
    BY <1>1 DEF OnPage
  <2>2. Place(run, m) <= Total(run)
    BY <1>1, PlacesCount
  <2>3. Total(run) \in Nat /\ offset + Limit \in Nat
    BY <1>1, PlacesCount, PullAssumption
  <2>4. Reached(run, offset) \in {offset + Limit, Total(run)}
    BY <2>3, TwoMost DEF Reached
  <2>5. QED
    BY <2>1, <2>2, <2>4
<1>4. /\ delivered'[run] \in Nat /\ delivered[run] \in Nat
      /\ delivered[run] <= delivered'[run] /\ Reached(run, offset) <= delivered'[run]
      /\ Reached(run, offset) \in Nat
  <2>1. Total(run) \in Nat /\ offset + Limit \in Nat /\ delivered[run] \in Nat
    BY <1>1, PlacesCount, PullAssumption
  <2>2. Reached(run, offset) \in Nat
    BY <2>1, TwoMost DEF Reached
  <2>3. delivered'[run] = Max({delivered[run], Reached(run, offset)})
    BY <1>1
  <2>4. QED
    BY <2>1, <2>2, <2>3, TwoMost
<1>5. ASSUME NEW e \in Runs, NEW m \in handed'[e]
      PROVE  m \in listed[e] /\ Place(e, m) <= delivered'[e]
  <2>1. Place(e, m) \in Nat
    BY PlacesCount
  <2>2. CASE m \in handed[e]
    <3>1. m \in listed[e] /\ Place(e, m) <= delivered[e]
      BY <2>2 DEF RecordInv, NothingUnrecorded
    <3>2. delivered[e] \in Nat /\ delivered[e] <= delivered'[e] /\ delivered'[e] \in Nat
      BY <1>1, <1>4
    <3>3. QED
      BY <2>1, <3>1, <3>2
  <2>3. CASE m \notin handed[e]
    <3>1. e = run /\ m \in page
      BY <1>1, <1>5, <2>3
    <3>2. QED
      BY <1>3, <1>4, <2>1, <3>1
  <2>4. QED
    BY <2>2, <2>3
<1>6. QED
  BY <1>1, <1>2, <1>5 DEF NothingUnrecorded

(* A page waits to be handed over only when it was just read, and nothing  *)
(* that happens meanwhile moves a place.                                   *)
LEMMA ToRecord ==
  ASSUME TypeInv, [Next]_vars, pc' = "record"
  PROVE  ReadPage \/ (pc = "record" /\ UNCHANGED <<page, run, offset, fetched>>)
<1>1. CASE Setback
  BY <1>1, SetbackDoes, TypeParts DEF TypeInv, Asking, EndPull, Fails, Repeats
<1>2. CASE StartPull \/ NextPage \/ CheckRunning \/ CreateRun \/ HandOver
  <2>1. ~Fails /\ ~EndPull /\ ~Repeats("create") /\ ~Repeats("ask")
    BY DEF Fails, EndPull, Repeats
  <2>2. ~GiveUp
    BY <2>1, GiveUpDoes
  <2>3. ~Retry("create") /\ ~Retry("ask")
    BY <2>1, <2>2, RetryDoes DEF TypeInv, WalkType
  <2>4. QED
    BY <1>2, <2>2, <2>3 DEF StartPull, NextPage, CheckRunning, CreateRun, HandOver, Go
<1>3. CASE PlanJobs \/ Placed \/ Finish
  BY <1>3 DEF PlanJobs, Placed, Finish, Go
<1>4. CASE JobsEnd
  BY <1>4, GiveUpDoes DEF JobsEnd, Go, Fails, EndPull
<1>5. CASE PlaceOther \/ WriteConversation
  BY <1>5 DEF PlaceOther, WriteConversation
<1>6. ASSUME NEW s \in Shas, Download(s) PROVE FALSE
  BY <1>6, DownloadMoves DEF JobStep
<1>7. CASE CloseRun
  <2>1. Repeats("close") \/ EndPull \/ Fails
    BY <1>7, RetryDoes, GiveUpDoes DEF CloseRun, TypeInv, WalkType
  <2>2. QED
    BY <2>1 DEF Repeats, EndPull, Fails
<1>8. CASE AccountStep
  BY <1>8, AccountDoes
<1>9. CASE Outside
  BY <1>8, <1>9 DEF Outside, AccountStep, CloseElsewhere, Cancel, Crash, LoseFile, EndPull,
                    clientVars, pagingVars
<1>10. CASE UNCHANGED vars
  BY <1>10 DEF vars, memory, pagingVars
<1>11. QED
  BY <1>1, <1>2, <1>3, <1>4, <1>5, <1>6, <1>7, <1>9, <1>10, StepCases

LEMMA PageStays ==
  ASSUME TypeInv, RunInv, PageListed, [Next]_vars
  PROVE  PageListed'
<1> SUFFICES ASSUME pc' = "record" PROVE page' \subseteq OnPage(run, offset)'
  BY DEF PageListed
<1>1. CASE ReadPage
  <2>1. UNCHANGED <<run, offset, listed>> /\ page' \subseteq OnPage(run, offset)
    BY <1>1 DEF ReadPage, serverVars
  <2>2. OnPage(run, offset)' = OnPage(run, offset)
    BY <2>1 DEF OnPage, Place
  <2>3. QED
    BY <2>1, <2>2
<1>2. CASE pc = "record" /\ UNCHANGED <<page, run, offset>>
  <2>1. run \in Runs /\ listed'[run] = listed[run]
    BY <1>2, MadeStays DEF RunInv, RunMade
  <2>2. OnPage(run, offset)' = OnPage(run, offset)
    BY <1>2, <2>1 DEF OnPage, Place
  <2>3. QED
    BY <1>2, <2>2 DEF PageListed
<1>3. QED
  BY <1>1, <1>2, ToRecord

LEMMA RecordStep == TypeInv /\ RunInv /\ RecordInv /\ [Next]_vars => RecordInv'
<1> SUFFICES ASSUME TypeInv, RunInv, RecordInv, [Next]_vars PROVE RecordInv'
  OBVIOUS
<1>1. CASE UNCHANGED <<handed, delivered>>
  <2>1. \A e \in Runs : \A m \in handed[e] :
          m \in listed'[e] /\ Place(e, m)' = Place(e, m) /\ Place(e, m) <= delivered[e]
    BY HandedStays DEF RecordInv, NothingUnrecorded
  <2>2. NothingUnrecorded'
    BY <1>1, <2>1 DEF NothingUnrecorded
  <2>3. QED
    BY <2>2, PageStays DEF RecordInv
<1>2. CASE HandOver
  BY <1>2, AnswerRecords, PageStays DEF RecordInv
<1>3. QED
  BY <1>1, <1>2, OnlyAnswersRecord

(* There is no unrecorded export, whatever is imported, trashed or deleted *)
(* meanwhile and whoever closes the run while a page is read: the page is  *)
(* recorded with the run still running, or it is not handed over           *)
(* (list_export_messages, record_delivered).                               *)
THEOREM ExportsAreRecorded == Spec => []NothingUnrecorded
<1>1. RecordInv => NothingUnrecorded
  BY DEF RecordInv
<1>2. QED
  BY <1>1, TypeInit, TypeStep, RunInit, RunStep, RecordInit, RecordStep, PTL DEF Spec


--------------------------------------------------------------------------------
(* What a step does to the client, in fewer kinds than there are actions.  *)
(* The pull ends, or goes on to close its run as failed.                   *)
Over == (EndPull \/ (Fails /\ part' = part)) /\ UNCHANGED <<file, doc>>

(* A request is sent again, or something else happens.                     *)
Again ==
  /\ UNCHANGED <<run, offset, fetched, outcome, written, job, file, part, doc>>
  /\ pc' = pc \/ (pc = "record" /\ pc' = "ask")
  /\ pc' # "record" \/ page' = page

RunIsMade ==
  /\ CreateRun /\ run' = Min(Unused) /\ pc' = "page"
  /\ UNCHANGED <<offset, page, fetched, outcome, written, job, file, part, doc>>

AsksPage ==
  /\ pc \in {"page", "ask"} /\ pc' \in {"ask", "read"}
  /\ UNCHANGED <<run, offset, page, fetched, outcome, written, job, file, part, doc>>

PageArrives ==
  /\ pc = "record" /\ status[run] = "running" /\ fetched' = fetched \cup page
  /\ IF MorePages(run, offset)
     THEN offset' = offset + Limit /\ pc' = "page"
     ELSE offset' = 0 /\ pc' = "plan"
  /\ UNCHANGED <<status, listed, life, run, outcome, written, job, file, part, doc>>

JobsDone ==
  /\ pc = "download" /\ pc' = "place"
  /\ \A s \in Shas : job[s] \in {"none", "done"}
  /\ UNCHANGED <<run, offset, page, fetched, outcome, written, job, file, part, doc>>

LEMMA RequestCases ==
  ASSUME TypeInv, Setback \/ CreateRun \/ NextPage \/ CheckRunning \/ HandOver \/ CloseRun
  PROVE  Over \/ Again \/ RunIsMade \/ AsksPage \/ PageArrives
<1> USE DEF TypeInv, WalkType
<1>1. ASSUME NEW p, p = pc \/ (pc = "record" /\ p = "ask"), pc # "record" \/ p = "ask",
             Repeats(p), UNCHANGED folderVars
      PROVE  Again
  BY <1>1 DEF Repeats, Again, jobVars, folderVars
<1>2. ASSUME Fails \/ EndPull, UNCHANGED folderVars
      PROVE  Over
  BY <1>2 DEF Over, folderVars
<1>3. CASE Setback
  <2>1. UNCHANGED folderVars /\ ((Asking /\ Repeats(pc)) \/ Fails \/ EndPull)
    BY <1>3, SetbackDoes, TypeParts
  <2>2. Asking => pc # "record"
    BY DEF Asking
  <2>3. QED
    BY <1>1, <1>2, <2>1, <2>2
<1>4. CASE CreateRun
  <2>1. UNCHANGED folderVars /\ pc = "create"
    BY <1>4 DEF CreateRun
  <2>2. CASE Retry("create")
    BY <1>1, <1>2, <2>1, <2>2, RetryDoes, GiveUpDoes
  <2>3. CASE /\ run' = Min(Unused) /\ Go("page")
             /\ UNCHANGED <<pagingVars, cancelled, outcome, jobVars, written>>
    BY <1>4, <2>1, <2>3 DEF RunIsMade, Go, pagingVars, jobVars, folderVars
  <2>4. QED
    BY <1>4, <2>2, <2>3 DEF CreateRun
<1>5. CASE NextPage \/ CheckRunning
  <2>1. UNCHANGED folderVars /\ pc \in {"page", "ask"}
    BY <1>5 DEF NextPage, CheckRunning
  <2>2. CASE GiveUp
    BY <1>2, <2>1, <2>2, GiveUpDoes
  <2>3. CASE pc' \in {"ask", "read"} /\ UNCHANGED <<memory, outcome>>
    BY <2>1, <2>3 DEF AsksPage, memory, pagingVars, jobVars, folderVars
  <2>4. QED
    BY <1>5, <2>2, <2>3 DEF NextPage, CheckRunning, Go
<1>6. CASE HandOver
  <2>1. UNCHANGED folderVars /\ pc = "record"
    BY <1>6 DEF HandOver
  <2>2. CASE Retry("ask")
    <3>1. Repeats("ask") \/ Fails
      BY <2>1, <2>2, RetryDoes, GiveUpDoes
    <3>2. QED
      BY <1>1, <1>2, <2>1, <3>1
  <2>3. CASE /\ fetched' = fetched \cup page /\ page' = {}
             /\ IF MorePages(run, offset)
                THEN offset' = offset + Limit /\ Go("page")
                ELSE offset' = 0 /\ Go("plan")
             /\ UNCHANGED <<run, cancelled, outcome, jobVars, written>>
    BY <1>6, <2>1, <2>3 DEF HandOver, StillRunning, PageArrives, Go, jobVars, folderVars
  <2>4. QED
    BY <1>6, <2>2, <2>3 DEF HandOver
<1>7. CASE CloseRun
  <2>1. UNCHANGED folderVars /\ pc = "close"
    BY <1>7 DEF CloseRun
  <2>2. Repeats("close") \/ Fails \/ EndPull
    BY <1>7, RetryDoes, GiveUpDoes DEF CloseRun
  <2>3. QED
    BY <1>1, <1>2, <2>1, <2>2
<1>8. QED
  BY <1>3, <1>4, <1>5, <1>6, <1>7

LEMMA ClientCases ==
  ASSUME TypeInv, [Next]_vars
  PROVE  \/ Over \/ Again
         \/ StartPull \/ RunIsMade \/ AsksPage \/ ReadPage \/ PageArrives
         \/ PlanJobs \/ JobsDone \/ PlaceOther \/ Placed \/ WriteConversation \/ Finish
         \/ \E s \in Shas : Download(s)
         \/ \E p \in Paths : LoseFile(p)
<1>1. CASE JobsEnd
  <2>1. CASE Fails
    BY <1>1, <2>1 DEF JobsEnd, Over, folderVars
  <2>2. CASE ~Fails
    <3>1. /\ pc = "download" /\ Go("place") /\ UNCHANGED <<memory, outcome, folderVars>>
          /\ \A s \in Shas : job[s] \in {"none", "done"}
      BY <1>1, <2>2, GiveUpDoes DEF JobsEnd
    <3>2. QED
      BY <3>1 DEF JobsDone, Go, memory, pagingVars, jobVars, folderVars
  <2>3. QED
    BY <2>1, <2>2
<1>2. CASE AccountStep
  BY <1>2, AccountDoes DEF Again
<1>3. CASE Cancel \/ UNCHANGED vars \/ \E e \in Runs, s \in {"completed", "cancelled"} : CloseElsewhere(e, s)
  BY <1>3 DEF Again, Cancel, CloseElsewhere, vars, memory, clientVars, pagingVars, jobVars, folderVars
<1>4. CASE Crash
  BY <1>4 DEF Crash, Over
<1>5. CASE Outside
  BY <1>2, <1>3, <1>4, <1>5 DEF Outside, AccountStep
<1>6. QED
  BY <1>1, <1>3, <1>5, RequestCases, StepCases

(* Deleted for good is for good, and so is the end of a run.               *)
LEMMA EndsStay ==
  ASSUME TypeInv, [Next]_vars
  PROVE  /\ \A m \in Msgs : life'[m] # "gone" => life[m] # "gone"
         /\ \A e \in Runs : status[e] # "none" /\ status'[e] = "running" => status[e] = "running"
<1> USE DEF TypeInv, ServerType
<1>1. CASE AccountStep
  <2>1. ASSUME NEW m \in Msgs, Import(m) \/ Trash(m) \/ Restore(m) \/ Delete(m)
        PROVE  \A k \in Msgs : life'[k] # "gone" => life[k] # "gone"
    BY <2>1 DEF Import, Trash, Restore, Delete, Becomes
  <2>2. (\E s \in Shas : RemoveBlob(s)) => life' = life
    BY DEF RemoveBlob
  <2>3. status' = status
    BY <1>1, AccountDoes
  <2>4. QED
    BY <1>1, <2>1, <2>2, <2>3 DEF AccountStep
<1>2. CASE Setback
  BY <1>2, SetbackDoes, TypeParts DEF serverVars
<1>3. CASE CreateRun
  <2>1. Min(Unused) \in Unused
    BY <1>3, LeastIs, PullAssumption DEF CreateRun, Unused
  <2>2. QED
    BY <1>3, <2>1 DEF CreateRun, Unused
<1>4. CASE StartPull \/ NextPage \/ CheckRunning \/ ReadPage \/ HandOver
  BY <1>4 DEF StartPull, NextPage, CheckRunning, ReadPage, HandOver, serverVars
<1>5. CASE PlanJobs \/ JobsEnd \/ PlaceOther \/ Placed \/ WriteConversation \/ Finish
  BY <1>5 DEF PlanJobs, JobsEnd, PlaceOther, Placed, WriteConversation, Finish, serverVars
<1>6. ASSUME NEW s \in Shas, Download(s) PROVE status' = status /\ life' = life
  BY <1>6, DownloadMoves DEF JobStep, serverVars
<1>7. CASE CloseRun
  BY <1>7 DEF CloseRun, CloseAs
<1>8. CASE Outside
  BY <1>1, <1>8 DEF Outside, AccountStep, CloseElsewhere, Cancel, Crash, LoseFile, serverVars
<1>9. CASE UNCHANGED vars
  BY <1>9 DEF vars, serverVars
<1>10. QED
  BY <1>1, <1>2, <1>3, <1>4, <1>5, <1>6, <1>7, <1>8, <1>9, StepCases


--------------------------------------------------------------------------------
(* A pull has an outcome only when it closes its run, and has written no   *)
(* conversation before it comes to that.                                   *)
OutcomeInv ==
  /\ outcome # "none" => pc = "close"
  /\ pc \notin {"docs", "close"} => written = {}

LEMMA OutcomeInit == Init => OutcomeInv
BY DEF Init, OutcomeInv

LEMMA OutcomeStep == TypeInv /\ OutcomeInv /\ [Next]_vars => OutcomeInv'
<1> SUFFICES ASSUME TypeInv, OutcomeInv, [Next]_vars PROVE OutcomeInv'
  OBVIOUS
<1> USE DEF OutcomeInv
<1>1. CASE Over
  BY <1>1 DEF Over, EndPull, Fails
<1>2. CASE Again \/ AsksPage \/ PageArrives \/ JobsDone \/ RunIsMade
  <2>1. UNCHANGED <<outcome, written>>
    BY <1>2 DEF Again, AsksPage, PageArrives, JobsDone, RunIsMade
  <2>2. CASE Again
    BY <2>1, <2>2 DEF Again
  <2>3. CASE ~Again
    <3>1. pc \notin {"docs", "close"}
      BY <1>2, <2>3 DEF AsksPage, PageArrives, JobsDone, RunIsMade, CreateRun
    <3>2. QED
      BY <2>1, <3>1
  <2>4. QED
    BY <2>2, <2>3
<1>3. CASE StartPull \/ ReadPage \/ PlanJobs \/ Placed \/ Finish
  BY <1>3 DEF StartPull, ReadPage, PlanJobs, Placed, Finish, Go
<1>4. CASE PlaceOther \/ WriteConversation
  BY <1>4 DEF PlaceOther, WriteConversation
<1>5. ASSUME NEW s \in Shas, Download(s) PROVE OutcomeInv'
  BY <1>5, DownloadMoves DEF JobStep
<1>6. ASSUME NEW p \in Paths, LoseFile(p) PROVE OutcomeInv'
  BY <1>6 DEF LoseFile, clientVars
<1>7. QED
  BY <1>1, <1>2, <1>3, <1>4, <1>5, <1>6, ClientCases

--------------------------------------------------------------------------------
(* The walk.  What the pull fetched, its run listed; at each offset it has *)
(* fetched every message below it that is not deleted since, and at the    *)
(* end of the walk all of them.                                            *)
Walking == {"page", "ask", "read", "record"}
Ok == pc = "close" /\ outcome = "ok"
Walked == pc \in {"plan", "download", "place", "docs"} \/ Ok

FetchedListed == \A m \in fetched : run \in Runs /\ m \in listed[run]

(* Every message on places up to this one.                                 *)
Got(e, o) == \A m \in listed[e] : life[m] # "gone" /\ Place(e, m) <= o => m \in fetched

PageFull ==
  pc = "record" /\ status[run] = "running" =>
    \A m \in OnPage(run, offset) : life[m] # "gone" => m \in page

GotAll == \A m \in listed[run] : life[m] # "gone" => m \in fetched

WalkInv ==
  /\ FetchedListed
  /\ pc \in Walking => Got(run, offset)
  /\ PageFull
  /\ Walked => GotAll

LEMMA WalkInit == Init => WalkInv
BY DEF Init, WalkInv, FetchedListed, Walking, PageFull, Walked, Ok

(* Nothing the account or another client does takes from what was fetched. *)
LEMMA GotStays ==
  ASSUME TypeInv, RunInv, [Next]_vars, run \in Runs, run' = run, fetched \subseteq fetched'
  PROVE  /\ listed'[run] = listed[run]
         /\ \A m : Place(run, m)' = Place(run, m)
         /\ \A o : Got(run, o) => Got(run, o)'
         /\ GotAll => GotAll'
<1>1. listed'[run] = listed[run]
  BY MadeStays DEF RunInv, RunMade
<1>2. \A m : Place(run, m)' = Place(run, m)
  BY <1>1 DEF Place
<1>3. \A m \in listed[run] : life'[m] # "gone" => life[m] # "gone"
  BY EndsStay DEF TypeInv, ServerType
<1>4. QED
  BY <1>1, <1>2, <1>3 DEF Got, GotAll

LEMMA FetchedStaysListed ==
  ASSUME TypeInv, RunInv, FetchedListed, [Next]_vars, run' = run, fetched' = fetched
  PROVE  FetchedListed'
<1>1. run \in Runs => listed'[run] = listed[run]
  BY MadeStays DEF RunInv, RunMade
<1>2. QED
  BY <1>1 DEF FetchedListed

(* A step in which the pull goes on with what it fetched.                  *)
LEMMA WalkStays ==
  ASSUME TypeInv, RunInv, WalkInv, [Next]_vars, UNCHANGED <<run, offset, fetched>>,
         pc' \in Walking => pc \in Walking,
         pc' = "record" => pc = "record" /\ page' = page,
         Walked' => Walked
  PROVE  WalkInv'
<1>1. FetchedListed'
  BY FetchedStaysListed DEF WalkInv
<1>2. pc \in Walking => run \in Runs
  BY DEF RunInv, RunMade, Walking
<1>3. Walked => run \in Runs
  BY DEF RunInv, RunMade, Walked, Ok
<1>4. pc' \in Walking => Got(run, offset)'
  <2>1. SUFFICES ASSUME pc' \in Walking PROVE Got(run, offset)'
    OBVIOUS
  <2>2. Got(run, offset) /\ run \in Runs
    BY <1>2, <2>1 DEF WalkInv
  <2>3. listed'[run] = listed[run] /\ (\A m : Place(run, m)' = Place(run, m))
        /\ \A m \in listed[run] : life'[m] # "gone" => life[m] # "gone"
    BY <2>2, GotStays, EndsStay DEF TypeInv, ServerType
  <2>4. QED
    BY <2>2, <2>3 DEF Got
<1>5. Walked' => GotAll'
  BY <1>3, GotStays DEF WalkInv
<1>6. PageFull'
  <2>1. SUFFICES ASSUME pc' = "record", status'[run] = "running",
                        NEW m \in OnPage(run, offset)', life'[m] # "gone"
                 PROVE  m \in page
    BY DEF PageFull
  <2>2. pc = "record" /\ page' = page /\ run \in Runs
    BY <1>2, <2>1 DEF Walking
  <2>3. m \in OnPage(run, offset) /\ m \in Msgs
    BY <2>1, <2>2, GotStays DEF OnPage, TypeInv, ServerType
  <2>4. status[run] = "running" /\ life[m] # "gone"
    BY <2>1, <2>2, <2>3, EndsStay DEF RunInv, RunMade
  <2>5. QED
    BY <2>2, <2>3, <2>4 DEF WalkInv, PageFull
<1>7. QED
  BY <1>1, <1>4, <1>5, <1>6 DEF WalkInv


LEMMA PageJoins ==
  ASSUME TypeInv, RunInv, WalkInv, [Next]_vars, PageArrives, page \subseteq OnPage(run, offset)
  PROVE  WalkInv'
<1> USE DEF TypeInv, ServerType, WalkType
<1>1. /\ run \in Runs /\ run' = run /\ status' = status /\ listed' = listed /\ life' = life
      /\ fetched' = fetched \cup page /\ pc = "record" /\ status[run] = "running"
      /\ outcome' = outcome
  BY DEF PageArrives, RunInv, RunMade
<1>2. \A m : Place(run, m)' = Place(run, m)
  BY <1>1 DEF Place
<1>3. FetchedListed'
  BY <1>1 DEF WalkInv, FetchedListed, OnPage
<1>4. ASSUME NEW m \in listed[run], life[m] # "gone", Place(run, m) <= offset + Limit
      PROVE  m \in fetched'
  <2>1. Place(run, m) \in Nat
    BY <1>1, PlacesCount
  <2>2. CASE Place(run, m) <= offset
    BY <1>1, <1>4, <2>2 DEF WalkInv, Got, Walking
  <2>3. CASE ~(Place(run, m) <= offset)
    <3>1. m \in OnPage(run, offset)
      BY <1>4, <2>1, <2>3 DEF OnPage
    <3>2. QED
      BY <1>1, <1>4, <3>1 DEF WalkInv, PageFull
  <2>4. QED
    BY <2>2, <2>3
<1>5. CASE MorePages(run, offset)
  <2>1. offset' = offset + Limit /\ pc' = "page"
    BY <1>5 DEF PageArrives
  <2>2. Got(run, offset)'
    BY <1>1, <1>2, <1>4, <2>1 DEF Got
  <2>3. QED
    BY <1>3, <2>1, <2>2 DEF WalkInv, PageFull, Walked, Ok
<1>6. CASE ~MorePages(run, offset)
  <2>1. pc' = "plan"
    BY <1>6 DEF PageArrives
  <2>2. ASSUME NEW m \in listed[run] PROVE Place(run, m) <= offset + Limit
    <3>1. Total(run) \in Nat /\ Place(run, m) \in Nat /\ Place(run, m) <= Total(run)
      BY <1>1, PlacesCount
    <3>2. Total(run) <= offset + Limit
      BY <1>6, <3>1, PullAssumption DEF MorePages
    <3>3. QED
      BY <3>1, <3>2, PullAssumption
  <2>3. GotAll'
    BY <1>1, <1>4, <2>2 DEF GotAll
  <2>4. QED
    BY <1>3, <2>1, <2>3 DEF WalkInv, PageFull, Walking
<1>7. QED
  BY <1>5, <1>6

LEMMA WalkStep == TypeInv /\ RunInv /\ OutcomeInv /\ RecordInv /\ WalkInv /\ [Next]_vars => WalkInv'
<1> SUFFICES ASSUME TypeInv, RunInv, OutcomeInv, RecordInv, WalkInv, [Next]_vars PROVE WalkInv'
  OBVIOUS
<1>1. CASE Over
  <2>1. pc' \notin Walking /\ ~Walked' /\ pc' # "record"
    BY <1>1 DEF Over, EndPull, Fails, Walking, Walked, Ok
  <2>2. FetchedListed'
    <3>1. CASE EndPull
      BY <3>1 DEF EndPull, FetchedListed
    <3>2. CASE Fails
      BY <3>2, FetchedStaysListed DEF Fails, WalkInv
    <3>3. QED
      BY <1>1, <3>1, <3>2 DEF Over
  <2>3. QED
    BY <2>1, <2>2 DEF WalkInv, PageFull
<1>2. CASE Again
  BY <1>2, WalkStays DEF Again, Walking, Walked, Ok
<1>3. CASE AsksPage
  BY <1>3, WalkStays DEF AsksPage, Walking, Walked, Ok
<1>4. CASE StartPull
  BY <1>4, WalkStays DEF StartPull, Go, pagingVars, Walking, Walked, Ok
<1>5. CASE JobsDone
  BY <1>5, WalkStays DEF JobsDone, Walking, Walked, Ok
<1>6. CASE PlanJobs \/ Placed \/ Finish
  BY <1>6, WalkStays DEF PlanJobs, Placed, Finish, Go, pagingVars, Walking, Walked, Ok
<1>7. CASE PlaceOther \/ WriteConversation
  BY <1>7, WalkStays DEF PlaceOther, WriteConversation, pagingVars, Walking, Walked, Ok
<1>8. ASSUME NEW s \in Shas, Download(s) PROVE WalkInv'
  <2>1. UNCHANGED <<pc, run, offset, fetched, page, outcome>>
    BY <1>8, DownloadMoves DEF JobStep, pagingVars
  <2>2. QED
    BY <2>1, WalkStays DEF Walking, Walked, Ok
<1>9. ASSUME NEW p \in Paths, LoseFile(p) PROVE WalkInv'
  <2>1. UNCHANGED <<pc, run, offset, fetched, page, outcome>>
    BY <1>9 DEF LoseFile, clientVars, pagingVars
  <2>2. QED
    BY <2>1, WalkStays DEF Walking, Walked, Ok
<1>10. CASE RunIsMade
  <2>1. pc = "create" /\ pc' = "page" /\ offset = 0 /\ fetched = {}
        /\ UNCHANGED <<offset, fetched>>
    BY <1>10 DEF RunIsMade, CreateRun, RunInv, RunMade
  <2>2. run' \in Runs /\ listed' \in [Runs -> SUBSET Msgs]
    BY <2>1, OwnRun, TypeStep, PullAssumption DEF RunMade, TypeInv, ServerType
  <2>3. Got(run, offset)'
    <3>1. SUFFICES ASSUME NEW m \in listed'[run'] PROVE ~(Place(run, m)' <= 0)
      BY <2>1 DEF Got
    <3>2. PICK e \in Runs : e = run'
      BY <2>2
    <3>3. Place(e, m)' > 0 /\ Place(e, m)' \in Nat
      <4>1. m \in {k \in listed'[e] : k <= m}
        BY <2>2, <3>1, <3>2, PullAssumption
      <4>2. {k \in listed'[e] : k <= m} \subseteq Msgs
        BY <2>2
      <4>3. IsFiniteSet({k \in listed'[e] : k <= m})
        BY <4>2, FS_Subset, PullAssumption
      <4>4. Place(e, m)' = Cardinality({k \in listed'[e] : k <= m})
        BY DEF Place
      <4>5. QED
        BY <4>1, <4>3, <4>4, FS_CardinalityType, FS_EmptySet
    <3>4. Place(run, m)' = Place(e, m)'
      BY <3>2 DEF Place
    <3>5. QED
      BY <3>3, <3>4
  <2>4. QED
    BY <2>1, <2>3 DEF WalkInv, FetchedListed, PageFull, Walked, Ok
<1>11. CASE ReadPage
  <2>1. /\ pc = "read" /\ pc' = "record" /\ run \in Runs
        /\ UNCHANGED <<life, status, listed, run, offset, fetched, outcome>>
        /\ status[run] = "running" => page' = OnPage(run, offset) \cap Stored
    BY <1>11 DEF ReadPage, serverVars, RunInv, RunMade
  <2>2. Got(run, offset)' /\ FetchedListed'
    BY <2>1, GotStays, FetchedStaysListed DEF WalkInv, Walking, Got, Place
  <2>3. PageFull'
    <3>1. SUFFICES ASSUME status[run] = "running", NEW m \in OnPage(run, offset), life[m] # "gone"
                   PROVE  m \in Stored
      BY <2>1 DEF PageFull, OnPage, Place
    <3>2. m \in listed[run] /\ m \in Msgs /\ life[m] # "new"
      BY <2>1, <3>1 DEF OnPage, RunInv, ListedWasStored, TypeInv, ServerType
    <3>3. QED
      BY <3>1, <3>2 DEF Stored, TypeInv, ServerType
  <2>4. QED
    BY <2>1, <2>2, <2>3 DEF WalkInv, Walked, Ok
<1>12. CASE PageArrives
  BY <1>12, PageJoins DEF RecordInv, PageListed, PageArrives
<1>13. QED
  BY <1>1, <1>2, <1>3, <1>4, <1>5, <1>6, <1>7, <1>8, <1>9, <1>10, <1>11, <1>12, ClientCases


--------------------------------------------------------------------------------
(* The folder.  No two attachments share a path, nor the name a file has   *)
(* while it is written: the server names a file by its fingerprint, and    *)
(* paths that differ in their extension only are not told apart.           *)
NamesApart ==
  \A m, n \in Msgs :
    ShaOf[m] # NoSha /\ ShaOf[n] # NoSha /\ PartOf[Rel(m)] = PartOf[Rel(n)] => ShaOf[m] = ShaOf[n]

(* A file that is there holds the attachment its path names.               *)
FilesRight ==
  \A p \in Paths : IsFile(p) =>
    \E m \in Msgs : ShaOf[m] # NoSha /\ Rel(m) = p /\ file[p] = ShaOf[m]

(* A finished download is in its .part file until it is renamed.           *)
PartsRight == \A s \in Shas : job[s] = "got" => part[PartOf[First(s)]] = s

FirstsThere ==
  /\ pc = "download" =>
       \A s \in Mentioned : job[s] \in {"none", "done"} => IsFile(First(s))
  /\ pc \in {"place", "docs"} \/ Ok => \A s \in Mentioned : IsFile(First(s))

AllThere == pc = "docs" \/ Ok => \A m \in fetched : ShaOf[m] # NoSha => IsFile(Rel(m))

FolderInv == FilesRight /\ PartsRight /\ FirstsThere /\ AllThere

LEMMA FolderInit == Init => FolderInv
BY PullAssumption
   DEF Init, FolderInv, FilesRight, PartsRight, FirstsThere, AllThere, IsFile, Ok

LEMMA PartsApart ==
  ASSUME NamesApart, fetched \subseteq Msgs, NEW s \in Mentioned, NEW t \in Mentioned,
         PartOf[First(s)] = PartOf[First(t)]
  PROVE  s = t
<1>1. PICK m \in Msgs : ShaOf[m] = s /\ First(s) = Rel(m) /\ s # NoSha
  BY FirstIsNamed
<1>2. PICK n \in Msgs : ShaOf[n] = t /\ First(t) = Rel(n) /\ t # NoSha
  BY FirstIsNamed
<1>3. QED
  BY <1>1, <1>2 DEF NamesApart

(* The file at a message's path is its own.                                *)
LEMMA OwnFile ==
  ASSUME NamesApart, FilesRight, NEW m \in Msgs, ShaOf[m] # NoSha, IsFile(Rel(m))
  PROVE  file[Rel(m)] = ShaOf[m]
<1>1. Rel(m) \in Paths
  BY RelIsPath
<1>2. PICK n \in Msgs : ShaOf[n] # NoSha /\ Rel(n) = Rel(m) /\ file[Rel(m)] = ShaOf[n]
  BY <1>1 DEF FilesRight
<1>3. QED
  BY <1>2 DEF NamesApart

LEMMA FirstIsOwn ==
  ASSUME NamesApart, FilesRight, fetched \subseteq Msgs, NEW s \in Mentioned, IsFile(First(s))
  PROVE  file[First(s)] = s
<1>1. PICK m \in Msgs : ShaOf[m] = s /\ First(s) = Rel(m) /\ s # NoSha
  BY FirstIsNamed
<1>2. QED
  BY <1>1, OwnFile

(* A step that touches neither what was fetched nor the folder.            *)
LEMMA FolderStays ==
  ASSUME FolderInv, UNCHANGED <<fetched, job, file, part>>,
         pc' = "download" => pc = "download",
         pc' \in {"place", "docs"} \/ Ok' => pc \in {"place", "docs"} \/ Ok,
         pc' = "docs" \/ Ok' => pc = "docs" \/ Ok
  PROVE  FolderInv'
<1>1. /\ FilesRight' /\ PartsRight' /\ Mentioned' = Mentioned
      /\ \A s : First(s)' = First(s)
      /\ \A p : IsFile(p)' = IsFile(p)
  BY DEF FolderInv, FilesRight, PartsRight, Mentioned, First, With, IsFile, Rel
<1>2. FirstsThere'
  BY <1>1 DEF FolderInv, FirstsThere
<1>3. AllThere'
  <2>1. \A m : Rel(m)' = Rel(m)
    BY DEF Rel
  <2>2. QED
    BY <1>1, <2>1 DEF FolderInv, AllThere
<1>4. QED
  BY <1>1, <1>2, <1>3 DEF FolderInv

(* A step after which no download is under way and no file is promised.    *)
LEMMA FolderIdle ==
  ASSUME FolderInv, file' = file,
         \/ NoJobs'
         \/ UNCHANGED <<fetched, job, part>>,
         pc' \notin {"download", "place", "docs"}, ~Ok'
  PROVE  FolderInv'
<1>1. FilesRight'
  BY DEF FolderInv, FilesRight, IsFile, Rel
<1>2. PartsRight'
  BY DEF FolderInv, PartsRight, NoJobs, First, With, Rel
<1>3. QED
  BY <1>1, <1>2 DEF FolderInv, FirstsThere, AllThere


(* One step of one download leaves the files and .part files of the others *)
(* as they are.                                                            *)
LEMMA DownloadKeeps ==
  ASSUME NamesApart, TypeInv, OutcomeInv, FolderInv, NEW s \in Shas, Download(s)
  PROVE  FolderInv'
<1> USE DEF TypeInv, WalkType, JobType, FolderType
<1>1. /\ UNCHANGED <<pc, fetched, outcome>> /\ pc = "download" /\ ~Ok /\ ~Ok'
      /\ s \in Mentioned /\ Mentioned' = Mentioned
      /\ \A t : First(t)' = First(t)
      /\ \A t \in Shas : t # s => job'[t] = job[t]
  <2>1. PICK from \in {"todo", "get", "got"}, to \in DownloadEnds : JobStep(s, from, to)
    BY DownloadMoves
  <2>2. UNCHANGED <<pc, fetched, outcome>> /\ pc = "download" /\ job' = [job EXCEPT ![s] = to]
    BY <2>1 DEF JobStep, pagingVars
  <2>3. s \in Mentioned
    BY <2>1, JobStepTypes
  <2>4. QED
    BY <2>2, <2>3 DEF Ok, Mentioned, First, With, Rel
<1>2. \A t \in Mentioned : t \in Shas /\ First(t) \in Paths /\ PartOf[First(t)] \in Parts
  BY FirstIsPath
<1>3. s # NoFile
  BY PullAssumption
<1>4. CASE Rename(s) /\ job[s] = "got"
  <2> DEFINE q == PartOf[First(s)]
  <2>1. part[q] = s
    BY <1>4 DEF FolderInv, PartsRight
  <2>2. /\ file' = [file EXCEPT ![First(s)] = s] /\ part' = [part EXCEPT ![q] = NoFile]
        /\ job' = [job EXCEPT ![s] = "done"]
    BY <1>3, <1>4, <2>1 DEF Rename, JobStep
  <2>3. \A p \in Paths : IsFile(p) => IsFile(p)'
    BY <1>2, <1>3, <2>2 DEF IsFile
  <2>4. FilesRight'
    <3>1. PICK m \in Msgs : ShaOf[m] = s /\ First(s) = Rel(m) /\ s # NoSha
      BY <1>1, FirstIsNamed
    <3>2. ASSUME NEW p \in Paths, IsFile(p)'
          PROVE  \E n \in Msgs : ShaOf[n] # NoSha /\ Rel(n) = p /\ file'[p] = ShaOf[n]
      <4>1. CASE p = First(s)
        BY <1>1, <1>2, <2>2, <3>1, <4>1
      <4>2. CASE p # First(s)
        <5>1. file'[p] = file[p] /\ IsFile(p)
          BY <2>2, <3>2, <4>2 DEF IsFile
        <5>2. QED
          BY <5>1 DEF FolderInv, FilesRight
      <4>3. QED
        BY <4>1, <4>2
    <3>3. QED
      BY <3>2 DEF FilesRight, Rel
  <2>5. PartsRight'
    <3>1. SUFFICES ASSUME NEW t \in Shas, job'[t] = "got" PROVE part'[PartOf[First(t)]] = t
      BY <1>1 DEF PartsRight
    <3>2. t # s /\ job[t] = "got"
      BY <1>1, <2>2, <3>1
    <3>3. t \in Mentioned
      BY <3>2 DEF JobsMentioned
    <3>4. PartOf[First(t)] # q
      BY <1>1, <3>2, <3>3, PartsApart
    <3>5. QED
      BY <1>2, <2>2, <3>2, <3>3, <3>4 DEF FolderInv, PartsRight
  <2>6. IsFile(First(s))'
    BY <1>1, <1>2, <1>3, <2>2 DEF IsFile
  <2>7. ASSUME NEW t \in Mentioned, t # s, job'[t] \in {"none", "done"} PROVE IsFile(First(t))'
    <3>1. IsFile(First(t)) /\ First(t) \in Paths
      BY <1>1, <1>2, <2>7 DEF FolderInv, FirstsThere
    <3>2. QED
      BY <1>1, <2>3, <3>1 DEF IsFile
  <2>8. FirstsThere' /\ AllThere'
    BY <1>1, <2>6, <2>7 DEF FirstsThere, AllThere
  <2>9. QED
    BY <2>4, <2>5, <2>8 DEF FolderInv
<1>5. CASE ~(Rename(s) /\ job[s] = "got")
  <2>1. /\ file' = file /\ job'[s] \notin {"none", "done"}
        /\ job'[s] = "got" => part' = [part EXCEPT ![PartOf[First(s)]] = s]
        /\ \E v : part' \in {part, [part EXCEPT ![PartOf[First(s)]] = v]}
    BY <1>5 DEF Download, TakeJob, Get, GetBreaks, GetRefused, TidyUp, Rename, JobStep
  <2>2. FilesRight'
    BY <2>1 DEF FolderInv, FilesRight, IsFile, Rel
  <2>3. PartsRight'
    <3>1. SUFFICES ASSUME NEW t \in Shas, job'[t] = "got" PROVE part'[PartOf[First(t)]] = t
      BY <1>1 DEF PartsRight
    <3>2. CASE t = s
      BY <1>1, <1>2, <2>1, <3>1, <3>2
    <3>3. CASE t # s
      <4>1. job[t] = "got" /\ t \in Mentioned
        BY <1>1, <3>1, <3>3 DEF JobsMentioned
      <4>2. PartOf[First(t)] # PartOf[First(s)]
        BY <1>1, <3>3, <4>1, PartsApart
      <4>3. part[PartOf[First(t)]] = t
        BY <4>1 DEF FolderInv, PartsRight
      <4>4. QED
        BY <1>2, <2>1, <4>1, <4>2, <4>3
    <3>4. QED
      BY <3>2, <3>3
  <2>4. FirstsThere'
    <3>1. SUFFICES ASSUME NEW t \in Mentioned, job'[t] \in {"none", "done"} PROVE IsFile(First(t))
      BY <1>1, <2>1 DEF FirstsThere, IsFile
    <3>2. t # s
      BY <2>1, <3>1
    <3>3. QED
      BY <1>1, <1>2, <3>1, <3>2 DEF FolderInv, FirstsThere
  <2>5. QED
    BY <1>1, <2>2, <2>3, <2>4 DEF FolderInv, AllThere
<1>6. QED
  BY <1>4, <1>5

(* place_other_paths puts the bytes of the first path at another.          *)
LEMMA PlacingKeeps ==
  ASSUME NamesApart, TypeInv, OutcomeInv, FolderInv, PlaceOther
  PROVE  FolderInv'
<1> USE DEF TypeInv, WalkType, JobType, FolderType
<1>0. PICK s \in Mentioned : \E r \in ToPlace(s) : file' = [file EXCEPT ![r] = file[First(s)]]
  BY DEF PlaceOther
<1>1. PICK p \in ToPlace(s) : file' = [file EXCEPT ![p] = file[First(s)]]
  BY <1>0
<1>2. UNCHANGED <<pc, fetched, outcome, job, part>> /\ pc = "place" /\ ~Ok /\ ~Ok'
  BY DEF PlaceOther, pagingVars, jobVars, Ok, OutcomeInv
<1>3. /\ Mentioned' = Mentioned
      /\ \A t : First(t)' = First(t)
      /\ \A t \in Mentioned : First(t) \in Paths
  BY <1>2, FirstIsPath DEF Mentioned, First, With, Rel
<1>4. file[First(s)] = s /\ s # NoFile /\ s \in Shas
  <2>1. IsFile(First(s)) /\ s \in Shas
    BY <1>2 DEF FolderInv, FirstsThere, Mentioned
  <2>2. QED
    BY <2>1, FirstIsOwn, PullAssumption DEF FolderInv
<1>5. PICK n \in Msgs : ShaOf[n] = s /\ Rel(n) = p /\ s # NoSha
  BY <1>1, <1>4, PullAssumption DEF ToPlace, Others, With
<1>6. p \in Paths
  BY <1>5, RelIsPath
<1>7. FilesRight'
  <2>1. ASSUME NEW r \in Paths, IsFile(r)'
        PROVE  \E m \in Msgs : ShaOf[m] # NoSha /\ Rel(m) = r /\ file'[r] = ShaOf[m]
    <3>1. CASE r = p
      BY <1>1, <1>4, <1>5, <1>6, <3>1
    <3>2. CASE r # p
      <4>1. file'[r] = file[r] /\ IsFile(r)
        BY <1>1, <2>1, <3>2 DEF IsFile
      <4>2. QED
        BY <4>1 DEF FolderInv, FilesRight
    <3>3. QED
      BY <3>1, <3>2
  <2>2. QED
    BY <2>1 DEF FilesRight, Rel
<1>8. PartsRight'
  BY <1>2, <1>3 DEF FolderInv, PartsRight
<1>9. FirstsThere'
  <2>1. \A r \in Paths : IsFile(r) => IsFile(r)'
    BY <1>1, <1>4, <1>6 DEF IsFile
  <2>2. ASSUME NEW t \in Mentioned PROVE IsFile(First(t))'
    <3>1. IsFile(First(t)) /\ First(t) \in Paths
      BY <1>2, <1>3 DEF FolderInv, FirstsThere
    <3>2. QED
      BY <1>3, <2>1, <3>1 DEF IsFile
  <2>3. QED
    BY <1>2, <1>3, <2>2 DEF FirstsThere
<1>10. QED
  BY <1>2, <1>7, <1>8, <1>9 DEF FolderInv, AllThere


LEMMA FolderStep ==
  NamesApart /\ TypeInv /\ OutcomeInv /\ FolderInv /\ [Next]_vars => FolderInv'
<1> SUFFICES ASSUME NamesApart, TypeInv, OutcomeInv, FolderInv, [Next]_vars PROVE FolderInv'
  OBVIOUS
<1> USE DEF TypeInv, WalkType, JobType
<1>1. CASE Over
  <2>1. file' = file /\ pc' \notin {"download", "place", "docs"} /\ ~Ok'
    BY <1>1 DEF Over, EndPull, Fails, Ok
  <2>2. CASE EndPull
    <3>1. NoJobs'
      BY <2>2 DEF EndPull, NoJobs
    <3>2. QED
      BY <2>1, <3>1, FolderIdle
  <2>3. CASE Fails
    <3>1. UNCHANGED <<fetched, job, part>>
      BY <1>1, <2>3 DEF Over, Fails, jobVars, EndPull
    <3>2. QED
      BY <2>1, <3>1, FolderIdle
  <2>4. QED
    BY <1>1, <2>2, <2>3 DEF Over
<1>2. CASE Again
  BY <1>2, FolderStays DEF Again, Ok
<1>3. CASE AsksPage
  BY <1>3, FolderStays DEF AsksPage, Ok
<1>4. CASE StartPull
  BY <1>4, FolderStays DEF StartPull, Go, pagingVars, jobVars, folderVars, Ok
<1>5. CASE RunIsMade
  BY <1>5, FolderStays DEF RunIsMade, Ok
<1>6. CASE ReadPage
  BY <1>6, FolderStays DEF ReadPage, jobVars, folderVars, Ok
<1>7. CASE PageArrives
  <2>1. NoJobs /\ job' = job /\ file' = file /\ pc' \in {"page", "plan"}
    BY <1>7 DEF PageArrives, JobsLater
  <2>2. NoJobs' /\ ~Ok'
    BY <2>1 DEF NoJobs, Ok
  <2>3. QED
    BY <2>1, <2>2, FolderIdle
<1>8. CASE PlanJobs
  <2>1. /\ pc' = "download" /\ UNCHANGED <<fetched, file, part>>
        /\ job' = [s \in Shas |-> IF s \in Mentioned /\ ~IsFile(First(s)) THEN "todo" ELSE "none"]
    BY <1>8 DEF PlanJobs, Go, pagingVars, folderVars
  <2>2. Mentioned' = Mentioned /\ (\A s : First(s)' = First(s)) /\ (\A p : IsFile(p)' = IsFile(p))
        /\ Mentioned \subseteq Shas
    BY <2>1 DEF Mentioned, First, With, Rel, IsFile
  <2>3. FilesRight'
    BY <2>1 DEF FolderInv, FilesRight, IsFile, Rel
  <2>4. PartsRight'
    BY <2>1 DEF PartsRight
  <2>5. FirstsThere'
    BY <2>1, <2>2 DEF FirstsThere, Ok
  <2>6. QED
    BY <2>1, <2>3, <2>4, <2>5 DEF FolderInv, AllThere, Ok
<1>9. CASE JobsDone
  <2>1. /\ pc = "download" /\ pc' = "place" /\ UNCHANGED <<fetched, job, file, part>>
        /\ \A s \in Shas : job[s] \in {"none", "done"}
    BY <1>9 DEF JobsDone
  <2>2. Mentioned' = Mentioned /\ (\A s : First(s)' = First(s)) /\ (\A p : IsFile(p)' = IsFile(p))
        /\ Mentioned \subseteq Shas
    BY <2>1 DEF Mentioned, First, With, Rel, IsFile
  <2>3. FilesRight'
    BY <2>1 DEF FolderInv, FilesRight, IsFile, Rel
  <2>4. PartsRight'
    BY <2>1 DEF PartsRight
  <2>5. FirstsThere'
    BY <2>1, <2>2 DEF FolderInv, FirstsThere
  <2>6. QED
    BY <2>1, <2>3, <2>4, <2>5 DEF FolderInv, AllThere, Ok
<1>10. CASE PlaceOther
  BY <1>10, PlacingKeeps
<1>11. CASE Placed
  <2>1. /\ pc = "place" /\ pc' = "docs" /\ UNCHANGED <<fetched, job, file, part, outcome>>
        /\ \A s \in Mentioned : ToPlace(s) = {}
    BY <1>11 DEF Placed, Go, pagingVars, jobVars, folderVars
  <2>2. Mentioned' = Mentioned /\ (\A s : First(s)' = First(s)) /\ (\A p : IsFile(p)' = IsFile(p))
    BY <2>1 DEF Mentioned, First, With, Rel, IsFile
  <2>3. FilesRight' /\ PartsRight'
    BY <2>1, <2>2 DEF FolderInv, FilesRight, PartsRight, IsFile, Rel
  <2>4. FirstsThere'
    BY <2>1, <2>2 DEF FolderInv, FirstsThere
  <2>5. ASSUME NEW m \in fetched, ShaOf[m] # NoSha PROVE IsFile(Rel(m))
    <3>1. m \in With(ShaOf[m]) /\ ShaOf[m] \in Mentioned
      BY <2>5, PullAssumption DEF With, Mentioned
    <3>2. CASE Rel(m) = First(ShaOf[m])
      BY <2>1, <3>1, <3>2 DEF FolderInv, FirstsThere
    <3>3. CASE Rel(m) # First(ShaOf[m])
      BY <2>1, <3>1, <3>3 DEF Others, ToPlace
    <3>4. QED
      BY <3>2, <3>3
  <2>6. AllThere'
    BY <2>1, <2>2, <2>5 DEF AllThere, Rel
  <2>7. QED
    BY <2>3, <2>4, <2>6 DEF FolderInv
<1>12. CASE WriteConversation
  BY <1>12, FolderStays DEF WriteConversation, pagingVars, jobVars, Ok
<1>13. CASE Finish
  BY <1>13, FolderStays DEF Finish, Go, pagingVars, jobVars, folderVars, Ok
<1>14. ASSUME NEW s \in Shas, Download(s) PROVE FolderInv'
  BY <1>14, DownloadKeeps
<1>15. ASSUME NEW p \in Paths, LoseFile(p) PROVE FolderInv'
  <2>1. /\ file' = [file EXCEPT ![p] = NoFile] /\ UNCHANGED <<pc, fetched, job, part>>
        /\ pc = "idle"
    BY <1>15 DEF LoseFile, clientVars, pagingVars, jobVars
  <2>2. FilesRight'
    BY <2>1 DEF FolderInv, FilesRight, FolderType, IsFile, Rel
  <2>3. PartsRight'
    BY <2>1 DEF FolderInv, PartsRight, First, With, Rel
  <2>4. QED
    BY <2>1, <2>2, <2>3 DEF FolderInv, FirstsThere, AllThere, Ok
<1>16. QED
  BY <1>1, <1>2, <1>3, <1>4, <1>5, <1>6, <1>7, <1>8, <1>9, <1>10, <1>11, <1>12, <1>13, <1>14,
     <1>15, ClientCases

--------------------------------------------------------------------------------
(* The conversation files hold what was fetched of each.                   *)
DocInv ==
  /\ pc = "docs" \/ Ok => \A c \in written : doc[c] = {m \in fetched : ConvOf[m] = c}
  /\ Ok => ToWrite = {}

LEMMA DocInit == Init => DocInv
BY DEF Init, DocInv, Ok

LEMMA DocStep == TypeInv /\ OutcomeInv /\ DocInv /\ [Next]_vars => DocInv'
<1> SUFFICES ASSUME TypeInv, OutcomeInv, DocInv, [Next]_vars PROVE DocInv'
  OBVIOUS
<1> USE DEF TypeInv, WalkType
<1>1. ASSUME pc' # "docs", ~Ok' PROVE DocInv'
  BY <1>1 DEF DocInv
<1>2. ASSUME UNCHANGED <<pc, outcome, fetched, written, doc>> PROVE DocInv'
  BY <1>2 DEF DocInv, Ok, ToWrite
<1>3. CASE Over
  BY <1>1, <1>3 DEF Over, EndPull, Fails, Ok
<1>4. CASE Again
  BY <1>1, <1>2, <1>4 DEF Again, Ok
<1>5. CASE StartPull \/ RunIsMade \/ AsksPage \/ ReadPage \/ PageArrives \/ PlanJobs \/ JobsDone
  <2>1. pc' \notin {"docs", "close"}
    BY <1>5 DEF StartPull, RunIsMade, AsksPage, ReadPage, PageArrives, PlanJobs, JobsDone, Go
  <2>2. QED
    BY <1>1, <2>1 DEF Ok
<1>6. CASE PlaceOther
  BY <1>2, <1>6 DEF PlaceOther, pagingVars
<1>7. CASE Placed
  <2>1. pc' = "docs" /\ written' = {}
    BY <1>7 DEF Placed, Go, OutcomeInv
  <2>2. QED
    BY <2>1 DEF DocInv, Ok
<1>8. CASE WriteConversation
  <2>1. PICK c \in ToWrite :
          doc' = [doc EXCEPT ![c] = {m \in fetched : ConvOf[m] = c}] /\ written' = written \cup {c}
    BY <1>8 DEF WriteConversation
  <2>2. c \in Convs
    BY PullAssumption DEF ToWrite
  <2>3. UNCHANGED <<pc, fetched, outcome>> /\ pc = "docs"
    BY <1>8 DEF WriteConversation, pagingVars
  <2>4. \A b \in written' : doc'[b] = {m \in fetched : ConvOf[m] = b}
    BY <2>1, <2>2, <2>3 DEF DocInv, FolderType
  <2>5. QED
    BY <2>3, <2>4 DEF DocInv, Ok
<1>9. CASE Finish
  <2>1. pc = "docs" /\ ToWrite = {} /\ UNCHANGED <<fetched, written, doc>>
    BY <1>9 DEF Finish, pagingVars, folderVars
  <2>2. QED
    BY <2>1 DEF DocInv, ToWrite
<1>10. ASSUME NEW s \in Shas, Download(s) PROVE DocInv'
  <2>1. UNCHANGED <<pc, outcome, fetched, written, doc>>
    BY <1>10, DownloadMoves DEF JobStep, pagingVars
  <2>2. QED
    BY <1>2, <2>1
<1>11. ASSUME NEW p \in Paths, LoseFile(p) PROVE DocInv'
  BY <1>2, <1>11 DEF LoseFile, clientVars, pagingVars
<1>12. QED
  BY <1>3, <1>4, <1>5, <1>6, <1>7, <1>8, <1>9, <1>10, <1>11, ClientCases

(* A pull that reports success has fetched all its run listed and nothing  *)
(* else, written it, and has the right bytes at every path - whatever the  *)
(* account did meanwhile, whatever failed and was tried again, and         *)
(* whatever pulls that were killed left in the folder.  It needs that no   *)
(* two attachments write to the same name (run.rs, export_into_folder).    *)
THEOREM OkPullsAreWhole == ASSUME NamesApart PROVE Spec => []OkMeansWhole
<1> DEFINE Whole == TypeInv /\ RunInv /\ OutcomeInv /\ RecordInv /\ WalkInv /\ FolderInv /\ DocInv
<1>1. Init => Whole
  BY TypeInit, RunInit, OutcomeInit, RecordInit, WalkInit, FolderInit, DocInit
<1>2. Whole /\ [Next]_vars => Whole'
  BY TypeStep, RunStep, OutcomeStep, RecordStep, WalkStep, FolderStep, DocStep
<1>3. Whole => OkMeansWhole
  <2>1. SUFFICES ASSUME Whole, Ok PROVE
          /\ \A m \in listed[run] : life[m] # "gone" =>
               /\ m \in doc[ConvOf[m]]
               /\ ShaOf[m] # NoSha => file[Rel(m)] = ShaOf[m]
          /\ \A c \in written : doc[c] \subseteq listed[run]
    BY DEF OkMeansWhole, Ok
  <2>2. ASSUME NEW m \in listed[run], life[m] # "gone"
        PROVE  m \in doc[ConvOf[m]] /\ (ShaOf[m] # NoSha => file[Rel(m)] = ShaOf[m])
    <3>1. m \in fetched /\ m \in Msgs
      BY <2>1, <2>2 DEF WalkInv, Walked, GotAll, TypeInv, WalkType
    <3>2. ConvOf[m] \in written
      BY <2>1, <3>1 DEF DocInv, ToWrite
    <3>3. m \in doc[ConvOf[m]]
      BY <2>1, <3>1, <3>2 DEF DocInv
    <3>4. ShaOf[m] # NoSha => IsFile(Rel(m))
      BY <2>1, <3>1 DEF FolderInv, AllThere
    <3>5. QED
      BY <2>1, <3>1, <3>3, <3>4, OwnFile DEF FolderInv
  <2>3. ASSUME NEW c \in written PROVE doc[c] \subseteq listed[run]
    BY <2>1, <2>3 DEF DocInv, WalkInv, FetchedListed
  <2>4. QED
    BY <2>2, <2>3
<1>4. QED
  BY <1>1, <1>2, <1>3, PTL DEF Spec
================================================================================
