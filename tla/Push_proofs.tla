------------------------------ MODULE Push_proofs ------------------------------
(***************************************************************************)
(* What TLAPS proves about Push, for any folder, any number of workers and *)
(* any bounds: the claims on fingerprints are exact at every moment        *)
(* (ClaimInv); a file is journalled as done only with all its messages     *)
(* (DoneInv, inductive with ClaimInv); what a push in progress has in its  *)
(* journal is on the server (SentInv, inductive with DoneInv, in one mode);*)
(* no message is stored before its file (FileInv, inductive with DoneInv,  *)
(* when the run is not the push's own).  On these stand the report's rows  *)
(* (OkInv): a push that says ok stored everything (OkStored), one that     *)
(* nothing disturbs succeeds (SmoothInv), nothing listed is sent again     *)
(* (UnlistedInv), and a first push lists what it stored (FirstJournalled). *)
(***************************************************************************)
EXTENDS Push, FiniteSetTheorems, SequenceTheorems, WellFoundedInduction, TLAPS

(* Only the workers' records and the claims take part.                     *)
WorkTyped == work \in [Files -> Worker]
ClaimInv == WorkTyped /\ ClaimsExact

(* Cutting messages into chunks yields a sequence of sets of messages.     *)
LEMMA ChunksTyped ==
  ASSUME NEW U \in SUBSET Guids
  PROVE  Chunks(U) \in Seq(SUBSET Guids)
<1> DEFINE n == (Cardinality(U) + BatchSize - 1) \div BatchSize
<1>1. IsFiniteSet(U)
  BY FS_Subset, FolderAssumption DEF FolderAssumption
<1>2. Cardinality(U) \in Nat
  BY <1>1, FS_CardinalityType
<1>3. n \in Nat
  BY <1>2, ConfigAssumption DEF ConfigAssumption
<1>4. Chunks(U) \in [1..n -> SUBSET Guids]
  BY DEF Chunks
<1> HIDE DEF n
<1> QED
  BY <1>3, <1>4, SeqDef

(* A worker that takes up nothing and lets nothing go leaves claims exact. *)
LEMMA ClaimsStand ==
  ASSUME ClaimsExact, inFlight' = inFlight,
         \A f \in Files : work'[f].held = work[f].held
  PROVE  ClaimsExact'
BY DEF ClaimsExact

(* A worker with no file.                                                  *)
LEMMA IdleTyped == Idle \in Worker /\ Idle.held = {}
<1>1. <<>> \in Seq(SUBSET Guids)
  BY EmptySeq
<1> QED
  BY <1>1 DEF Idle, Worker, Progress

(* The records an action writes into one worker's place.                   *)
LEMMA WorkerWrites ==
  ASSUME NEW w \in Worker, NEW st \in Progress, NEW D \in SUBSET Digests,
         NEW c \in Seq(SUBSET Guids)
  PROVE  /\ [w EXCEPT !.st = st] \in Worker
         /\ [w EXCEPT !.held = D] \in Worker
         /\ [w EXCEPT !.up = D] \in Worker
         /\ [w EXCEPT !.bad = D] \in Worker
         /\ [w EXCEPT !.chunks = c] \in Worker
         /\ [w EXCEPT !.todo = D] \in Worker
         /\ [w EXCEPT !.busy = D] \in Worker
BY DEF Worker

(* A set of numbers has a least one.                                       *)
LEMMA LeastNat ==
  ASSUME NEW S \in SUBSET Nat, S # {}
  PROVE  Least(S) \in S
<1> DEFINE R == OpToRel(<, Nat)
<1>1. IsWellFoundedOn(R, Nat)
  BY NatLessThanWellFounded
<1>2. R = {ss \in Nat \X Nat : ss[1] < ss[2]}
  BY DEF OpToRel
<1> HIDE DEF R
<1>3. \E x \in S : \A y \in S : <<y, x>> \notin R
  BY <1>1, WFMin
<1>4. PICK x \in S : \A y \in S : <<y, x>> \notin R
  BY <1>3
<1>5. \A y \in S : x <= y
  <2> TAKE y \in S
  <2>1. <<y, x>> \in Nat \X Nat
    OBVIOUS
  <2> QED
    BY <1>4, <1>2, <2>1
<1> QED
  BY <1>4, <1>5 DEF Least

(* An error lets go of exactly what the worker held.                       *)
LEMMA GiveUpClaims ==
  ASSUME ClaimInv, NEW f \in Files, GiveUp(f)
  PROVE  ClaimInv'
<1> USE DEF ClaimInv, WorkTyped
<1>1. [Idle EXCEPT !.st = "failed"] \in Worker /\ [Idle EXCEPT !.st = "failed"].held = {}
  BY IdleTyped DEF Worker, Progress
<1>2. work' \in [Files -> Worker]
  BY <1>1 DEF GiveUp
<1>3. work'[f].held = {} /\ \A e \in Files \ {f} : work'[e] = work[e]
  BY <1>1 DEF GiveUp
<1>4. ClaimsExact'
  BY <1>3 DEF ClaimsExact, GiveUp
<1> QED
  BY <1>2, <1>4

(* A claim is new: nobody else held the fingerprint.                       *)
LEMMA ClaimClaims ==
  ASSUME ClaimInv, NEW f \in Files, NEW d \in Digests, Claim(f, d)
  PROVE  ClaimInv'
<1> DEFINE w == work[f]
<1> USE DEF ClaimInv, WorkTyped
<1>0. w \in Worker /\ w.todo \ {d} \in SUBSET Digests
      /\ w.busy \cup {d} \in SUBSET Digests /\ w.held \cup {d} \in SUBSET Digests
  BY DEF Worker
<1>1. CASE d \in inFlight
  <2>1. work' = [work EXCEPT ![f] = [w EXCEPT !.todo = w.todo \ {d},
                                              !.busy = w.busy \cup {d}]]
        /\ inFlight' = inFlight
    BY <1>1 DEF Claim
  <2>2. [w EXCEPT !.todo = w.todo \ {d}, !.busy = w.busy \cup {d}] \in Worker
    BY <1>0 DEF Worker
  <2>3. \A e \in Files : work'[e].held = work[e].held
    BY <2>1, <1>0 DEF Worker
  <2> QED
    BY <2>1, <2>2, <2>3, ClaimsStand
<1>2. CASE d \notin inFlight /\ ~force /\ d \in mem.assets
  <2>1. work' = [work EXCEPT ![f] = [w EXCEPT !.todo = w.todo \ {d}]]
        /\ inFlight' = inFlight
    BY <1>2 DEF Claim
  <2>2. [w EXCEPT !.todo = w.todo \ {d}] \in Worker
    BY <1>0 DEF Worker
  <2>3. \A e \in Files : work'[e].held = work[e].held
    BY <2>1, <1>0 DEF Worker
  <2> QED
    BY <2>1, <2>2, <2>3, ClaimsStand
<1>3. CASE d \notin inFlight /\ (force \/ d \notin mem.assets)
  <2>1. work' = [work EXCEPT ![f] = [w EXCEPT !.todo = w.todo \ {d},
                                              !.held = w.held \cup {d}]]
        /\ inFlight' = inFlight \cup {d}
    BY <1>3 DEF Claim
  <2>2. [w EXCEPT !.todo = w.todo \ {d}, !.held = w.held \cup {d}] \in Worker
    BY <1>0 DEF Worker
  <2>3. work'[f].held = w.held \cup {d} /\ \A e \in Files \ {f} : work'[e] = work[e]
    BY <2>1, <1>0 DEF Worker
  <2>4. ClaimsExact'
    BY <1>3, <2>1, <2>3 DEF ClaimsExact
  <2> QED
    BY <2>1, <2>2, <2>4
<1> QED
  BY <1>1, <1>2, <1>3 DEF Claim

(* Recording an upload ends the one claim on it.                           *)
LEMMA RecordClaims ==
  ASSUME ClaimInv, NEW f \in Files, RecordUpload(f)
  PROVE  ClaimInv'
<1> DEFINE d == Least(work[f].held)
<1>1. CASE d \in work[f].up
  <2>1. /\ work' = [work EXCEPT ![f].held = @ \ {d}]
        /\ inFlight' = inFlight \ {d}
    BY <1>1 DEF RecordUpload
  <2>2. d \in work[f].held
    <3>1. work[f].held \subseteq Nat /\ work[f].held # {}
      BY FolderAssumption DEF RecordUpload, ClaimInv, WorkTyped, Worker, FolderAssumption
    <3> QED
      BY <3>1, LeastNat
  <2> HIDE DEF d
  <2>3. work' \in [Files -> Worker] /\ \A e \in Files \ {f} : work'[e] = work[e]
    BY <2>1 DEF ClaimInv, WorkTyped, Worker
  <2>4. work'[f].held = work[f].held \ {d}
    BY <2>1 DEF ClaimInv, WorkTyped, Worker
  <2> QED
    BY <2>1, <2>2, <2>3, <2>4 DEF ClaimInv, WorkTyped, ClaimsExact
<1>2. CASE d \notin work[f].up
  BY <1>2, GiveUpClaims DEF RecordUpload
<1> QED
  BY <1>1, <1>2

(* A step of a worker other than a claim, a recording or a giving up.      *)
LEMMA WorkerMoves ==
  ASSUME ClaimInv, NEW f \in Files, NEW v \in Worker,
         v.held = work[f].held, inFlight' = inFlight,
         work' = [work EXCEPT ![f] = v]
  PROVE  ClaimInv'
<1>1. work' \in [Files -> Worker]
  BY DEF ClaimInv, WorkTyped
<1>2. \A e \in Files : work'[e].held = work[e].held
  BY DEF ClaimInv, WorkTyped
<1> QED
  BY <1>1, <1>2, ClaimsStand DEF ClaimInv, WorkTyped

(* Each step of preparing a file keeps the claims exact.                   *)
LEMMA PrepareClaims ==
  ASSUME ClaimInv, NEW f \in Files, PrepareStep(f) \/ PrepareFault(f)
  PROVE  ClaimInv'
<1> DEFINE w == work[f]
<1>0. w \in Worker /\ w.st \in Progress /\ w.todo \in SUBSET Digests
      /\ w.busy \in SUBSET Digests /\ w.up \in SUBSET Digests /\ w.bad \in SUBSET Digests
  BY DEF ClaimInv, WorkTyped, Worker
<1>1. CASE StartPrepare(f)
  <2>1. DigestsOf(f) \in SUBSET Digests
    BY FolderAssumption DEF FolderAssumption, DigestsOf, MessagesOf
  <2> DEFINE v == [w EXCEPT !.st = "claiming", !.todo = DigestsOf(f)]
  <2>2. v \in Worker /\ v.held = w.held
    BY <1>0, <2>1 DEF Worker, Progress, InWork
  <2>3. work' = [work EXCEPT ![f] = v] /\ inFlight' = inFlight
    BY <1>1 DEF StartPrepare, journalVars, ClaimInv, WorkTyped
  <2> QED
    BY <2>2, <2>3, WorkerMoves
<1>2. CASE ClaimNext(f)
  <2>1. w.todo # {} /\ w.todo \in SUBSET Nat
    BY <1>0, <1>2, FolderAssumption DEF ClaimNext, FolderAssumption
  <2>2. Least(w.todo) \in Digests
    BY <1>0, <2>1, LeastNat
  <2> QED
    BY <1>2, <2>2, ClaimClaims, GiveUpClaims DEF ClaimNext
<1>3. CASE ClaimsDone(f)
  <2> DEFINE v == [w EXCEPT !.st = "uploading"]
  <2>1. v \in Worker /\ v.held = w.held
    BY <1>0 DEF Worker, Progress, InWork
  <2> QED
    BY <1>3, <2>1, WorkerMoves DEF ClaimsDone, journalVars
<1>4. CASE RecordUpload(f)
  BY <1>4, RecordClaims
<1>5. CASE AwaitOthers(f)
  <2> DEFINE v == [w EXCEPT !.st = "waiting", !.up = {}]
  <2>1. v \in Worker /\ v.held = w.held
    BY <1>0 DEF Worker, Progress, InWork
  <2>2. work' = [work EXCEPT ![f] = v] /\ inFlight' = inFlight
    BY <1>5 DEF AwaitOthers, journalVars, ClaimInv, WorkTyped
  <2> QED
    BY <2>1, <2>2, WorkerMoves
<1>6. CASE WaitOver(f)
  <2>1. CASE w.busy \cap inFlight = {}
    <3> DEFINE v == [w EXCEPT !.st = "claiming", !.todo = w.busy, !.busy = {}]
    <3>1. v \in Worker /\ v.held = w.held
      BY <1>0 DEF Worker, Progress, InWork
    <3>2. work' = [work EXCEPT ![f] = v] /\ inFlight' = inFlight
      BY <1>6, <2>1 DEF WaitOver, ClaimInv, WorkTyped
    <3> QED
      BY <3>1, <3>2, WorkerMoves
  <2> QED
    BY <1>6, <2>1, GiveUpClaims DEF WaitOver
<1>7. CASE BuildChunks(f)
  <2>1. CASE cancelled /\ MessagesOf(f) # {}
    BY <1>7, <2>1, GiveUpClaims DEF BuildChunks
  <2>2. CASE ~(cancelled /\ MessagesOf(f) # {})
    <3> DEFINE v == [Idle EXCEPT !.st = "prepared", !.chunks = Chunks(Unsent(f))]
    <3>1. Chunks(Unsent(f)) \in Seq(SUBSET Guids)
      BY ChunksTyped DEF Unsent, MessagesOf
    <3>2. v \in Worker /\ v.held = {}
      BY <3>1, IdleTyped DEF Worker, Progress
    <3>3. w.held = {} /\ work' = [work EXCEPT ![f] = v] /\ inFlight' = inFlight
      BY <1>7, <2>2 DEF BuildChunks
    <3> QED
      BY <3>2, <3>3, WorkerMoves
  <2> QED
    BY <2>1, <2>2
<1>8. ASSUME NEW d \in Digests, UploadOk(f, d)
      PROVE  ClaimInv'
  <2> DEFINE v == [w EXCEPT !.up = w.up \cup {d}]
  <2>1. v \in Worker /\ v.held = w.held
    BY <1>0 DEF Worker
  <2>2. work' = [work EXCEPT ![f] = v] /\ inFlight' = inFlight
    BY <1>8 DEF UploadOk, journalVars
  <2> QED
    BY <2>1, <2>2, WorkerMoves
<1>9. ASSUME NEW d \in Digests, UploadFails(f, d)
      PROVE  ClaimInv'
  <2> DEFINE v == [w EXCEPT !.bad = w.bad \cup {d}]
  <2>1. v \in Worker /\ v.held = w.held
    BY <1>0 DEF Worker
  <2>2. work' = [work EXCEPT ![f] = v] /\ inFlight' = inFlight
    BY <1>9 DEF UploadFails, journalVars
  <2> QED
    BY <2>1, <2>2, WorkerMoves
<1>10. CASE PrepareFails(f)
  BY <1>10, GiveUpClaims DEF PrepareFails
<1> QED
  BY <1>1, <1>2, <1>3, <1>4, <1>5, <1>6, <1>7, <1>8, <1>9, <1>10
     DEF PrepareStep, PrepareFault

(* The main thread only hands a file to the pool or passes it over.        *)
LEMMA MainClaims ==
  ASSUME ClaimInv, Main
  PROVE  ClaimInv'
<1>1. inFlight' = inFlight
  BY DEF Main
<1>2. CASE work' = work
  BY <1>1, <1>2 DEF ClaimInv, WorkTyped, ClaimsExact
<1>3. CASE Submit /\ RoomForNext
  <2> DEFINE f == submitted + 1
             v(st) == [work[f] EXCEPT !.st = st]
  <2>1. PICK st \in {"skipped", "queued"} : work' = [work EXCEPT ![f].st = st]
    BY <1>3 DEF Submit
  <2>2. CASE f \in Files
    <3>1. work[f] \in Worker
      BY <2>2 DEF ClaimInv, WorkTyped
    <3>2. v(st) \in Worker /\ v(st).held = work[f].held
      BY <3>1, <2>1 DEF Worker, Progress
    <3>3. work' = [work EXCEPT ![f] = v(st)]
      BY <2>1
    <3> HIDE DEF v, f
    <3> QED
      BY <3>2, <3>3, <1>1, <2>2, WorkerMoves
  <2>3. CASE f \notin Files
    <3>1. work' = work
      BY <2>1, <2>3 DEF ClaimInv, WorkTyped
    <3> QED
      BY <1>2, <3>1
  <2> QED
    BY <2>2, <2>3
<1>4. CASE Submit /\ ~RoomForNext
  BY <1>2, <1>4 DEF Submit
<1> QED
  BY <1>2, <1>3, <1>4
     DEF Main, MainStep, LoopTop, WaitOne, FlushOtherSource, Consume, QueueChunk, FlushFull,
         FinishQueueing, Shutdown, SettlePush, JoinLast

(* Every step keeps the claims exact.                                      *)
LEMMA NextClaims ==
  ASSUME ClaimInv, [Next]_vars
  PROVE  ClaimInv'
<1>1. CASE work' = work /\ inFlight' = inFlight
  BY <1>1 DEF ClaimInv, WorkTyped, ClaimsExact
<1>2. CASE work' = [f \in Files |-> Idle] /\ inFlight' = {}
  BY <1>2, IdleTyped DEF ClaimInv, WorkTyped, ClaimsExact
<1>3. ASSUME NEW m \in Modes, NEW fo \in Forces, StartPush(m, fo)
      PROVE  ClaimInv'
  BY <1>2, <1>3 DEF StartPush
<1>4. CASE Main
  BY <1>4, MainClaims
<1>5. CASE Report
  BY <1>1, <1>5 DEF Report
<1>6. ASSUME NEW f \in Files, PrepareStep(f) \/ PrepareFault(f)
      PROVE  ClaimInv'
  BY <1>6, PrepareClaims
<1>7. CASE PostStep \/ PostFault
  BY <1>1, <1>7 DEF PostStep, PostFault, journalVars
<1>8. CASE Cancel \/ RunEnds
  BY <1>1, <1>8 DEF Cancel, RunEnds, journalVars
<1>9. CASE Crash
  BY <1>2, <1>9 DEF Crash
<1>10. CASE UNCHANGED vars
  BY <1>1, <1>10 DEF vars, journalVars
<1> QED
  BY <1>3, <1>4, <1>5, <1>6, <1>7, <1>8, <1>9, <1>10 DEF Next

(* The set of fingerprints in flight is, at every moment, what the workers *)
(* hold, and no two hold the same (claim_asset, AssetClaims and its Drop): *)
(* for any folder, any number of workers and after any failure, cancel or  *)
(* crash no claim is left for another worker to wait for in vain.          *)
THEOREM ClaimsAreExact == Spec => []ClaimsExact
<1>1. Init => ClaimInv
  BY IdleTyped DEF Init, ClaimInv, WorkTyped, ClaimsExact
<1>2. ClaimInv /\ [Next]_vars => ClaimInv'
  BY NextClaims
<1>3. ClaimInv => ClaimsExact
  BY DEF ClaimInv
<1> QED
  BY <1>1, <1>2, <1>3, PTL DEF Spec

--------------------------------------------------------------------------------
(* The journal.                                                            *)

Posts == [st : {"none", "sending", "ok", "err"}, msgs : SUBSET Guids, stored : BOOLEAN]

(* What the journal's invariants need of the variables' types.             *)
Typed ==
  /\ WorkTyped
  /\ disk \in Journals /\ mem \in Journals
  /\ submitted \in 0..NFiles /\ taken \in 0..NFiles
  /\ toQueue \in Seq(SUBSET Guids)
  /\ outstanding \in [Files -> SUBSET Guids]
  /\ queued \subseteq Files
  /\ pending \subseteq Guids
  /\ post \in Posts
  /\ mode \in Modes
  /\ stored \subseteq Guids

(* Every message of a file is owed by a request or already in the journal. *)
Owed(f) == MessagesOf(f) \subseteq outstanding[f] \cup mem.messages

(* A file in the main thread's hands, and one whose chunks are all queued. *)
InHand ==
  pc \in {"queue", "full"} => taken < NFiles /\ Owed(taken + 1)
QueuedOwed == \A f \in queued : Owed(f)

(* A prepared file's chunks are what was not in the journal.               *)
ChunksOwed ==
  \A f \in Files : work[f].st = "prepared" =>
    MessagesOf(f) \subseteq Tracked(f) \cup mem.messages

Complete(j) == \A f \in j.files : MessagesOf(f) \subseteq j.messages

MemOnDisk == mem.messages \subseteq disk.messages

DoneInv ==
  /\ Typed /\ InHand /\ QueuedOwed /\ ChunksOwed
  /\ Complete(mem) /\ Complete(disk) /\ MemOnDisk

(* A request that the server answered was stored.                          *)
SentStored ==
  /\ post.stored => post.msgs \subseteq stored
  /\ post.st = "ok" => post.stored
  /\ post.st = "sending" => post.msgs # {}

(* What is journalled is stored: in memory, and on disk if nothing wipes.  *)
ListedStored ==
  /\ mem.messages \subseteq stored
  /\ Modes = {"append"} => disk.messages \subseteq stored

(* A wipe comes before anything of its push was stored.                    *)
WipesFirst ==
  /\ stamped \subseteq stored
  /\ Modes = {"replace"} /\ (mem.messages # {} \/ post.stored) => stamped # {}

SentInv == SentStored /\ ListedStored /\ WipesFirst

Covered(S) == \A g \in S : AssetOf[g] \in mem.assets \cup {NoAsset}

(* What a worker has still to see to, and what it saw to.                  *)
SeenTo(f) ==
  /\ work[f].st \in InWork =>
       DigestsOf(f) \subseteq
         work[f].todo \cup work[f].busy \cup work[f].held \cup mem.assets
  /\ work[f].st \in {"uploading", "waiting"} => work[f].todo = {}
  /\ work[f].st = "waiting" => work[f].held = {}
Claimed == \A f \in Files : SeenTo(f)

(* Messages on their way to the server have their files there.             *)
QueueCovered(q) == \A i \in DOMAIN q : Covered(q[i])
AllCovered ==
  /\ \A f \in Files : work[f].st = "prepared" => QueueCovered(work[f].chunks)
  /\ QueueCovered(toQueue)
  /\ Covered(pending) /\ Covered(post.msgs)

(* While the run is running, nothing takes a file away.                    *)
Uploaded ==
  run = "running" =>
    /\ mem.assets \cup disk.assets \subseteq files
    /\ \A f \in Files : work[f].up \subseteq files

FileInv == Claimed /\ AllCovered /\ Uploaded /\ StoredWithFile

--------------------------------------------------------------------------------
(* Rounding up covers every rank below.                                    *)
LEMMA DivideUp ==
  ASSUME NEW a \in Nat, NEW b \in Nat, NEW n \in Nat \ {0}, a < b
  PROVE  a \div n + 1 \in 1..((b + n - 1) \div n)
<1> DEFINE p == a \div n
           q == (b + n - 1) \div n
<1>1. p \in Nat /\ n * p <= a
  OBVIOUS
<1>2. q \in Nat /\ b + n - 1 < n * q + n
  OBVIOUS
<1> HIDE DEF p, q
<1>3. n * p < n * q
  BY <1>1, <1>2
<1>4. p < q
  BY <1>1, <1>2, <1>3
<1> QED
  BY <1>1, <1>2, <1>4 DEF p, q

(* The chunks of a file hold all that is to be sent, and nothing else.     *)
LEMMA ChunksWhole ==
  ASSUME NEW U \in SUBSET Guids
  PROVE  UNION {Chunks(U)[i] : i \in DOMAIN Chunks(U)} = U
<1> DEFINE rank(g) == Cardinality({h \in U : h < g})
           n == (Cardinality(U) + BatchSize - 1) \div BatchSize
<1>1. IsFiniteSet(U) /\ U \subseteq Nat
  BY FS_Subset, FolderAssumption DEF FolderAssumption
<1>2. BatchSize \in Nat \ {0}
  BY ConfigAssumption DEF ConfigAssumption
<1>3. /\ DOMAIN Chunks(U) = 1..n
      /\ \A i \in 1..n : Chunks(U)[i] = {g \in U : rank(g) \div BatchSize = i - 1}
  BY DEF Chunks
<1>4. ASSUME NEW g \in U
      PROVE  \E i \in 1..n : g \in Chunks(U)[i]
  <2>1. {h \in U : h < g} \subseteq U \ {g}
    BY <1>1
  <2>2. IsFiniteSet(U \ {g}) /\ Cardinality(U \ {g}) = Cardinality(U) - 1
    BY <1>1, FS_RemoveElement
  <2>3. rank(g) \in Nat /\ rank(g) <= Cardinality(U \ {g})
    BY <2>1, <2>2, FS_Subset, FS_CardinalityType
  <2>4. Cardinality(U) \in Nat
    BY <1>1, FS_CardinalityType
  <2> HIDE DEF rank, n
  <2>5. rank(g) < Cardinality(U)
    BY <2>2, <2>3, <2>4
  <2>6. rank(g) \div BatchSize + 1 \in 1..n
    BY <2>3, <2>4, <2>5, <1>2, DivideUp DEF n
  <2>7. rank(g) \div BatchSize = (rank(g) \div BatchSize + 1) - 1
    BY <2>3, <1>2
  <2>8. g \in Chunks(U)[rank(g) \div BatchSize + 1]
    BY <1>3, <2>6, <2>7
  <2> QED
    BY <2>6, <2>8
<1> HIDE DEF n, rank
<1> QED
  BY <1>3, <1>4

--------------------------------------------------------------------------------
(* What the main thread does to the journal.                               *)

(* Adding to a journal leaves a journal.                                   *)
LEMMA AddWrites ==
  ASSUME NEW j \in Journals, NEW S \in SUBSET Guids, NEW F \in SUBSET Files
  PROVE  LET k == Add(Add(j, "messages", S), "files", F)
         IN /\ k \in Journals
            /\ k.messages = j.messages \cup S
            /\ k.files = j.files \cup F
            /\ k.assets = j.assets
BY DEF Add, Journals

(* A file that settles well is complete in the journal.                    *)
LEMMA SettleWrites ==
  ASSUME Typed, Complete(mem), Complete(disk), MemOnDisk,
         NEW F \in SUBSET Files, NEW fail, NEW qd \in SUBSET Files,
         NEW out \in [Files -> SUBSET Guids], NEW S \in SUBSET Guids,
         Settle(F, out, fail, qd, S),
         \A f \in qd : MessagesOf(f) \subseteq out[f] \cup mem.messages \cup S
  PROVE  /\ mem' \in Journals /\ disk' \in Journals
         /\ mem'.messages = mem.messages \cup S /\ mem'.assets = mem.assets
         /\ disk'.messages = disk.messages \cup S /\ disk'.assets = disk.assets
         /\ Complete(mem') /\ Complete(disk') /\ MemOnDisk'
<1> DEFINE fine == {f \in F : result[f] = "none" /\ Settles(f, out, fail, qd)} \ fail
<1>1. /\ mem' = Add(Add(mem, "messages", S), "files", fine)
      /\ disk' = Add(Add(disk, "messages", S), "files", fine)
  BY DEF Settle
<1>2. \A f \in fine : f \in qd /\ out[f] = {}
  BY DEF Settles
<1>3. fine \in SUBSET Files
  OBVIOUS
<1> HIDE DEF fine
<1>4. /\ mem' \in Journals /\ mem'.messages = mem.messages \cup S
      /\ mem'.files = mem.files \cup fine /\ mem'.assets = mem.assets
  BY <1>1, <1>3, AddWrites DEF Typed
<1>5. /\ disk' \in Journals /\ disk'.messages = disk.messages \cup S
      /\ disk'.files = disk.files \cup fine /\ disk'.assets = disk.assets
  BY <1>1, <1>3, AddWrites DEF Typed
<1>6. \A f \in fine : MessagesOf(f) \subseteq mem.messages \cup S
  BY <1>2
<1>7. MemOnDisk' /\ \A f \in fine : MessagesOf(f) \subseteq disk.messages \cup S
  BY <1>4, <1>5, <1>6 DEF MemOnDisk
<1>8. Complete(mem') /\ Complete(disk')
  BY <1>4, <1>5, <1>6, <1>7 DEF Complete
<1> QED
  BY <1>4, <1>5, <1>7, <1>8

(* Applying a request that has ended: what it was owed is in the journal.  *)
LEMMA JoinWrites ==
  ASSUME DoneInv, Join
  PROVE  /\ mem' \in Journals /\ disk' \in Journals
         /\ mem'.messages = mem.messages \cup Accepted /\ mem'.assets = mem.assets
         /\ disk'.messages = disk.messages \cup Accepted /\ disk'.assets = disk.assets
         /\ Complete(mem') /\ Complete(disk') /\ MemOnDisk'
         /\ outstanding' \in [Files -> SUBSET Guids]
         /\ \A f \in Files : Owed(f) => Owed(f)'
<1>1. post.msgs \in SUBSET Guids /\ Accepted \in SUBSET Guids
  BY DEF DoneInv, Typed, Posts, Accepted
<1>2. FilesOf(post.msgs) \in SUBSET Files
  BY <1>1, FolderAssumption DEF FilesOf, FolderAssumption
<1>3. outstanding' \in [Files -> SUBSET Guids]
      /\ \A f \in Files : outstanding'[f] = outstanding[f] \ Accepted
  BY DEF Join, DoneInv, Typed
<1>4. \A f \in queued : MessagesOf(f) \subseteq outstanding'[f] \cup mem.messages \cup Accepted
  BY <1>3 DEF DoneInv, QueuedOwed, Owed, Typed
<1>5. Settle(FilesOf(post.msgs), outstanding', failed', queued, Accepted)
  BY DEF Join
<1>6. /\ mem' \in Journals /\ disk' \in Journals
      /\ mem'.messages = mem.messages \cup Accepted /\ mem'.assets = mem.assets
      /\ disk'.messages = disk.messages \cup Accepted /\ disk'.assets = disk.assets
      /\ Complete(mem') /\ Complete(disk') /\ MemOnDisk'
  <2>1. queued \in SUBSET Files
    BY DEF DoneInv, Typed
  <2> QED
    BY <1>1, <1>2, <1>3, <1>4, <1>5, <2>1, SettleWrites DEF DoneInv
<1>7. \A f \in Files : Owed(f) => Owed(f)'
  BY <1>3, <1>6 DEF Owed, MessagesOf
<1> QED
  BY <1>3, <1>6, <1>7

(* What a request can be after a step of the main thread.                  *)
PostMoves ==
  \/ post' = post
  \/ post' = NoPost
  \/ /\ pending # {} /\ post' \in Posts
     /\ post'.st = "sending" /\ post'.msgs = pending /\ ~post'.stored

LEMMA PostTyped ==
  ASSUME post \in Posts, PostMoves
  PROVE  post' \in Posts
<1>1. NoPost \in Posts
  BY DEF NoPost, Posts
<1> QED
  BY <1>1 DEF PostMoves

(* What a step of the main thread does to the journal: nothing, or it adds *)
(* what the request that ended had accepted.                               *)
JournalMoves ==
  /\ mem' \in Journals /\ disk' \in Journals
  /\ mem'.assets = mem.assets /\ disk'.assets = disk.assets
  /\ \E S \in {{}, Accepted} :
       mem'.messages = mem.messages \cup S /\ disk'.messages = disk.messages \cup S
  /\ Complete(mem') /\ Complete(disk') /\ MemOnDisk'
  /\ PostMoves

(* A flush joins the request in flight and sends the batch.                *)
LEMMA FlushWrites ==
  ASSUME DoneInv, Flush
  PROVE  /\ JournalMoves
         /\ outstanding' \in [Files -> SUBSET Guids]
         /\ \A f \in Files : Owed(f) => Owed(f)'
         /\ pending' = {}
<1>1. NoPost \in Posts /\ ~NoPost.stored
  BY DEF NoPost, Posts
<1>2. pending \in SUBSET Guids
  BY DEF DoneInv, Typed
<1>3. PostMoves
  <2> DEFINE r == [NoPost EXCEPT !.st = "sending", !.msgs = pending]
  <2> HIDE DEF NoPost
  <2>1. r \in Posts /\ r.st = "sending" /\ r.msgs = pending /\ ~r.stored
    BY <1>1, <1>2 DEF Posts
  <2> QED
    BY <2>1 DEF Flush, PostMoves
<1> QED
  BY <1>3, JoinWrites DEF Flush, JournalMoves

(* A step that leaves the journal and the request alone.                   *)
LEMMA NoMoves ==
  ASSUME DoneInv, mem' = mem, disk' = disk, post' = post
  PROVE  JournalMoves
<1>1. MemOnDisk'
  BY DEF DoneInv, MemOnDisk
<1>2. Complete(mem') /\ Complete(disk')
  BY DEF DoneInv
<1>3. mem.messages = mem.messages \cup {} /\ disk.messages = disk.messages \cup {}
  OBVIOUS
<1> QED
  BY <1>1, <1>2, <1>3 DEF JournalMoves, PostMoves, DoneInv, Typed

(* A step of the main thread that hands no file over.                      *)
LEMMA StepDone ==
  ASSUME DoneInv, WorkTyped', JournalMoves, InHand', QueuedOwed',
         queued' \subseteq Files, submitted' \in 0..NFiles, taken' \in 0..NFiles,
         toQueue' \in Seq(SUBSET Guids), pending' \subseteq Guids,
         outstanding' \in [Files -> SUBSET Guids],
         mode' = mode, stored' = stored,
         \A f \in Files : work'[f].st = "prepared" => work'[f] = work[f]
  PROVE  DoneInv'
<1>1. mem.messages \subseteq mem'.messages
  BY DEF JournalMoves
<1>2. Typed'
  BY PostTyped DEF DoneInv, Typed, JournalMoves
<1>3. ChunksOwed'
  <2> SUFFICES ASSUME NEW f \in Files, work'[f].st = "prepared"
               PROVE  MessagesOf(f) \subseteq Tracked(f)' \cup mem'.messages
    BY DEF ChunksOwed, MessagesOf
  <2>1. work'[f] = work[f] /\ work[f].st = "prepared"
    OBVIOUS
  <2>2. Tracked(f)' = Tracked(f)
    BY <2>1 DEF Tracked
  <2> QED
    BY <2>1, <2>2, <1>1 DEF DoneInv, ChunksOwed
<1> QED
  BY <1>2, <1>3 DEF DoneInv, JournalMoves, Complete

(* What was owed of a file stays owed until it is in the journal.          *)
LEMMA OwedStands ==
  ASSUME JournalMoves, outstanding' = outstanding, NEW f, Owed(f)
  PROVE  Owed(f)'
BY DEF Owed, JournalMoves, MessagesOf

(* A flush outside the queueing of a file.                                 *)
LEMMA FlushDone ==
  ASSUME DoneInv, Flush, queued' = queued, work' = work,
         submitted' = submitted, taken' = taken, mode' = mode, stored' = stored,
         toQueue' \in Seq(SUBSET Guids),
         pc' \in {"queue", "full"} => pc \in {"queue", "full"}
  PROVE  DoneInv' /\ JournalMoves
<1>1. /\ JournalMoves /\ outstanding' \in [Files -> SUBSET Guids]
      /\ \A f \in Files : Owed(f) => Owed(f)'
      /\ pending' = {}
  BY FlushWrites
<1>2. NFiles \in Nat /\ Typed
  BY FolderAssumption DEF FolderAssumption, DoneInv
<1>3. InHand'
  BY <1>1, <1>2 DEF DoneInv, InHand, Typed, Files, Owed, MessagesOf
<1>4. QueuedOwed'
  BY <1>1, <1>2 DEF DoneInv, QueuedOwed, Typed
<1>5. WorkTyped'
  BY <1>2 DEF Typed, WorkTyped
<1> QED
  BY <1>1, <1>2, <1>3, <1>4, <1>5, StepDone DEF Typed

(* A step that leaves the journal, the request and what is owed alone.     *)
LEMMA QuietDone ==
  ASSUME DoneInv, WorkTyped', mem' = mem, disk' = disk, post' = post,
         outstanding' = outstanding, queued' = queued,
         submitted' \in 0..NFiles, taken' \in 0..NFiles,
         toQueue' \in Seq(SUBSET Guids), pending' \subseteq Guids,
         mode' = mode, stored' = stored,
         pc' \in {"queue", "full"} => pc \in {"queue", "full"} /\ taken' = taken,
         \A f \in Files : work'[f].st = "prepared" => work'[f] = work[f]
  PROVE  DoneInv' /\ JournalMoves
<1>1. JournalMoves
  BY NoMoves
<1>2. InHand'
  BY <1>1 DEF DoneInv, InHand, Owed, MessagesOf
<1>3. QueuedOwed'
  BY <1>1, OwedStands DEF DoneInv, QueuedOwed
<1> QED
  BY <1>1, <1>2, <1>3, StepDone DEF DoneInv, Typed

(* The step that takes a prepared file in hand: its chunks are owed.       *)
LEMMA ConsumeDone ==
  ASSUME DoneInv, Main, Consume
  PROVE  DoneInv' /\ JournalMoves
<1>0. /\ mode' = mode /\ stored' = stored /\ work' = work /\ queued' = queued
      /\ submitted' = submitted /\ pending' = pending /\ mem' = mem /\ disk' = disk
      /\ post' = post
  BY DEF Main, Consume, configVars, serverVars
<1>1. Typed /\ WorkTyped'
  BY <1>0 DEF DoneInv, Typed, WorkTyped
<1>2. CASE pc' # "queue"
  <2>1. pc' \notin {"queue", "full"}
    BY <1>2 DEF Consume
  <2>2. taken' \in 0..NFiles
    BY <1>1, FolderAssumption DEF Consume, Ready, Files, Typed, FolderAssumption
  <2>3. outstanding' = outstanding /\ toQueue' = toQueue
    BY <1>2 DEF Consume
  <2> QED
    BY <1>0, <1>1, <2>1, <2>2, <2>3, QuietDone DEF Typed
<1>3. CASE pc' = "queue"
  <2>1. PICK f \in Files :
          /\ f = taken + 1 /\ work[f].st = "prepared" /\ taken' = taken
          /\ toQueue' = work[f].chunks
          /\ outstanding' = [outstanding EXCEPT ![f] = Tracked(f)]
    BY <1>3 DEF Consume, Ready
  <2>2. work[f].chunks \in Seq(SUBSET Guids)
    BY <1>1, <2>1 DEF Typed, WorkTyped, Worker
  <2>3. Tracked(f) \in SUBSET Guids
    <3>1. \A i \in DOMAIN work[f].chunks : work[f].chunks[i] \in SUBSET Guids
      BY <2>2
    <3> QED
      BY <3>1 DEF Tracked
  <2>4. JournalMoves
    BY <1>0, NoMoves
  <2>5. MessagesOf(f) \subseteq Tracked(f) \cup mem.messages
    BY <2>1 DEF DoneInv, ChunksOwed
  <2>6. outstanding' \in [Files -> SUBSET Guids] /\ outstanding'[f] = Tracked(f)
        /\ \A e \in Files \ {f} : outstanding'[e] = outstanding[e]
    BY <2>1, <2>3, <1>1 DEF Typed
  <2>7. Owed(f)' /\ \A e \in Files \ {f} : Owed(e) => Owed(e)'
    BY <2>5, <2>6, <1>0 DEF Owed, MessagesOf
  <2>8. QueuedOwed'
    BY <2>7, <1>0, <1>1 DEF DoneInv, QueuedOwed, Typed
  <2>9. InHand'
    <3>1. taken < NFiles
      BY <2>1, <1>1, FolderAssumption DEF Files, Typed, FolderAssumption
    <3> QED
      BY <3>1, <2>1, <2>7 DEF InHand, Owed, MessagesOf
  <2> QED
    BY <1>0, <1>1, <2>1, <2>2, <2>4, <2>6, <2>8, <2>9, StepDone DEF Typed
<1> QED
  BY <1>2, <1>3

(* The file in hand has no more chunks to queue.                           *)
LEMMA FinishDone ==
  ASSUME DoneInv, Main, FinishQueueing
  PROVE  DoneInv' /\ JournalMoves
<1>0. /\ mode' = mode /\ stored' = stored /\ work' = work /\ queued' = queued \cup {taken + 1}
      /\ submitted' = submitted /\ pending' = pending /\ post' = post
      /\ outstanding' = outstanding /\ taken' = taken + 1 /\ pc' = "consume" /\ toQueue' = toQueue
  BY DEF Main, FinishQueueing, configVars, serverVars
<1>1. Typed /\ WorkTyped'
  BY <1>0 DEF DoneInv, Typed, WorkTyped
<1>2. PICK f \in Files : f = taken + 1 /\ f \in 0..NFiles /\ Owed(f)
  BY <1>1, FolderAssumption DEF FinishQueueing, DoneInv, InHand, Typed, Files, FolderAssumption
<1>3. \A e \in queued' : MessagesOf(e) \subseteq outstanding[e] \cup mem.messages \cup {}
  BY <1>0, <1>2 DEF DoneInv, QueuedOwed, Owed
<1>4. queued' \in SUBSET Files /\ {f} \in SUBSET Files /\ {} \in SUBSET Guids
      /\ outstanding \in [Files -> SUBSET Guids]
  BY <1>0, <1>1, <1>2 DEF Typed
<1>5. Settle({f}, outstanding, failed, queued', {})
  BY <1>2 DEF FinishQueueing
<1>6. /\ mem' \in Journals /\ disk' \in Journals
      /\ mem'.messages = mem.messages \cup {} /\ mem'.assets = mem.assets
      /\ disk'.messages = disk.messages \cup {} /\ disk'.assets = disk.assets
      /\ Complete(mem') /\ Complete(disk') /\ MemOnDisk'
  <2>1. Complete(mem) /\ Complete(disk) /\ MemOnDisk
    BY DEF DoneInv
  <2>2. PICK qd \in SUBSET Files : qd = queued'
    BY <1>4
  <2>3. PICK S \in SUBSET Guids : S = {}
    BY <1>4
  <2>4. Settle({f}, outstanding, failed, qd, S)
    BY <1>5, <2>2, <2>3
  <2>5. \A e \in qd : MessagesOf(e) \subseteq outstanding[e] \cup mem.messages \cup S
    BY <1>3, <2>2, <2>3
  <2>6. /\ mem' \in Journals /\ disk' \in Journals
        /\ mem'.messages = mem.messages \cup S /\ mem'.assets = mem.assets
        /\ disk'.messages = disk.messages \cup S /\ disk'.assets = disk.assets
        /\ Complete(mem') /\ Complete(disk') /\ MemOnDisk'
    BY <2>1, <2>4, <2>5, <1>4, <1>1, SettleWrites
  <2> QED
    BY <2>3, <2>6
<1>7. JournalMoves
  BY <1>6, <1>0 DEF JournalMoves, PostMoves
<1>8. QueuedOwed'
  BY <1>3, <1>0, <1>6 DEF QueuedOwed, Owed, MessagesOf
<1>9. InHand'
  BY <1>0 DEF InHand
<1> QED
  BY <1>0, <1>1, <1>2, <1>4, <1>7, <1>8, <1>9, StepDone DEF Typed

(* A chunk goes to the pending batch, or the batch goes out before it.     *)
LEMMA QueueDone ==
  ASSUME DoneInv, Main, QueueChunk \/ FlushFull
  PROVE  DoneInv' /\ JournalMoves
<1>0. /\ mode' = mode /\ stored' = stored /\ work' = work /\ queued' = queued
      /\ submitted' = submitted /\ taken' = taken /\ pc \in {"queue", "full"}
  BY DEF Main, QueueChunk, FlushFull, configVars, serverVars, queueVars
<1>1. Typed /\ WorkTyped' /\ toQueue \in Seq(SUBSET Guids) /\ <<>> \in Seq(SUBSET Guids)
  BY <1>0, EmptySeq DEF DoneInv, Typed, WorkTyped
<1>2. CASE Flush /\ AfterFlush(taken + 1, toQueue)
  <2>1. toQueue' \in Seq(SUBSET Guids)
    BY <1>1, <1>2 DEF AfterFlush
  <2> QED
    BY <1>0, <1>2, <2>1, FlushDone
<1>3. CASE QueueChunk /\ ~(Flush /\ AfterFlush(taken + 1, toQueue))
  <2>1. /\ toQueue # <<>> /\ pending' = pending \cup Head(toQueue)
        /\ toQueue' = Tail(toQueue)
        /\ outstanding' = outstanding /\ mem' = mem /\ disk' = disk /\ post' = post
    BY <1>3 DEF QueueChunk
  <2>2. Head(toQueue) \in SUBSET Guids /\ Tail(toQueue) \in Seq(SUBSET Guids)
    BY <1>1, <2>1, HeadTailProperties
  <2>3. pending' \subseteq Guids
    BY <2>1, <2>2, <1>1 DEF Typed
  <2> QED
    BY <1>0, <1>1, <2>1, <2>2, <2>3, QuietDone DEF Typed
<1> QED
  BY <1>2, <1>3 DEF FlushFull

(* Handing a file to the pool, or passing it over.                         *)
LEMMA SubmitDone ==
  ASSUME DoneInv, WorkTyped', Main, Submit
  PROVE  DoneInv' /\ JournalMoves
<1>0. /\ mode' = mode /\ stored' = stored /\ queued' = queued /\ taken' = taken
      /\ toQueue' = toQueue /\ outstanding' = outstanding /\ pending' = pending
      /\ post' = post /\ mem' = mem /\ disk' = disk
      /\ pc' \notin {"queue", "full"}
  BY DEF Main, Submit, configVars, serverVars
<1>1. Typed
  BY DEF DoneInv
<1>2. submitted' \in 0..NFiles
  BY <1>1, FolderAssumption DEF Submit, RoomForNext, Typed, FolderAssumption
<1>3. \A f \in Files : work'[f].st = "prepared" => work'[f] = work[f]
  <2>1. CASE RoomForNext
    <3>1. PICK st \in {"skipped", "queued"} : work' = [work EXCEPT ![submitted + 1].st = st]
      BY <2>1 DEF Submit
    <3>2. \A f \in Files : work[f] \in Worker
      BY <1>1 DEF Typed, WorkTyped
    <3>3. \A f \in Files : f # submitted + 1 => work'[f] = work[f]
      BY <3>1, <1>1 DEF Typed, WorkTyped
    <3>4. submitted + 1 \in Files => work'[submitted + 1].st = st
      BY <3>1, <3>2, <1>1 DEF Typed, WorkTyped, Worker
    <3> QED
      BY <3>3, <3>4
  <2>2. CASE ~RoomForNext
    BY <2>2 DEF Submit
  <2> QED
    BY <2>1, <2>2
<1> QED
  BY <1>0, <1>1, <1>2, <1>3, QuietDone DEF Typed

(* The report's eve: the last request is joined, nothing more goes out.    *)
LEMMA JoinDone ==
  ASSUME DoneInv, Main, Join, post' = NoPost, pending' \subseteq Guids,
         queued' = queued, work' = work, toQueue' = toQueue,
         submitted' = submitted, taken' = taken, pc' = "report"
  PROVE  DoneInv' /\ JournalMoves
<1>1. mode' = mode /\ stored' = stored
  BY DEF Main, configVars, serverVars
<1>2. Typed /\ WorkTyped'
  BY DEF DoneInv, Typed, WorkTyped
<1>3. PostMoves
  BY DEF PostMoves
<1>4. JournalMoves /\ outstanding' \in [Files -> SUBSET Guids]
      /\ \A f \in Files : Owed(f) => Owed(f)'
  BY <1>3, JoinWrites DEF JournalMoves
<1>5. QueuedOwed'
  BY <1>4, <1>2 DEF DoneInv, QueuedOwed, Typed
<1>6. InHand'
  BY DEF InHand
<1> QED
  BY <1>1, <1>2, <1>4, <1>5, <1>6, StepDone DEF Typed

(* Every step of the main thread.                                          *)
LEMMA MainDone ==
  ASSUME DoneInv, WorkTyped', Main
  PROVE  DoneInv' /\ JournalMoves
<1>0. mode' = mode /\ stored' = stored
  BY DEF Main, configVars, serverVars
<1>1. Typed
  BY DEF DoneInv
<1>2. CASE LoopTop
  <2>1. /\ submitted' = submitted /\ taken' = taken /\ toQueue' = toQueue /\ work' = work
        /\ queued' = queued /\ pc' \notin {"queue", "full"}
    BY <1>2 DEF LoopTop, queueVars, pipeVars, NoPipe, Abort
  <2>2. CASE Flush
    BY <1>0, <1>1, <2>1, <2>2, FlushDone DEF Typed
  <2>3. CASE NoPipe
    BY <1>0, <1>1, <2>1, <2>3, QuietDone DEF Typed, NoPipe, pipeVars
  <2> QED
    BY <1>2, <2>2, <2>3 DEF LoopTop
<1>3. CASE Submit
  BY <1>3, SubmitDone
<1>4. CASE WaitOne
  <2>1. /\ submitted' = submitted /\ taken' = taken /\ toQueue' = toQueue /\ work' = work
        /\ pc' = "consume" /\ NoPipe
    BY <1>4 DEF WaitOne
  <2> QED
    BY <1>0, <1>1, <2>1, QuietDone DEF Typed, NoPipe, pipeVars
<1>5. CASE FlushOtherSource
  <2>1. /\ submitted' = submitted /\ taken' = taken /\ toQueue' = toQueue /\ work' = work
        /\ queued' = queued /\ pc' \notin {"queue", "full"} /\ Flush
    BY <1>5 DEF FlushOtherSource, queueVars, Abort
  <2> QED
    BY <1>0, <1>1, <2>1, FlushDone DEF Typed
<1>6. CASE Consume
  BY <1>6, ConsumeDone
<1>7. CASE QueueChunk \/ FlushFull
  BY <1>7, QueueDone
<1>8. CASE FinishQueueing
  BY <1>8, FinishDone
<1>9. CASE Shutdown
  <2>1. /\ submitted' = submitted /\ taken' = taken /\ toQueue' = toQueue /\ work' = work
        /\ pc' = "settle" /\ NoPipe
    BY <1>9 DEF Shutdown, queueVars
  <2> QED
    BY <1>0, <1>1, <2>1, QuietDone DEF Typed, NoPipe, pipeVars
<1>10. CASE SettlePush
  <2>1. /\ submitted' = submitted /\ taken' = taken /\ toQueue' = toQueue /\ work' = work
        /\ queued' = queued /\ pc' \notin {"queue", "full"}
    BY <1>10 DEF SettlePush, queueVars
  <2>2. CASE Flush
    BY <1>0, <1>1, <2>1, <2>2, FlushDone DEF Typed
  <2>3. CASE Join /\ post' = NoPost /\ pending' = {} /\ pc' = "report"
    BY <2>1, <2>3, JoinDone
  <2> QED
    BY <1>10, <2>2, <2>3 DEF SettlePush
<1>11. CASE JoinLast
  <2>1. /\ submitted' = submitted /\ taken' = taken /\ toQueue' = toQueue /\ work' = work
        /\ queued' = queued /\ pending' = pending /\ pc' = "report" /\ post' = NoPost /\ Join
    BY <1>11 DEF JoinLast, queueVars
  <2> QED
    BY <1>1, <2>1, JoinDone DEF Typed
<1> QED
  BY <1>2, <1>3, <1>4, <1>5, <1>6, <1>7, <1>8, <1>9, <1>10, <1>11 DEF Main, MainStep

(* What an error leaves of a worker's record.                              *)
LEMMA GivenUp ==
  ASSUME WorkTyped, NEW f \in Files, GiveUp(f)
  PROVE  \A e \in Files : work'[e].st = "prepared" => work'[e] = work[e]
<1>1. [Idle EXCEPT !.st = "failed"].st = "failed"
  BY DEF Idle
<1> HIDE DEF Idle
<1> QED
  BY <1>1 DEF GiveUp, WorkTyped

(* A worker's step: what the journal gains is an attachment, and a file it *)
(* finishes has its unsent messages in chunks.                             *)
LEMMA PrepareWork ==
  ASSUME Typed, NEW f \in Files, PrepareStep(f) \/ PrepareFault(f)
  PROVE  \A e \in Files : work'[e].st = "prepared" =>
           \/ work'[e] = work[e]
           \/ BuildChunks(e) /\ work'[e].chunks = Chunks(Unsent(e))
<1>0. work \in [Files -> Worker]
  BY DEF Typed, WorkTyped
<1>1. CASE GiveUp(f)
  BY <1>1, GivenUp DEF Typed
<1>2. ASSUME \A e \in Files \ {f} : work'[e] = work[e], work'[f].st # "prepared"
      PROVE  \A e \in Files : work'[e].st = "prepared" => work'[e] = work[e]
  BY <1>2
<1>3. CASE StartPrepare(f)
  BY <1>0, <1>2, <1>3 DEF StartPrepare, Worker
<1>4. CASE ClaimNext(f)
  <2>1. CASE GiveUp(f)
    BY <1>1, <2>1
  <2>2. ASSUME NEW d, Claim(f, d)
        PROVE  /\ \A e \in Files \ {f} : work'[e] = work[e]
               /\ work'[f].st = work[f].st
    BY <1>0, <2>2 DEF Claim, Worker
  <2> QED
    BY <1>2, <1>4, <2>1, <2>2 DEF ClaimNext
<1>5. CASE ClaimsDone(f)
  BY <1>0, <1>2, <1>5 DEF ClaimsDone, Worker
<1>6. CASE RecordUpload(f)
  <2>1. CASE GiveUp(f)
    BY <1>1, <2>1
  <2>2. CASE ~GiveUp(f)
    <3>1. work[f].st = "uploading"
          /\ work' = [work EXCEPT ![f].held = @ \ {Least(work[f].held)}]
      BY <1>6, <2>2 DEF RecordUpload
    <3> QED
      BY <1>0, <1>2, <3>1 DEF Worker
  <2> QED
    BY <2>1, <2>2
<1>7. CASE AwaitOthers(f)
  BY <1>0, <1>2, <1>7 DEF AwaitOthers, Worker
<1>8. CASE WaitOver(f)
  <2>1. CASE ~GiveUp(f)
    BY <1>0, <1>2, <1>8, <2>1 DEF WaitOver, Worker
  <2> QED
    BY <1>1, <2>1
<1>9. CASE BuildChunks(f)
  <2>1. CASE ~GiveUp(f)
    <3> DEFINE v == [Idle EXCEPT !.st = "prepared", !.chunks = Chunks(Unsent(f))]
    <3>1. v.chunks = Chunks(Unsent(f))
      BY DEF Idle
    <3>2. work' = [work EXCEPT ![f] = v]
      BY <1>9, <2>1 DEF BuildChunks
    <3> HIDE DEF v
    <3> QED
      BY <1>0, <1>9, <3>1, <3>2
  <2> QED
    BY <1>1, <2>1
<1>10. ASSUME NEW d \in Digests, UploadOk(f, d) \/ UploadFails(f, d)
       PROVE  /\ \A e \in Files \ {f} : work'[e] = work[e]
              /\ work'[f].st # "prepared"
  BY <1>0, <1>10 DEF UploadOk, UploadFails, Worker
<1>11. CASE PrepareFails(f)
  BY <1>1, <1>11 DEF PrepareFails
<1> QED
  BY <1>1, <1>2, <1>3, <1>4, <1>5, <1>6, <1>7, <1>8, <1>9, <1>10, <1>11
     DEF PrepareStep, PrepareFault

(* What a worker writes to the journal: the attachments that went up.      *)
LEMMA PrepareJournal ==
  ASSUME Typed, NEW f \in Files, PrepareStep(f) \/ PrepareFault(f)
  PROVE  /\ mem' \in Journals /\ disk' \in Journals
         /\ mem'.messages = mem.messages /\ mem'.files = mem.files
         /\ disk'.messages = disk.messages /\ disk'.files = disk.files
         /\ \E D \in SUBSET work[f].up :
              mem'.assets = mem.assets \cup D /\ disk'.assets = disk.assets \cup D
<1>0. work[f] \in Worker
  BY DEF Typed, WorkTyped
<1>1. CASE mem' = mem /\ disk' = disk
  <2>1. {} \in SUBSET work[f].up /\ mem.assets = mem.assets \cup {}
        /\ disk.assets = disk.assets \cup {}
    OBVIOUS
  <2>2. \E D \in SUBSET work[f].up :
          mem'.assets = mem.assets \cup D /\ disk'.assets = disk.assets \cup D
    BY <1>1, <2>1
  <2> QED
    BY <1>1, <2>2 DEF Typed
<1>2. CASE RecordUpload(f) /\ ~(mem' = mem /\ disk' = disk)
  <2>1. PICK d : d = Least(work[f].held)
    OBVIOUS
  <2>2. d \in work[f].up /\ Journal("assets", {d})
    BY <1>2, <2>1 DEF RecordUpload
  <2>3. d \in Digests
    BY <2>2, <1>0 DEF Worker
  <2>4. \A j \in Journals :
          /\ Add(j, "assets", {d}) \in Journals
          /\ Add(j, "assets", {d}).assets = j.assets \cup {d}
          /\ Add(j, "assets", {d}).messages = j.messages
          /\ Add(j, "assets", {d}).files = j.files
    BY <2>3 DEF Add, Journals
  <2>5. {d} \in SUBSET work[f].up
    BY <2>2
  <2> QED
    BY <2>2, <2>4, <2>5 DEF Journal, Typed
<1> QED
  BY <1>1, <1>2
     DEF PrepareStep, PrepareFault, StartPrepare, ClaimNext, ClaimsDone, RecordUpload,
         AwaitOthers, WaitOver, BuildChunks, PrepareFails, UploadOk, UploadFails,
         journalVars, Typed

(* A worker's step keeps the journal's promise.                            *)
LEMMA PrepareDone ==
  ASSUME DoneInv, WorkTyped', NEW f \in Files, PrepareStep(f) \/ PrepareFault(f)
  PROVE  DoneInv'
<1>1. Typed
  BY DEF DoneInv
<1>2. /\ submitted' = submitted /\ taken' = taken /\ toQueue' = toQueue /\ pc' = pc
      /\ outstanding' = outstanding /\ queued' = queued /\ pending' = pending
      /\ post' = post /\ mode' = mode
  BY DEF PrepareStep, PrepareFault, queueVars, mainVars, pipeVars, configVars
<1>3. stored' = stored
  BY DEF PrepareStep, PrepareFault, StartPrepare, ClaimNext, ClaimsDone, RecordUpload,
         AwaitOthers, WaitOver, BuildChunks, PrepareFails, UploadOk, UploadFails, serverVars
<1>4. /\ mem' \in Journals /\ disk' \in Journals
      /\ mem'.messages = mem.messages /\ mem'.files = mem.files
      /\ disk'.messages = disk.messages /\ disk'.files = disk.files
  BY <1>1, PrepareJournal
<1>5. Typed'
  BY <1>1, <1>2, <1>3, <1>4 DEF Typed
<1>6. \A e : Owed(e) => Owed(e)'
  BY <1>2, <1>4 DEF Owed, MessagesOf
<1>7. ChunksOwed'
  <2> SUFFICES ASSUME NEW e \in Files, work'[e].st = "prepared"
               PROVE  MessagesOf(e) \subseteq Tracked(e)' \cup mem'.messages
    BY DEF ChunksOwed, MessagesOf
  <2>1. CASE work'[e] = work[e]
    <3>1. Tracked(e)' = Tracked(e)
      BY <2>1 DEF Tracked
    <3> QED
      BY <2>1, <3>1, <1>4 DEF DoneInv, ChunksOwed
  <2>2. CASE BuildChunks(e) /\ work'[e].chunks = Chunks(Unsent(e))
    <3>1. Unsent(e) \in SUBSET Guids /\ MessagesOf(e) \subseteq Unsent(e) \cup mem.messages
      BY DEF Unsent, MessagesOf
    <3>2. UNION {Chunks(Unsent(e))[i] : i \in DOMAIN Chunks(Unsent(e))} = Unsent(e)
      BY <3>1, ChunksWhole
    <3>3. Tracked(e)' = Unsent(e)
      BY <2>2, <3>2 DEF Tracked
    <3> QED
      BY <3>1, <3>3, <1>4
  <2> QED
    BY <1>1, <2>1, <2>2, PrepareWork
<1>8. InHand' /\ QueuedOwed'
  BY <1>2, <1>6 DEF DoneInv, InHand, QueuedOwed, Owed, MessagesOf
<1>9. Complete(mem') /\ Complete(disk') /\ MemOnDisk'
  BY <1>4 DEF DoneInv, Complete, MemOnDisk
<1> QED
  BY <1>5, <1>7, <1>8, <1>9 DEF DoneInv, Complete

(* A push that starts, and a process that dies, owe nothing yet.           *)
LEMMA FreshDone ==
  ASSUME DoneInv, work' = [f \in Files |-> Idle],
         mem' \in {Blank, disk}, disk' = disk, post' = NoPost,
         outstanding' = [f \in Files |-> {}], queued' = {},
         submitted' = 0, taken' = 0, pc' \in {"idle", "loop"},
         toQueue' = <<>>, pending' = {}, mode' \in Modes, stored' = stored
  PROVE  DoneInv'
<1>1. Typed
  BY DEF DoneInv
<1>2. Blank \in Journals /\ Blank.messages = {} /\ Complete(Blank)
  BY DEF Blank, Journals, Complete
<1>3. mem' \in Journals /\ Complete(mem') /\ Complete(disk') /\ MemOnDisk'
  BY <1>1, <1>2 DEF DoneInv, Typed, MemOnDisk
<1>4. NoPost \in Posts /\ <<>> \in Seq(SUBSET Guids) /\ NFiles \in Nat
  BY EmptySeq, FolderAssumption DEF NoPost, Posts, FolderAssumption
<1>5. WorkTyped' /\ Idle.st = "none"
  BY IdleTyped DEF WorkTyped, Idle
<1>6. Typed'
  BY <1>1, <1>3, <1>4, <1>5 DEF Typed
<1>7. ChunksOwed'
  BY <1>5 DEF ChunksOwed
<1>8. InHand' /\ QueuedOwed'
  BY DEF InHand, QueuedOwed
<1> QED
  BY <1>3, <1>6, <1>7, <1>8 DEF DoneInv, Complete

(* What the server and the request's answer do leaves the journal alone.   *)
LEMMA OutsideDone ==
  ASSUME DoneInv, work' = work, mem' = mem, disk' \in {disk, mem},
         post' \in Posts, stored' \subseteq Guids,
         outstanding' = outstanding, queued' = queued, submitted' = submitted,
         taken' = taken, pc' = pc \/ pc' = "idle", toQueue' = toQueue,
         pending' = pending, mode' = mode
  PROVE  DoneInv'
<1>1. Typed'
  BY DEF DoneInv, Typed, WorkTyped
<1>2. Complete(mem') /\ Complete(disk') /\ MemOnDisk'
  BY DEF DoneInv, MemOnDisk
<1>3. InHand' /\ QueuedOwed'
  BY DEF DoneInv, InHand, QueuedOwed, Owed, MessagesOf
<1>4. ChunksOwed'
  BY DEF DoneInv, ChunksOwed, Tracked, MessagesOf
<1> QED
  BY <1>1, <1>2, <1>3, <1>4 DEF DoneInv, Complete

(* What answers a request, and what the server makes of it.                *)
LEMMA PostWrites ==
  ASSUME Typed, PostStored \/ PostAnswered \/ PostFails
  PROVE  /\ post' \in Posts /\ stored' \subseteq Guids /\ post'.msgs = post.msgs
<1>1. post \in Posts /\ post.msgs \subseteq Guids /\ stored \subseteq Guids
  BY DEF Typed, Posts
<1>2. post' \in Posts /\ post'.msgs = post.msgs
  BY <1>1 DEF PostStored, PostAnswered, PostFails, Posts
<1>3. stored' \subseteq Guids
  BY <1>1 DEF PostStored, PostAnswered, PostFails, StoreBatch, serverVars
<1> QED
  BY <1>2, <1>3

(* Every step keeps the journal's promise.                                 *)
LEMMA NextDone ==
  ASSUME DoneInv, ClaimInv', [Next]_vars
  PROVE  DoneInv'
<1>0. Typed /\ WorkTyped'
  BY DEF DoneInv, ClaimInv
<1>1. post \in Posts /\ stored \subseteq Guids
  BY <1>0 DEF Typed
<1>2. ASSUME NEW m \in Modes, NEW fo \in Forces, StartPush(m, fo)
      PROVE  DoneInv'
  BY <1>0, <1>2, FreshDone DEF StartPush, Open, Typed
<1>3. CASE Main
  BY <1>0, <1>3, MainDone
<1>4. CASE Report
  BY <1>1, <1>4, OutsideDone DEF Report, queueVars, configVars
<1>5. ASSUME NEW f \in Files, PrepareStep(f) \/ PrepareFault(f)
      PROVE  DoneInv'
  BY <1>0, <1>5, PrepareDone
<1>6. CASE PostStep \/ PostFault
  BY <1>0, <1>6, PostWrites, OutsideDone
     DEF PostStep, PostFault, journalVars, queueVars, mainVars, pipeVars, configVars
<1>7. CASE Cancel \/ RunEnds
  BY <1>1, <1>7, OutsideDone
     DEF Cancel, RunEnds, journalVars, queueVars, mainVars, pipeVars, configVars, serverVars
<1>8. CASE Crash
  BY <1>0, <1>8, FreshDone DEF Crash, configVars, serverVars, Typed
<1>9. CASE UNCHANGED vars
  BY <1>1, <1>9, OutsideDone
     DEF vars, journalVars, queueVars, mainVars, pipeVars, configVars, serverVars
<1> QED
  BY <1>2, <1>3, <1>4, <1>5, <1>6, <1>7, <1>8, <1>9 DEF Next

(* A push that was never started owes nothing.                             *)
LEMMA InitDone ==
  ASSUME Init
  PROVE  ClaimInv /\ DoneInv
<1>1. ClaimInv
  BY IdleTyped DEF Init, ClaimInv, WorkTyped, ClaimsExact
<1>2. NoPost \in Posts /\ <<>> \in Seq(SUBSET Guids) /\ NFiles \in Nat
  BY EmptySeq, FolderAssumption DEF NoPost, Posts, FolderAssumption
<1>3. Blank \in Journals /\ Blank.messages = {} /\ Complete(Blank)
  BY DEF Blank, Journals, Complete
<1>4. Typed
  BY <1>1, <1>2, <1>3 DEF Init, Typed, ClaimInv
<1>5. InHand /\ QueuedOwed
  BY DEF Init, InHand, QueuedOwed
<1>6. ChunksOwed
  BY DEF Init, ChunksOwed, Idle
<1> QED
  BY <1>1, <1>3, <1>4, <1>5, <1>6 DEF Init, DoneInv, MemOnDisk

(* A conversation is listed as done only when the journal holds each of    *)
(* its messages as accepted (finish_file_if_settled), for any folder cut   *)
(* into chunks of any size, any cancel, failure or crash, and over however *)
(* many pushes: a resumed conversation is never passed over half sent.     *)
THEOREM DoneFilesComplete == Spec => []DoneMeansAll
<1>1. Init => ClaimInv /\ DoneInv
  BY InitDone
<1>2. ClaimInv /\ DoneInv /\ [Next]_vars => (ClaimInv /\ DoneInv)'
  BY NextClaims, NextDone
<1>3. DoneInv => DoneMeansAll
  BY DEF DoneInv, Complete, DoneMeansAll
<1> QED
  BY <1>1, <1>2, <1>3, PTL DEF Spec

--------------------------------------------------------------------------------
(* The journal and the server, where every push is an append or every push *)
(* is a replace.                                                           *)

OneMode == Modes = {"append"} \/ Modes = {"replace"}

(* A push that starts, and a process that dies, have sent nothing.         *)
LEMMA FreshSent ==
  ASSUME Typed, SentInv, post' = NoPost, stored' = stored, disk' = disk,
         stamped' \subseteq stored',
         mem'.messages \subseteq stored',
         Modes = {"replace"} => mem'.messages = {}
  PROVE  SentInv'
<1>1. NoPost.st = "none" /\ NoPost.stored = FALSE
  BY DEF NoPost
<1>2. SentStored'
  BY <1>1 DEF SentStored
<1>3. ListedStored' /\ WipesFirst'
  BY <1>1 DEF SentInv, ListedStored, WipesFirst
<1> QED
  BY <1>2, <1>3 DEF SentInv

(* The main thread journals what a request that ended well had stored.     *)
LEMMA MainSent ==
  ASSUME Typed, SentInv, JournalMoves, stored' = stored, stamped' = stamped
  PROVE  SentInv'
<1>0. NoPost.st = "none" /\ NoPost.stored = FALSE
  BY DEF NoPost
<1>1. PICK S \in {{}, Accepted} :
        mem'.messages = mem.messages \cup S /\ disk'.messages = disk.messages \cup S
  BY DEF JournalMoves
<1>2. S \subseteq stored /\ (S # {} => post.stored)
  BY <1>1 DEF Accepted, SentInv, SentStored
<1>3. SentStored'
  BY <1>0 DEF SentInv, SentStored, JournalMoves, PostMoves
<1>4. ListedStored'
  BY <1>1, <1>2 DEF SentInv, ListedStored
<1>5. post'.stored => post.stored
  BY <1>0 DEF JournalMoves, PostMoves
<1>6. WipesFirst'
  BY <1>1, <1>2, <1>5 DEF SentInv, WipesFirst
<1> QED
  BY <1>3, <1>4, <1>6 DEF SentInv

(* The server stores a batch: it wipes only what no push in progress sent. *)
LEMMA StoreSent ==
  ASSUME OneMode, Typed, SentInv, PostStored, mem' = mem, disk' = disk
  PROVE  SentInv'
<1>1. post \in Posts /\ mode \in Modes
  BY DEF Typed
<1>2. /\ post'.st = "sending" /\ post'.msgs = post.msgs /\ post'.stored
      /\ post.msgs # {}
  BY <1>1 DEF PostStored, Posts, SentInv, SentStored
<1>3. CASE ~Wipes
  <2>1. stored' = stored \cup post.msgs /\ stamped \subseteq stamped' /\ stamped' \subseteq stored'
    BY <1>3 DEF PostStored, StoreBatch, SentInv, WipesFirst
  <2>2. Modes = {"replace"} => stamped # {}
    BY <1>1, <1>3 DEF Wipes
  <2>3. SentStored' /\ ListedStored'
    BY <1>2, <2>1 DEF SentInv, SentStored, ListedStored
  <2>4. WipesFirst'
    BY <2>1, <2>2 DEF WipesFirst
  <2> QED
    BY <2>3, <2>4 DEF SentInv
<1>4. CASE Wipes
  <2>1. Modes = {"replace"} /\ stamped = {}
    BY <1>1, <1>4 DEF Wipes, OneMode
  <2>2. mem.messages = {}
    BY <2>1 DEF SentInv, WipesFirst
  <2>3. stored' = post.msgs /\ stamped' = post.msgs
    BY <1>4 DEF PostStored, StoreBatch
  <2>4. SentStored' /\ ListedStored' /\ WipesFirst'
    BY <1>2, <2>1, <2>2, <2>3 DEF SentStored, ListedStored, WipesFirst
  <2> QED
    BY <2>4 DEF SentInv
<1> QED
  BY <1>3, <1>4

(* A step that stores nothing and journals nothing that was not.           *)
LEMMA OutsideSent ==
  ASSUME SentInv, stored' = stored, stamped' = stamped,
         mem'.messages = mem.messages,
         disk'.messages \in {disk.messages, mem.messages},
         post'.msgs = post.msgs, post'.stored = post.stored,
         post'.st = "ok" => post.stored, post'.st = "sending" => post.st = "sending"
  PROVE  SentInv'
BY DEF SentInv, SentStored, ListedStored, WipesFirst

(* Every step keeps what the journal says true.                            *)
LEMMA NextSent ==
  ASSUME OneMode, DoneInv, ClaimInv', SentInv, [Next]_vars
  PROVE  SentInv'
<1>0. Typed /\ WorkTyped' /\ mode \in Modes /\ post \in Posts /\ stamped \subseteq stored
  BY DEF DoneInv, Typed, ClaimInv, SentInv, WipesFirst
<1>1. Blank.messages = {}
  BY DEF Blank
<1>2. ASSUME NEW m \in Modes, NEW fo \in Forces, StartPush(m, fo)
      PROVE  SentInv'
  <2>1. mode' \in Modes /\ mem' = Open(mode', fo)
    BY <1>0, <1>2 DEF StartPush
  <2>2. Modes = {"replace"} => mem'.messages = {}
    BY <1>1, <2>1 DEF Open
  <2>3. Modes = {"append"} => mem'.messages \subseteq stored
    BY <1>1, <2>1 DEF Open, SentInv, ListedStored
  <2>4. post' = NoPost /\ stored' = stored /\ disk' = disk /\ stamped' \subseteq stored
    BY <1>0, <1>2 DEF StartPush
  <2> QED
    BY <1>0, <2>2, <2>3, <2>4, FreshSent DEF OneMode
<1>3. CASE Main
  BY <1>0, <1>3, MainDone, MainSent DEF Main, serverVars
<1>4. CASE Report
  BY <1>4, OutsideSent DEF Report, SentInv, SentStored
<1>5. ASSUME NEW f \in Files, PrepareStep(f) \/ PrepareFault(f)
      PROVE  SentInv'
  <2>1. post' = post
    BY <1>5 DEF PrepareStep, PrepareFault
  <2>2. stored' = stored /\ stamped' = stamped
    BY <1>5
       DEF PrepareStep, PrepareFault, StartPrepare, ClaimNext, ClaimsDone, RecordUpload,
           AwaitOthers, WaitOver, BuildChunks, PrepareFails, UploadOk, UploadFails, serverVars
  <2> QED
    BY <1>0, <1>5, <2>1, <2>2, PrepareJournal, OutsideSent DEF SentInv, SentStored
<1>6. CASE PostStep \/ PostFault
  <2>1. mem' = mem /\ disk' = disk
    BY <1>6 DEF PostStep, PostFault, journalVars
  <2>2. CASE PostStored
    BY <1>0, <2>1, <2>2, StoreSent
  <2>3. CASE PostAnswered \/ PostFails
    <3>1. /\ stored' = stored /\ stamped' = stamped
          /\ post'.msgs = post.msgs /\ post'.stored = post.stored
          /\ post'.st # "sending" /\ (post'.st = "ok" => post.stored)
      BY <1>0, <2>3 DEF PostAnswered, PostFails, Posts, serverVars
    <3> QED
      BY <2>1, <3>1, OutsideSent
  <2> QED
    BY <1>6, <2>2, <2>3 DEF PostStep, PostFault
<1>7. CASE Cancel \/ RunEnds
  BY <1>7, OutsideSent
     DEF Cancel, RunEnds, journalVars, serverVars, SentInv, SentStored
<1>8. CASE Crash
  BY <1>0, <1>1, <1>8, FreshSent DEF Crash, serverVars
<1>9. CASE UNCHANGED vars
  BY <1>9, OutsideSent DEF vars, journalVars, serverVars, SentInv, SentStored
<1> QED
  BY <1>2, <1>3, <1>4, <1>5, <1>6, <1>7, <1>8, <1>9 DEF Next

(* What a push in progress believes was sent is stored (Journal::open,     *)
(* record_messages, mark_file_done): with a journal kept over pushes that  *)
(* append, and with the empty one of pushes that replace, of which only    *)
(* the first batch wipes the source.                                       *)
THEOREM JournalIsTrue ==
  ASSUME OneMode
  PROVE  Spec => []JournalTrue
<1>1. Init => ClaimInv /\ DoneInv /\ SentInv
  <2> SUFFICES ASSUME Init PROVE ClaimInv /\ DoneInv /\ SentInv
    OBVIOUS
  <2>1. post.st = "none" /\ post.stored = FALSE
    BY DEF Init, NoPost
  <2>2. mem.messages = {} /\ disk.messages = {}
    BY DEF Init, Blank
  <2>3. SentInv
    BY <2>1, <2>2 DEF Init, SentInv, SentStored, ListedStored, WipesFirst
  <2> QED
    BY <2>3, InitDone
<1>2. ClaimInv /\ DoneInv /\ SentInv /\ [Next]_vars => (ClaimInv /\ DoneInv /\ SentInv)'
  BY NextClaims, NextDone, NextSent
<1>3. DoneInv /\ SentInv => JournalTrue
  BY DEF DoneInv, Complete, SentInv, ListedStored, JournalTrue
<1> QED
  BY <1>1, <1>2, <1>3, PTL DEF Spec

--------------------------------------------------------------------------------
(* The files of the messages on their way, where the run a push writes     *)
(* into is not its own: once over, that run does not go on.                *)

(* What is covered stays covered as the journal gains attachments.         *)
LEMMA CoveredStands ==
  ASSUME NEW S, Covered(S), mem.assets \subseteq mem'.assets
  PROVE  Covered(S)'
BY DEF Covered

(* An error leaves a record with nothing to see to.                        *)
LEMMA GivenUpSeen ==
  ASSUME WorkTyped, NEW f \in Files, GiveUp(f)
  PROVE  SeenTo(f)' /\ work'[f].up = {} /\ \A e \in Files \ {f} : work'[e] = work[e]
<1>1. /\ [Idle EXCEPT !.st = "failed"].st = "failed"
      /\ [Idle EXCEPT !.st = "failed"].up = {}
  BY DEF Idle
<1> HIDE DEF Idle
<1>2. /\ work'[f] = [Idle EXCEPT !.st = "failed"]
      /\ \A e \in Files \ {f} : work'[e] = work[e]
  BY DEF GiveUp, WorkTyped
<1> QED
  BY <1>1, <1>2 DEF SeenTo, InWork

(* A fingerprint asked for is another's, in the journal, or the worker's.  *)
LEMMA ClaimSeen ==
  ASSUME WorkTyped, NEW f \in Files, SeenTo(f), work[f].st = "claiming",
         NEW d, Claim(f, d), mem' = mem
  PROVE  SeenTo(f)' /\ work'[f].up = work[f].up /\ \A e \in Files \ {f} : work'[e] = work[e]
<1>1. work[f] \in Worker
  BY DEF WorkTyped
<1>2. /\ work'[f].st = "claiming" /\ work'[f].up = work[f].up
      /\ work[f].todo \subseteq work'[f].todo \cup {d}
      /\ work[f].busy \subseteq work'[f].busy /\ work[f].held \subseteq work'[f].held
      /\ d \in work'[f].busy \cup work'[f].held \cup mem.assets
      /\ \A e \in Files \ {f} : work'[e] = work[e]
  <2>1. CASE d \in inFlight
    <3>1. work' = [work EXCEPT ![f].todo = @ \ {d}, ![f].busy = @ \cup {d}]
      BY <2>1 DEF Claim
    <3>2. /\ work'[f].st = work[f].st /\ work'[f].up = work[f].up
          /\ work'[f].todo = work[f].todo \ {d} /\ work'[f].busy = work[f].busy \cup {d}
          /\ work'[f].held = work[f].held /\ \A e \in Files \ {f} : work'[e] = work[e]
      BY <1>1, <3>1 DEF WorkTyped, Worker
    <3> QED
      BY <3>2
  <2>2. CASE d \notin inFlight /\ ~force /\ d \in mem.assets
    <3>1. work' = [work EXCEPT ![f].todo = @ \ {d}]
      BY <2>2 DEF Claim
    <3>2. /\ work'[f].st = work[f].st /\ work'[f].up = work[f].up
          /\ work'[f].todo = work[f].todo \ {d} /\ work'[f].busy = work[f].busy
          /\ work'[f].held = work[f].held /\ \A e \in Files \ {f} : work'[e] = work[e]
      BY <1>1, <3>1 DEF WorkTyped, Worker
    <3> QED
      BY <2>2, <3>2
  <2>3. CASE d \notin inFlight /\ (force \/ d \notin mem.assets)
    <3>1. work' = [work EXCEPT ![f].todo = @ \ {d}, ![f].held = @ \cup {d}]
      BY <2>3 DEF Claim
    <3>2. /\ work'[f].st = work[f].st /\ work'[f].up = work[f].up
          /\ work'[f].todo = work[f].todo \ {d} /\ work'[f].busy = work[f].busy
          /\ work'[f].held = work[f].held \cup {d}
          /\ \A e \in Files \ {f} : work'[e] = work[e]
      BY <1>1, <3>1 DEF WorkTyped, Worker
    <3> QED
      BY <3>2
  <2> QED
    BY <2>1, <2>2, <2>3 DEF Claim
<1> QED
  BY <1>2 DEF SeenTo, DigestsOf, MessagesOf

(* A worker's step: it forgets no fingerprint, and what it takes to be up  *)
(* is among the files.                                                     *)
LEMMA PrepareSeen ==
  ASSUME Typed, Claimed, NEW f \in Files, PrepareStep(f) \/ PrepareFault(f)
  PROVE  /\ SeenTo(f)'
         /\ \A e \in Files \ {f} : work'[e] = work[e]
         /\ run' = run /\ files \subseteq files'
         /\ work'[f].up \subseteq work[f].up \cup files'
<1>0. WorkTyped /\ work \in [Files -> Worker] /\ work[f] \in Worker
  BY DEF Typed, WorkTyped
<1>a. SeenTo(f)
  BY DEF Claimed
<1>1. CASE GiveUp(f) /\ serverVars' = serverVars
  BY <1>0, <1>1, GivenUpSeen DEF serverVars
<1>3. CASE StartPrepare(f)
  <2>1. /\ work'[f].st = "claiming" /\ work'[f].todo = DigestsOf(f)
        /\ work'[f].up = work[f].up /\ \A e \in Files \ {f} : work'[e] = work[e]
    BY <1>0, <1>3 DEF StartPrepare, Worker
  <2> QED
    BY <1>3, <2>1 DEF StartPrepare, SeenTo, DigestsOf, MessagesOf, serverVars
<1>4. CASE ClaimNext(f) /\ ~GiveUp(f)
  <2>1. PICK d : Claim(f, d) /\ mem' = mem /\ work[f].st = "claiming"
    BY <1>4 DEF ClaimNext
  <2> QED
    BY <1>0, <1>a, <1>4, <2>1, ClaimSeen DEF ClaimNext, serverVars
<1>5. CASE ClaimsDone(f)
  <2>1. /\ work'[f].st = "uploading" /\ work'[f].todo = {} /\ work'[f].busy = work[f].busy
        /\ work'[f].held = work[f].held /\ work'[f].up = work[f].up
        /\ \A e \in Files \ {f} : work'[e] = work[e]
    BY <1>0, <1>5 DEF ClaimsDone, Worker
  <2> QED
    BY <1>5, <1>a, <2>1
       DEF ClaimsDone, SeenTo, InWork, DigestsOf, MessagesOf, journalVars, serverVars
<1>6. CASE RecordUpload(f) /\ ~GiveUp(f)
  <2>1. PICK d : d = Least(work[f].held)
    OBVIOUS
  <2>2. /\ work[f].st = "uploading" /\ work' = [work EXCEPT ![f].held = @ \ {d}]
        /\ mem' = Add(mem, "assets", {d})
    BY <1>6, <2>1 DEF RecordUpload, Journal
  <2>3. mem'.assets = mem.assets \cup {d}
    BY <2>2 DEF Add, Typed, Journals
  <2>4. /\ work'[f].st = "uploading" /\ work'[f].todo = work[f].todo
        /\ work'[f].busy = work[f].busy /\ work'[f].held = work[f].held \ {d}
        /\ work'[f].up = work[f].up /\ \A e \in Files \ {f} : work'[e] = work[e]
    BY <1>0, <2>2 DEF Worker
  <2> QED
    BY <1>6, <1>a, <2>2, <2>3, <2>4
       DEF RecordUpload, SeenTo, InWork, DigestsOf, MessagesOf, serverVars
<1>7. CASE AwaitOthers(f)
  <2>1. /\ work[f].held = {} /\ work[f].st = "uploading"
        /\ work'[f].st = "waiting" /\ work'[f].todo = work[f].todo
        /\ work'[f].busy = work[f].busy /\ work'[f].held = work[f].held
        /\ work'[f].up = {} /\ \A e \in Files \ {f} : work'[e] = work[e]
    BY <1>0, <1>7 DEF AwaitOthers, Worker
  <2> QED
    BY <1>7, <1>a, <2>1
       DEF AwaitOthers, SeenTo, InWork, DigestsOf, MessagesOf, journalVars, serverVars
<1>8. CASE WaitOver(f) /\ ~GiveUp(f)
  <2>1. /\ work[f].st = "waiting"
        /\ work'[f].st = "claiming" /\ work'[f].todo = work[f].busy
        /\ work'[f].busy = {} /\ work'[f].held = work[f].held
        /\ work'[f].up = work[f].up /\ \A e \in Files \ {f} : work'[e] = work[e]
    BY <1>0, <1>8 DEF WaitOver, Worker
  <2> QED
    BY <1>8, <1>a, <2>1
       DEF WaitOver, SeenTo, InWork, DigestsOf, MessagesOf, serverVars
<1>9. CASE BuildChunks(f) /\ ~GiveUp(f)
  <2> DEFINE v == [Idle EXCEPT !.st = "prepared", !.chunks = Chunks(Unsent(f))]
  <2>1. v.st = "prepared" /\ v.up = {}
    BY DEF Idle
  <2>2. work' = [work EXCEPT ![f] = v]
    BY <1>9 DEF BuildChunks
  <2> HIDE DEF v
  <2>3. work'[f] = v /\ \A e \in Files \ {f} : work'[e] = work[e]
    BY <1>0, <2>2
  <2> QED
    BY <1>9, <2>1, <2>3 DEF BuildChunks, SeenTo, InWork, serverVars
<1>10. ASSUME NEW d \in Digests, UploadOk(f, d)
       PROVE  /\ SeenTo(f)' /\ \A e \in Files \ {f} : work'[e] = work[e]
              /\ run' = run /\ files \subseteq files'
              /\ work'[f].up \subseteq work[f].up \cup files'
  <2>1. /\ work[f].st = "uploading" /\ work'[f].st = "uploading"
        /\ work'[f].todo = work[f].todo /\ work'[f].busy = work[f].busy
        /\ work'[f].held = work[f].held /\ work'[f].up = work[f].up \cup {d}
        /\ \A e \in Files \ {f} : work'[e] = work[e]
    BY <1>0, <1>10 DEF UploadOk, Worker
  <2> QED
    BY <1>10, <1>a, <2>1
       DEF UploadOk, SeenTo, InWork, DigestsOf, MessagesOf, journalVars
<1>11. ASSUME NEW d \in Digests, UploadFails(f, d)
       PROVE  /\ SeenTo(f)' /\ \A e \in Files \ {f} : work'[e] = work[e]
              /\ run' = run /\ files \subseteq files'
              /\ work'[f].up \subseteq work[f].up \cup files'
  <2>1. /\ work[f].st = "uploading" /\ work'[f].st = "uploading"
        /\ work'[f].todo = work[f].todo /\ work'[f].busy = work[f].busy
        /\ work'[f].held = work[f].held /\ work'[f].up = work[f].up
        /\ \A e \in Files \ {f} : work'[e] = work[e]
    BY <1>0, <1>11 DEF UploadFails, Worker
  <2> QED
    BY <1>11, <1>a, <2>1
       DEF UploadFails, SeenTo, InWork, DigestsOf, MessagesOf, journalVars
<1>12. CASE PrepareFails(f)
  BY <1>0, <1>12, GivenUpSeen DEF PrepareFails, serverVars
<1> QED
  BY <1>1, <1>3, <1>4, <1>5, <1>6, <1>7, <1>8, <1>9, <1>10, <1>11, <1>12
     DEF PrepareStep, PrepareFault, ClaimNext, RecordUpload, WaitOver, BuildChunks

(* A file whose attachments were all seen to is covered, chunk by chunk.   *)
LEMMA BuiltCovered ==
  ASSUME Claimed, NEW f \in Files, BuildChunks(f), mem.assets \subseteq mem'.assets,
         NEW c, c = Chunks(Unsent(f))
  PROVE  QueueCovered(c)'
<1>1. DigestsOf(f) \subseteq mem.assets
  BY DEF Claimed, SeenTo, BuildChunks, InWork
<1>2. Unsent(f) \in SUBSET MessagesOf(f) /\ Unsent(f) \in SUBSET Guids
  BY DEF Unsent, MessagesOf
<1>3. Covered(Unsent(f))
  BY <1>1, <1>2 DEF Covered, DigestsOf
<1>4. \A i \in DOMAIN c : c[i] \subseteq Unsent(f)
  BY <1>2, ChunksWhole
<1>5. \A i \in DOMAIN c : Covered(c[i])
  BY <1>3, <1>4 DEF Covered
<1> QED
  BY <1>5, CoveredStands DEF QueueCovered

(* A queue of covered chunks stays covered as it shrinks.                  *)
LEMMA TailCovered ==
  ASSUME NEW q \in Seq(SUBSET Guids), q # <<>>, QueueCovered(q)
  PROVE  Covered(Head(q)) /\ QueueCovered(Tail(q))
<1>1. Len(q) \in Nat \ {0} /\ DOMAIN q = 1..Len(q)
  BY EmptySeq, LenProperties
<1>2. Head(q) = q[1] /\ 1 \in DOMAIN q
  BY <1>1
<1>3. /\ DOMAIN Tail(q) = 1..(Len(q) - 1)
      /\ \A i \in 1..(Len(q) - 1) : Tail(q)[i] = q[i + 1] /\ i + 1 \in 1..Len(q)
  BY <1>1, HeadTailProperties
<1> QED
  BY <1>1, <1>2, <1>3 DEF QueueCovered

(* A worker's step keeps the files of what is on its way.                  *)
LEMMA PrepareFiles ==
  ASSUME Typed, FileInv, NEW f \in Files, PrepareStep(f) \/ PrepareFault(f)
  PROVE  FileInv'
<1>1. /\ Claimed /\ AllCovered /\ Uploaded /\ StoredWithFile
  BY DEF FileInv
<1>2. PICK D \in SUBSET work[f].up :
        mem'.assets = mem.assets \cup D /\ disk'.assets = disk.assets \cup D
  BY PrepareJournal
<1>3. mem.assets \subseteq mem'.assets
  BY <1>2
<1>4. /\ SeenTo(f)' /\ \A e \in Files \ {f} : work'[e] = work[e]
      /\ run' = run /\ files \subseteq files'
      /\ work'[f].up \subseteq work[f].up \cup files'
  BY <1>1, PrepareSeen
<1>5. Claimed'
  <2>1. \A e \in Files \ {f} : SeenTo(e)'
    BY <1>1, <1>3, <1>4 DEF Claimed, SeenTo, DigestsOf, MessagesOf
  <2> QED
    BY <1>4, <2>1 DEF Claimed
<1>6. \A e \in Files : work'[e].st = "prepared" => QueueCovered(work[e].chunks)'
  <2> SUFFICES ASSUME NEW e \in Files, work'[e].st = "prepared"
               PROVE  QueueCovered(work[e].chunks)'
    OBVIOUS
  <2>1. CASE work'[e] = work[e]
    <3>1. PICK c : c = work[e].chunks
      OBVIOUS
    <3>2. QueueCovered(c)'
      BY <1>1, <1>3, <2>1, <3>1, CoveredStands DEF AllCovered, QueueCovered
    <3> QED
      BY <2>1, <3>1, <3>2
  <2>2. CASE BuildChunks(e) /\ work'[e].chunks = Chunks(Unsent(e))
    <3>1. PICK c : c = Chunks(Unsent(e))
      OBVIOUS
    <3>2. QueueCovered(c)'
      BY <1>1, <1>3, <2>2, <3>1, BuiltCovered
    <3> QED
      BY <2>2, <3>1, <3>2
  <2> QED
    BY <2>1, <2>2, PrepareWork
<1>7. AllCovered'
  <2>1. toQueue' = toQueue /\ pending' = pending /\ post' = post
    BY DEF PrepareStep, PrepareFault, mainVars, pipeVars
  <2>2. QueueCovered(toQueue)' /\ Covered(pending)' /\ Covered(post.msgs)'
    BY <1>1, <1>3, <2>1 DEF AllCovered, QueueCovered, Covered
  <2> QED
    BY <1>6, <2>2 DEF AllCovered
<1>8. Uploaded'
  BY <1>1, <1>2, <1>4 DEF Uploaded
<1>9. stored' = stored /\ held' = held
  BY DEF PrepareStep, PrepareFault, StartPrepare, ClaimNext, ClaimsDone, RecordUpload,
         AwaitOthers, WaitOver, BuildChunks, PrepareFails, UploadOk, UploadFails, serverVars
<1> QED
  BY <1>1, <1>5, <1>7, <1>8, <1>9 DEF FileInv, StoredWithFile

(* What the main thread does with the workers' files and the batch.        *)
LEMMA MainQueues ==
  ASSUME Typed, Main
  PROVE  /\ \A f \in Files : work'[f] = work[f] \/ work'[f].st \in {"skipped", "queued"}
         /\ \/ pending' \in {{}, pending}
            \/ toQueue # <<>> /\ pending' = pending \cup Head(toQueue)
         /\ \/ toQueue' \in {<<>>, toQueue}
            \/ toQueue # <<>> /\ toQueue' = Tail(toQueue)
            \/ \E f \in Files : work[f].st = "prepared" /\ toQueue' = work[f].chunks
<1>1. CASE Submit
  <2>1. pending' = pending /\ toQueue' = toQueue
    BY <1>1 DEF Submit
  <2>2. \A f \in Files : work'[f] = work[f] \/ work'[f].st \in {"skipped", "queued"}
    <3>1. CASE RoomForNext
      <4>1. PICK st \in {"skipped", "queued"} : work' = [work EXCEPT ![submitted + 1].st = st]
        BY <1>1, <3>1 DEF Submit
      <4>2. \A f \in Files : f # submitted + 1 => work'[f] = work[f]
        BY <4>1 DEF Typed, WorkTyped
      <4>3. submitted + 1 \in Files => work'[submitted + 1].st = st
        BY <4>1 DEF Typed, WorkTyped, Worker
      <4> QED
        BY <4>2, <4>3
    <3>2. CASE ~RoomForNext
      BY <1>1, <3>2 DEF Submit
    <3> QED
      BY <3>1, <3>2
  <2> QED
    BY <2>1, <2>2
<1>2. CASE Consume
  <2>1. CASE toQueue' = toQueue
    BY <1>2, <2>1 DEF Consume
  <2>2. CASE toQueue' # toQueue
    <3>1. \E f \in Files : work[f].st = "prepared" /\ toQueue' = work[f].chunks
      BY <1>2, <2>2 DEF Consume, Ready
    <3> QED
      BY <1>2, <3>1 DEF Consume
  <2> QED
    BY <2>1, <2>2
<1>3. CASE LoopTop \/ WaitOne \/ FlushOtherSource \/ FinishQueueing \/ Shutdown \/ SettlePush
           \/ JoinLast
  BY <1>3 DEF LoopTop, WaitOne, FlushOtherSource, FinishQueueing, Shutdown, SettlePush,
              JoinLast, Flush, NoPipe, pipeVars
<1>4. CASE QueueChunk \/ FlushFull
  BY <1>4 DEF QueueChunk, FlushFull, Flush, AfterFlush
<1> QED
  BY <1>1, <1>2, <1>3, <1>4 DEF Main, MainStep

(* A step of the main thread keeps the files of what is on its way.        *)
LEMMA MainFiles ==
  ASSUME Typed, FileInv, Main, JournalMoves
  PROVE  FileInv'
<1>1. /\ Claimed /\ AllCovered /\ Uploaded /\ StoredWithFile
  BY DEF FileInv
<1>2. /\ mem'.assets = mem.assets /\ disk'.assets = disk.assets
      /\ PostMoves
  BY DEF JournalMoves
<1>3. run' = run /\ stored' = stored /\ held' = held /\ files' = files
  BY DEF Main, serverVars
<1>4. \A f \in Files : work'[f] = work[f] \/ work'[f].st \in {"skipped", "queued"}
  BY MainQueues
<1>5. Claimed'
  BY <1>1, <1>2, <1>4 DEF Claimed, SeenTo, InWork, DigestsOf, MessagesOf
<1>6. \A S : Covered(S) => Covered(S)'
  BY <1>2 DEF Covered
<1>7. \A q : QueueCovered(q) => QueueCovered(q)'
  BY <1>6 DEF QueueCovered
<1>8. \A f \in Files : work'[f].st = "prepared" => QueueCovered(work[f].chunks)'
  <2> SUFFICES ASSUME NEW f \in Files, work'[f].st = "prepared"
               PROVE  QueueCovered(work[f].chunks)'
    OBVIOUS
  <2>1. work'[f] = work[f] /\ QueueCovered(work[f].chunks)
    BY <1>1, <1>4 DEF AllCovered
  <2> QED
    BY <2>1, <1>2 DEF QueueCovered, Covered
<1>9. toQueue \in Seq(SUBSET Guids) /\ QueueCovered(toQueue) /\ QueueCovered(<<>>)
  BY <1>1 DEF AllCovered, QueueCovered, Typed
<1>10. QueueCovered(toQueue)'
  <2>1. PICK q : q = toQueue'
    OBVIOUS
  <2>2. QueueCovered(q)
    BY <1>1, <1>9, <2>1, MainQueues, TailCovered DEF AllCovered
  <2>3. QueueCovered(q)'
    BY <1>7, <2>2
  <2> QED
    BY <2>1, <2>3
<1>11. Covered(pending)'
  <2>1. PICK S : S = pending'
    OBVIOUS
  <2>2. CASE S \in {{}, pending}
    BY <1>1, <1>2, <2>1, <2>2 DEF AllCovered, Covered
  <2>3. CASE toQueue # <<>> /\ S = pending \cup Head(toQueue)
    <3>1. Covered(Head(toQueue))
      BY <1>9, <2>3, TailCovered
    <3> QED
      BY <1>1, <1>2, <2>1, <2>3, <3>1 DEF AllCovered, Covered
  <2> QED
    BY <2>1, <2>2, <2>3, MainQueues
<1>12. Covered(post.msgs)'
  BY <1>1, <1>2 DEF AllCovered, Covered, PostMoves, NoPost
<1>13. AllCovered'
  BY <1>8, <1>10, <1>11, <1>12 DEF AllCovered
<1>14. \A f \in Files : work'[f].up = work[f].up
  <2>1. CASE Submit /\ RoomForNext
    <3>1. PICK st \in {"skipped", "queued"} : work' = [work EXCEPT ![submitted + 1].st = st]
      BY <2>1 DEF Submit
    <3> QED
      BY <3>1 DEF Typed, WorkTyped, Worker
  <2>2. CASE Submit /\ ~RoomForNext
    BY <2>2 DEF Submit
  <2> QED
    BY <2>1, <2>2
       DEF Main, MainStep, LoopTop, WaitOne, FlushOtherSource, Consume, QueueChunk, FlushFull,
           FinishQueueing, Shutdown, SettlePush, JoinLast
<1>15. Uploaded'
  BY <1>1, <1>2, <1>3, <1>14 DEF Uploaded
<1> QED
  BY <1>1, <1>3, <1>5, <1>13, <1>15 DEF FileInv, StoredWithFile

(* A push that starts, and a process that dies, have nothing on its way.   *)
LEMMA FreshFiles ==
  ASSUME Typed, FileInv, work' = [f \in Files |-> Idle],
         mem' \in {Blank, disk}, disk' = disk, post' = NoPost, toQueue' = <<>>,
         pending' = {}, run' = run, stored' = stored, held' = held, files' = files
  PROVE  FileInv'
<1>1. Uploaded /\ StoredWithFile
  BY DEF FileInv
<1>2. Idle.st = "none" /\ Idle.up = {} /\ NoPost.msgs = {} /\ Blank.assets = {}
  BY DEF Idle, NoPost, Blank
<1>3. Claimed'
  BY <1>2 DEF Claimed, SeenTo, InWork
<1>4. AllCovered'
  <2>1. \A f \in Files : work'[f].st # "prepared"
    BY <1>2
  <2>2. QueueCovered(toQueue)' /\ Covered(pending)' /\ Covered(post.msgs)'
    BY <1>2 DEF QueueCovered, Covered
  <2> QED
    BY <2>1, <2>2 DEF AllCovered
<1>5. Uploaded'
  BY <1>1, <1>2 DEF Uploaded
<1> QED
  BY <1>1, <1>3, <1>4, <1>5 DEF FileInv, StoredWithFile

(* What the server and the request's answer do while the journal stands.   *)
LEMMA OutsideFiles ==
  ASSUME FileInv, work' = work, mem' = mem, disk' \in {disk, mem},
         post'.msgs = post.msgs, toQueue' = toQueue, pending' = pending,
         run' = "running" => run = "running" /\ files' = files,
         StoredWithFile'
  PROVE  FileInv'
<1>1. Claimed'
  BY DEF FileInv, Claimed, SeenTo, DigestsOf, MessagesOf
<1>2. AllCovered'
  BY DEF FileInv, AllCovered, QueueCovered, Covered
<1>3. Uploaded'
  BY DEF FileInv, Uploaded
<1> QED
  BY <1>1, <1>2, <1>3 DEF FileInv

(* The server finds the files of a batch it stores.                        *)
LEMMA StoreFiles ==
  ASSUME FileInv, PostStored
  PROVE  StoredWithFile'
<1>1. \A g \in post.msgs : AssetOf[g] \in files \cup {NoAsset}
  BY DEF FileInv, AllCovered, Covered, Uploaded, PostStored
<1> QED
  BY <1>1 DEF PostStored, StoreBatch, FileInv, StoredWithFile

(* Every step keeps the files of what is on its way.                       *)
LEMMA NextFiles ==
  ASSUME ~OwnRun, DoneInv, ClaimInv', FileInv, [Next]_vars
  PROVE  FileInv'
<1>0. Typed /\ WorkTyped' /\ StoredWithFile /\ post \in Posts
  BY DEF DoneInv, Typed, ClaimInv, FileInv
<1>1. CASE UNCHANGED <<run, files, stored, held, work, mem, disk, post, toQueue, pending>>
  BY <1>0, <1>1, OutsideFiles DEF StoredWithFile
<1>2. ASSUME NEW m \in Modes, NEW fo \in Forces, StartPush(m, fo)
      PROVE  FileInv'
  BY <1>0, <1>2, FreshFiles DEF StartPush, Open
<1>3. CASE Main
  BY <1>0, <1>3, MainDone, MainFiles
<1>4. CASE Report
  BY <1>0, <1>4, OutsideFiles DEF Report, StoredWithFile
<1>5. ASSUME NEW f \in Files, PrepareStep(f) \/ PrepareFault(f)
      PROVE  FileInv'
  BY <1>0, <1>5, PrepareFiles
<1>6. CASE PostStep \/ PostFault
  <2>1. /\ work' = work /\ mem' = mem /\ disk' = disk /\ toQueue' = toQueue
        /\ pending' = pending
    BY <1>6 DEF PostStep, PostFault, journalVars, mainVars, pipeVars
  <2>2. PostStored \/ PostAnswered \/ PostFails
    BY <1>6 DEF PostStep, PostFault
  <2>3. run' = run /\ files' = files
    BY <2>2 DEF PostStored, PostAnswered, PostFails, serverVars
  <2>4. post'.msgs = post.msgs
    BY <1>0, <2>2, PostWrites
  <2>5. StoredWithFile'
    BY <1>0, <2>2, StoreFiles DEF PostAnswered, PostFails, serverVars, StoredWithFile
  <2> QED
    BY <2>1, <2>3, <2>4, <2>5, OutsideFiles
<1>7. CASE Cancel
  BY <1>1, <1>7 DEF Cancel, journalVars, mainVars, pipeVars, serverVars
<1>8. CASE RunEnds
  BY <1>0, <1>8, OutsideFiles
     DEF RunEnds, EndRun, journalVars, mainVars, pipeVars, StoredWithFile
<1>9. CASE Crash
  BY <1>0, <1>9, FreshFiles DEF Crash, serverVars
<1>10. CASE UNCHANGED vars
  BY <1>1, <1>10 DEF vars, journalVars, mainVars, pipeVars, serverVars
<1> QED
  BY <1>2, <1>3, <1>4, <1>5, <1>6, <1>7, <1>8, <1>9, <1>10 DEF Next

(* No message is stored before its attachment's file is there (#1076),     *)
(* where the pushes write into a run they did not create: whichever worker *)
(* uploaded the file, in this push or in one it resumes, for any folder    *)
(* and any number of workers, and even as that run is ended from elsewhere *)
(* and its unnamed files removed.                                          *)
THEOREM StoredWithTheirFiles ==
  ASSUME ~OwnRun
  PROVE  Spec => []StoredWithFile
<1>1. Init => ClaimInv /\ DoneInv /\ FileInv
  <2> SUFFICES ASSUME Init PROVE ClaimInv /\ DoneInv /\ FileInv
    OBVIOUS
  <2>1. Idle.st = "none" /\ Idle.up = {} /\ NoPost.msgs = {} /\ Blank.assets = {}
    BY DEF Idle, NoPost, Blank
  <2>2. Claimed
    BY <2>1 DEF Init, Claimed, SeenTo, InWork
  <2>3. AllCovered
    BY <2>1 DEF Init, AllCovered, QueueCovered, Covered
  <2>4. Uploaded /\ StoredWithFile
    BY <2>1 DEF Init, Uploaded, StoredWithFile
  <2> QED
    BY <2>2, <2>3, <2>4, InitDone DEF FileInv
<1>2. ClaimInv /\ DoneInv /\ FileInv /\ [Next]_vars => (ClaimInv /\ DoneInv /\ FileInv)'
  BY NextClaims, NextDone, NextFiles
<1>3. FileInv => StoredWithFile
  BY DEF FileInv
<1> QED
  BY <1>1, <1>2, <1>3, PTL DEF Spec

--------------------------------------------------------------------------------
(* The report.                                                             *)

ResultsTyped ==
  result \in [Files -> {"none", "ok", "failed", "skipped", "cancelled"}]

(* A row of the report says ok or skipped only of a file listed as done,   *)
(* and cancelled only at the very end.                                     *)
RowsListed ==
  /\ \A f \in Files : result[f] \in {"ok", "skipped"} => f \in mem.files
  /\ \A f \in Files : work[f].st = "skipped" => f \in mem.files
  /\ pc # "idle" => \A f \in Files : result[f] # "cancelled"

(* What is owed of a file, and what its chunks hold, are its messages.     *)
OwnMessages ==
  /\ \A f \in Files : outstanding[f] \subseteq MessagesOf(f)
  /\ \A f \in Files : work[f].st = "prepared" => Tracked(f) \subseteq MessagesOf(f)

(* No request is left where none should be.                                *)
PostFits ==
  /\ post.st = "none" => post.msgs = {}
  /\ pc \in {"idle", "report"} => post.st = "none"

(* A file that was taken, whose last messages are on their way.            *)
OnItsWay(f) ==
  /\ f \in queued /\ outstanding[f] # {}
  /\ outstanding[f] \subseteq pending \cup post.msgs
Held(q) == UNION {q[i] : i \in DOMAIN q}

(* Every file that was taken has its row in the report, or will have it    *)
(* when a request ends; so has the file in hand.                           *)
TakenSettle ==
  /\ \A f \in Files : f <= taken => result[f] # "none" \/ OnItsWay(f)
  /\ pc \in {"queue", "full"} =>
       \/ taken + 1 \in failed
       \/ outstanding[taken + 1] \subseteq pending \cup post.msgs \cup Held(toQueue)
  /\ pc \in {"shutdown", "settle", "last", "report"} => taken = NFiles
  /\ pc = "last" => pending = {}
  /\ pc = "report" => \A f \in Files : result[f] # "none"

AbortedEnds == aborted => pc \in {"idle", "shutdown", "settle", "report"}
OkStored == lastOk => pc = "idle" /\ Guids \subseteq stored

RowsInv == ResultsTyped /\ RowsListed /\ OwnMessages /\ PostFits /\ AbortedEnds
SettleInv == pc # "idle" /\ ~aborted => TakenSettle
OkInv == RowsInv /\ SettleInv

(* What a step does to the report: a row turns to failed or to ok, and to  *)
(* ok only with the file listed; every file of F that failed, or is all    *)
(* queued and owed nothing, gets its row.                                  *)
RowsMove(F, out, fail, qd) ==
  /\ ResultsTyped' /\ mem.files \subseteq mem'.files
  /\ \A f \in Files : \/ result'[f] = result[f]
                      \/ f \in fail /\ result'[f] = "failed"
                      \/ f \notin fail /\ result'[f] = "ok" /\ f \in mem'.files
  /\ \A f \in Files : result[f] # "none" => result'[f] = result[f]
  /\ \A f \in F : f \in fail \/ (f \in qd /\ out[f] = {}) => result'[f] # "none"

LEMMA SettleRows ==
  ASSUME Typed, ResultsTyped, NEW F \in SUBSET Files, NEW fail, NEW qd \in SUBSET Files,
         NEW out \in [Files -> SUBSET Guids], NEW S \in SUBSET Guids,
         Settle(F, out, fail, qd, S)
  PROVE  RowsMove(F, out, fail, qd)
<1> DEFINE now == {f \in F : result[f] = "none" /\ Settles(f, out, fail, qd)}
           fine == now \ fail
<1>1. /\ result' = [f \in Files |-> IF f \in now THEN Verdict(f, fail) ELSE result[f]]
      /\ mem' = Add(Add(mem, "messages", S), "files", fine)
  BY DEF Settle
<1>2. fine \in SUBSET Files /\ now \subseteq Files
  OBVIOUS
<1>3. \A f \in F : f \in fail \/ (f \in qd /\ out[f] = {}) => f \in now \/ result[f] # "none"
  BY DEF Settles
<1>4. \A f \in now : result[f] = "none"
  OBVIOUS
<1> HIDE DEF now
<1>5. mem'.files = mem.files \cup fine
  BY <1>1, <1>2, AddWrites DEF Typed
<1>6. \A f \in Files : Verdict(f, fail) = IF f \in fail THEN "failed" ELSE "ok"
  BY DEF Verdict
<1>7. \A f \in now : result'[f] = Verdict(f, fail)
  BY <1>1, <1>2
<1>8. \A f \in Files \ now : result'[f] = result[f]
  BY <1>1
<1>9. ResultsTyped'
  BY <1>1, <1>2, <1>6 DEF ResultsTyped
<1> QED
  BY <1>2, <1>3, <1>4, <1>5, <1>6, <1>7, <1>8, <1>9 DEF RowsMove

(* Applying a request that has ended: a file it carried the last messages  *)
(* of gets its row, and one still owed messages keeps them pending.        *)
LEMMA JoinRows ==
  ASSUME Typed, RowsInv, Join
  PROVE  /\ ResultsTyped' /\ mem.files \subseteq mem'.files /\ failed \subseteq failed'
         /\ \A f \in Files : outstanding'[f] \subseteq outstanding[f]
         /\ \A f \in Files : \/ result'[f] = result[f]
                             \/ f \in failed' /\ result'[f] = "failed"
                             \/ f \notin failed' /\ result'[f] = "ok" /\ f \in mem'.files
         /\ \A f \in Files : result[f] # "none" => result'[f] = result[f]
         /\ \A f \in Files : OnItsWay(f) =>
              result'[f] # "none" \/ (outstanding'[f] # {} /\ outstanding'[f] \subseteq pending)
         /\ \A f \in Files : \A U :
              outstanding[f] \subseteq pending \cup post.msgs \cup U =>
                f \in failed' \/ outstanding'[f] \subseteq pending \cup U
<1>1. post.msgs \in SUBSET Guids /\ Accepted \in SUBSET Guids
      /\ post.st \in {"none", "ok", "err"}
  BY DEF Typed, Posts, Accepted, Join, Joinable
<1>2. FilesOf(post.msgs) \in SUBSET Files
  BY <1>1, FolderAssumption DEF FilesOf, FolderAssumption
<1>3. /\ outstanding' \in [Files -> SUBSET Guids]
      /\ \A f \in Files : outstanding'[f] = outstanding[f] \ Accepted
  BY DEF Join, Typed
<1>4. Settle(FilesOf(post.msgs), outstanding', failed', queued, Accepted)
      /\ failed' = failed \cup (IF post.st = "err" THEN FilesOf(post.msgs) ELSE {})
  BY DEF Join
<1>5. /\ ResultsTyped' /\ mem.files \subseteq mem'.files
      /\ \A f \in Files : \/ result'[f] = result[f]
                          \/ f \in failed' /\ result'[f] = "failed"
                          \/ f \notin failed' /\ result'[f] = "ok" /\ f \in mem'.files
      /\ \A f \in Files : result[f] # "none" => result'[f] = result[f]
      /\ \A f \in FilesOf(post.msgs) :
           f \in failed' \/ (f \in queued /\ outstanding'[f] = {}) => result'[f] # "none"
  <2>1. PICK F \in SUBSET Files : F = FilesOf(post.msgs)
    BY <1>2
  <2>2a. PICK out \in [Files -> SUBSET Guids] : out = outstanding'
    BY <1>3
  <2>2b. PICK fail : fail = failed'
    OBVIOUS
  <2>2. out = outstanding' /\ fail = failed'
    BY <2>2a, <2>2b
  <2>3. Settle(F, out, fail, queued, Accepted)
    BY <1>4, <2>1, <2>2
  <2>4. RowsMove(F, out, fail, queued)
    BY <1>1, <2>3, SettleRows DEF RowsInv, Typed
  <2> QED
    BY <2>1, <2>2, <2>4 DEF RowsMove
<1>6. \A f \in Files : \A g \in outstanding[f] \cap post.msgs : f \in FilesOf(post.msgs)
  BY DEF RowsInv, OwnMessages, MessagesOf, FilesOf
<1>7. post.st = "none" => post.msgs = {}
  BY DEF RowsInv, PostFits
<1>8. Accepted = IF post.st = "ok" THEN post.msgs ELSE {}
  BY DEF Accepted
<1>9. ASSUME NEW f \in Files, OnItsWay(f)
      PROVE  result'[f] # "none" \/ (outstanding'[f] # {} /\ outstanding'[f] \subseteq pending)
  <2>1. f \in queued /\ outstanding[f] # {} /\ outstanding[f] \subseteq pending \cup post.msgs
    BY <1>9 DEF OnItsWay
  <2>2. CASE post.st = "none"
    BY <1>3, <1>7, <1>8, <2>1, <2>2
  <2>3. CASE post.st = "ok"
    BY <1>3, <1>5, <1>6, <1>8, <2>1, <2>3
  <2>4. CASE post.st = "err"
    BY <1>3, <1>4, <1>5, <1>6, <1>8, <2>1, <2>4
  <2> QED
    BY <1>1, <2>2, <2>3, <2>4
<1>10. ASSUME NEW f \in Files, NEW U,
              outstanding[f] \subseteq pending \cup post.msgs \cup U
       PROVE  f \in failed' \/ outstanding'[f] \subseteq pending \cup U
  BY <1>1, <1>3, <1>4, <1>6, <1>7, <1>8, <1>10
<1> QED
  BY <1>3, <1>4, <1>5, <1>9, <1>10

(* The file whose chunks are all queued gets its row, if it is settled.    *)
LEMMA FinishRows ==
  ASSUME DoneInv, ResultsTyped, FinishQueueing
  PROVE  RowsMove({taken + 1}, outstanding, failed, queued') /\ taken + 1 \in Files
<1>1. Typed
  BY DEF DoneInv
<1>2. taken + 1 \in Files
  BY <1>1, FolderAssumption DEF FinishQueueing, DoneInv, InHand, Typed, Files, FolderAssumption
<1>3. PICK F \in SUBSET Files : F = {taken + 1}
  BY <1>2
<1>4. PICK qd \in SUBSET Files : qd = queued'
  BY <1>1, <1>2 DEF FinishQueueing, Typed
<1>5. PICK S \in SUBSET Guids : S = {}
  OBVIOUS
<1>6. Settle(F, outstanding, failed, qd, S)
  BY <1>4, <1>5, <1>3 DEF FinishQueueing
<1>7. outstanding \in [Files -> SUBSET Guids]
  BY <1>1 DEF Typed
<1>8. RowsMove(F, outstanding, failed, qd)
  BY <1>1, <1>6, <1>7, SettleRows
<1> QED
  BY <1>2, <1>4, <1>8, <1>3

(* A flush that goes on puts the pending batch in the request's place.     *)
LEMMA FlushRows ==
  ASSUME Typed, RowsInv, Flush
  PROVE  /\ Join /\ pending' = {} /\ (post'.st = "none" => post'.msgs = {})
         /\ GoesOn => post'.msgs = pending
         /\ GoesOn /\ queued' = queued => \A f \in Files :
              result[f] # "none" \/ OnItsWay(f) => result'[f] # "none" \/ OnItsWay(f)'
<1>0. NoPost.st = "none" /\ NoPost.msgs = {}
      /\ [NoPost EXCEPT !.st = "sending", !.msgs = pending].st = "sending"
      /\ [NoPost EXCEPT !.st = "sending", !.msgs = pending].msgs = pending
  BY DEF NoPost
<1> HIDE DEF NoPost
<1>1. Join /\ pending' = {} /\ (post'.st = "none" => post'.msgs = {})
  BY <1>0 DEF Flush
<1>2. GoesOn => post'.msgs = pending
  BY <1>0 DEF Flush, GoesOn
<1>3. ASSUME GoesOn, queued' = queued, NEW f \in Files, result[f] # "none" \/ OnItsWay(f)
      PROVE  result'[f] # "none" \/ OnItsWay(f)'
  <2>1. \/ result'[f] # "none"
        \/ OnItsWay(f) /\ outstanding'[f] # {} /\ outstanding'[f] \subseteq pending
    BY <1>1, <1>3, JoinRows
  <2> QED
    BY <1>2, <1>3, <2>1 DEF OnItsWay
<1> QED
  BY <1>1, <1>2, <1>3

(* A row that a step of a push changes.                                    *)
RowWritten(f) ==
  \/ result'[f] = result[f] \/ result'[f] = "failed"
  \/ result'[f] \in {"ok", "skipped"} /\ f \in mem'.files

(* A step of a push that writes rows and cuts no file.                     *)
LEMMA RowsKept ==
  ASSUME Typed, RowsInv, pc # "idle", ResultsTyped', mem.files \subseteq mem'.files,
         \A f \in Files : RowWritten(f),
         \A f \in Files : outstanding'[f] \subseteq MessagesOf(f),
         \A f \in Files : work'[f].st \in {"prepared", "skipped"} =>
           work'[f] = work[f] \/ (work'[f].st = "skipped" /\ f \in mem'.files),
         PostFits', AbortedEnds'
  PROVE  RowsInv'
<1>1. RowsListed'
  BY DEF RowsInv, RowsListed, RowWritten
<1>2. OwnMessages'
  <2>1. ASSUME NEW f \in Files, work'[f].st = "prepared"
        PROVE  Tracked(f)' \subseteq MessagesOf(f)
    <3>1. work'[f] = work[f] /\ work[f].st = "prepared"
      BY <2>1
    <3>2. Tracked(f)' = Tracked(f)
      BY <3>1 DEF Tracked
    <3> QED
      BY <3>1, <3>2 DEF RowsInv, OwnMessages
  <2>2. \A f : MessagesOf(f)' = MessagesOf(f)
    BY DEF MessagesOf
  <2> QED
    BY <2>1, <2>2 DEF OwnMessages
<1> QED
  BY <1>1, <1>2 DEF RowsInv

(* A join, among the steps of the main thread, keeps the rows true.        *)
LEMMA JoinKeepsRows ==
  ASSUME Typed, RowsInv, pc # "idle", Join, work' = work,
         post'.st = "none" => post'.msgs = {}, pc' # "idle",
         pc' = "report" => post'.st = "none", AbortedEnds'
  PROVE  RowsInv'
<1>1. ResultsTyped' /\ mem.files \subseteq mem'.files
      /\ \A f \in Files : RowWritten(f)
  BY JoinRows DEF RowWritten
<1>2. \A f \in Files : outstanding'[f] \subseteq MessagesOf(f)
  BY JoinRows DEF RowsInv, OwnMessages
<1>3. PostFits'
  BY DEF PostFits
<1> QED
  BY <1>1, <1>2, <1>3, RowsKept

(* A step that leaves rows, journal, request and debts alone.              *)
LEMMA QuietRows ==
  ASSUME Typed, RowsInv, pc # "idle", UNCHANGED <<mem, result, work, outstanding, post>>,
         pc' \notin {"idle", "report"}, AbortedEnds'
  PROVE  RowsInv'
<1>1. ResultsTyped' /\ PostFits'
  BY DEF RowsInv, ResultsTyped, PostFits
<1> QED
  BY <1>1, RowsKept DEF RowsInv, OwnMessages, RowWritten

(* Every step of the main thread keeps the rows true.                      *)
LEMMA MainRows ==
  ASSUME DoneInv, RowsInv, Main
  PROVE  RowsInv'
<1>0. Typed /\ pc # "idle"
  BY DEF DoneInv, Main, MainStep, LoopTop, Submit, WaitOne, FlushOtherSource, Consume,
         QueueChunk, FlushFull, FinishQueueing, Shutdown, SettlePush, JoinLast
<1>1. CASE LoopTop
  <2>1. work' = work /\ pc' \notin {"idle", "report"} /\ AbortedEnds'
    BY <1>1 DEF LoopTop, Abort, AbortedEnds, RowsInv
  <2>2. CASE Flush
    BY <1>0, <2>1, <2>2, FlushRows, JoinKeepsRows
  <2>3. CASE NoPipe
    BY <1>0, <2>1, <2>3, QuietRows DEF NoPipe, pipeVars
  <2> QED
    BY <1>1, <2>2, <2>3 DEF LoopTop
<1>2. CASE Submit
  <2>1. UNCHANGED <<mem, outstanding, post>> /\ pc' \notin {"idle", "report"} /\ AbortedEnds'
    BY <1>2 DEF Submit, AbortedEnds, RowsInv
  <2>2. PostFits'
    BY <2>1 DEF RowsInv, PostFits
  <2>3. CASE RoomForNext
    <3>1. submitted + 1 \in Files
      BY <1>0, <2>3, FolderAssumption DEF RoomForNext, Typed, Files, FolderAssumption
    <3>2. CASE AlreadyImported(submitted + 1)
      <4>1. /\ work' = [work EXCEPT ![submitted + 1].st = "skipped"]
            /\ result' = [result EXCEPT ![submitted + 1] = "skipped"]
            /\ submitted + 1 \in mem'.files
        BY <1>2, <2>1, <2>3, <3>2 DEF Submit, AlreadyImported
      <4>2. ResultsTyped' /\ \A f \in Files : RowWritten(f)
        BY <3>1, <4>1 DEF RowsInv, ResultsTyped, RowWritten
      <4>3. \A f \in Files : work'[f] = work[f] \/ (work'[f].st = "skipped" /\ f \in mem'.files)
        BY <1>0, <3>1, <4>1 DEF Typed, WorkTyped, Worker
      <4> QED
        BY <1>0, <2>1, <2>2, <4>2, <4>3, RowsKept DEF RowsInv, OwnMessages
    <3>3. CASE ~AlreadyImported(submitted + 1)
      <4>1. work' = [work EXCEPT ![submitted + 1].st = "queued"] /\ result' = result
        BY <1>2, <2>3, <3>3 DEF Submit
      <4>2. ResultsTyped' /\ \A f \in Files : RowWritten(f)
        BY <4>1 DEF RowsInv, ResultsTyped, RowWritten
      <4>3. \A f \in Files : work'[f] = work[f] \/ work'[f].st = "queued"
        BY <1>0, <3>1, <4>1 DEF Typed, WorkTyped, Worker
      <4> QED
        BY <1>0, <2>1, <2>2, <4>2, <4>3, RowsKept DEF RowsInv, OwnMessages
    <3> QED
      BY <3>2, <3>3
  <2>4. CASE ~RoomForNext
    BY <1>0, <1>2, <2>1, <2>4, QuietRows DEF Submit
  <2> QED
    BY <2>3, <2>4
<1>3. CASE WaitOne \/ Shutdown
  <2>1. work' = work /\ pc' \notin {"idle", "report"} /\ AbortedEnds' /\ NoPipe
    BY <1>3 DEF WaitOne, Shutdown, AbortedEnds, RowsInv
  <2> QED
    BY <1>0, <2>1, QuietRows DEF NoPipe, pipeVars
<1>4. CASE FlushOtherSource \/ FlushFull
  <2>1. work' = work /\ pc' \notin {"idle", "report"} /\ AbortedEnds' /\ Flush
    BY <1>4 DEF FlushOtherSource, FlushFull, AfterFlush, Abort, AbortedEnds, RowsInv
  <2> QED
    BY <1>0, <2>1, FlushRows, JoinKeepsRows
<1>5. CASE Consume
  <2>1. UNCHANGED <<mem, work, post, aborted>> /\ pc = "consume"
        /\ pc' \in {"loop", "queue", "consume"}
    BY <1>5 DEF Consume
  <2>2. PostFits' /\ AbortedEnds'
    BY <2>1 DEF RowsInv, PostFits, AbortedEnds
  <2>3. CASE result' = [result EXCEPT ![taken + 1] = work[taken + 1].st]
             /\ Ready(taken + 1) /\ work[taken + 1].st \in {"skipped", "failed"}
             /\ outstanding' = outstanding
    <3>1. ResultsTyped' /\ \A f \in Files : RowWritten(f)
      BY <2>1, <2>3 DEF RowsInv, ResultsTyped, RowsListed, RowWritten, Ready
    <3> QED
      BY <1>0, <2>1, <2>2, <2>3, <3>1, RowsKept DEF RowsInv, OwnMessages
  <2>4. CASE result' = result /\ outstanding' = outstanding
    BY <1>0, <2>1, <2>2, <2>4, QuietRows
  <2>5. CASE result' = result /\ Ready(taken + 1) /\ work[taken + 1].st = "prepared"
             /\ outstanding' = [outstanding EXCEPT ![taken + 1] = Tracked(taken + 1)]
    <3>1. \A f \in Files : outstanding'[f] \subseteq MessagesOf(f)
      BY <1>0, <2>5 DEF RowsInv, OwnMessages, Ready, Typed
    <3>2. ResultsTyped' /\ \A f \in Files : RowWritten(f)
      BY <2>5 DEF RowsInv, ResultsTyped, RowWritten
    <3> QED
      BY <1>0, <2>1, <2>2, <3>1, <3>2, RowsKept
  <2> QED
    BY <1>5, <2>3, <2>4, <2>5 DEF Consume
<1>6. CASE QueueChunk
  <2>1. work' = work /\ pc' \notin {"idle", "report"} /\ AbortedEnds'
    BY <1>6 DEF QueueChunk, AfterFlush, Abort, AbortedEnds, RowsInv
  <2>2. CASE Flush
    BY <1>0, <2>1, <2>2, FlushRows, JoinKeepsRows
  <2>3. CASE ~Flush
    BY <1>0, <1>6, <2>1, <2>3, QuietRows DEF QueueChunk
  <2> QED
    BY <2>2, <2>3
<1>7. CASE FinishQueueing
  <2>1. /\ UNCHANGED <<work, post, outstanding, failed, aborted>> /\ pc = "queue"
        /\ pc' = "consume"
    BY <1>7 DEF FinishQueueing
  <2>2. PostFits' /\ AbortedEnds'
    BY <2>1 DEF RowsInv, PostFits, AbortedEnds
  <2>3. RowsMove({taken + 1}, outstanding, failed, queued')
    BY <1>7, FinishRows DEF RowsInv
  <2>4. ResultsTyped' /\ mem.files \subseteq mem'.files /\ \A f \in Files : RowWritten(f)
    BY <2>3 DEF RowsMove, RowWritten
  <2> QED
    BY <1>0, <2>1, <2>2, <2>4, RowsKept DEF RowsInv, OwnMessages
<1>8. CASE SettlePush
  <2>1. work' = work /\ pc' # "idle" /\ Join
        /\ (pc' = "report" => post' = NoPost) /\ AbortedEnds'
    BY <1>8 DEF SettlePush, AbortedEnds, RowsInv, Flush
  <2>2. NoPost.st = "none" /\ NoPost.msgs = {}
    BY DEF NoPost
  <2>3. post'.st = "none" => post'.msgs = {}
    BY <1>0, <1>8, <2>2, FlushRows DEF SettlePush
  <2> QED
    BY <1>0, <2>1, <2>2, <2>3, JoinKeepsRows
<1>9. CASE JoinLast
  <2>1. work' = work /\ pc' = "report" /\ Join /\ post' = NoPost /\ AbortedEnds'
    BY <1>9 DEF JoinLast, AbortedEnds
  <2>2. NoPost.st = "none" /\ NoPost.msgs = {}
    BY DEF NoPost
  <2> QED
    BY <1>0, <2>1, <2>2, JoinKeepsRows
<1> QED
  BY <1>1, <1>2, <1>3, <1>4, <1>5, <1>6, <1>7, <1>8, <1>9 DEF Main, MainStep

(* What a queue of chunks holds: its first chunk and the rest.             *)
LEMMA HeldParts ==
  ASSUME NEW T, NEW q \in Seq(T), q # <<>>
  PROVE  Held(q) = Head(q) \cup Held(Tail(q))
<1>1. /\ DOMAIN q = 1..Len(q) /\ DOMAIN Tail(q) = 1..(Len(q) - 1)
      /\ Len(q) \in Nat \ {0} /\ Head(q) = q[1]
      /\ \A i \in 1..(Len(q) - 1) : Tail(q)[i] = q[i + 1]
  OBVIOUS
<1>2. ASSUME NEW g \in Held(q) PROVE g \in Head(q) \cup Held(Tail(q))
  <2>1. PICK i \in 1..Len(q) : g \in q[i]
    BY <1>1 DEF Held
  <2>2. CASE i = 1
    BY <1>1, <2>1, <2>2
  <2>3. CASE i # 1
    <3>1. i - 1 \in 1..(Len(q) - 1) /\ Tail(q)[i - 1] = q[i]
      BY <1>1, <2>1, <2>3
    <3> QED
      BY <1>1, <2>1, <3>1 DEF Held
  <2> QED
    BY <2>2, <2>3
<1>3. ASSUME NEW g \in Head(q) \cup Held(Tail(q)) PROVE g \in Held(q)
  <2>1. CASE g \in Head(q)
    BY <1>1, <2>1 DEF Held
  <2>2. CASE g \in Held(Tail(q))
    <3>1. PICK i \in 1..(Len(q) - 1) : g \in Tail(q)[i]
      BY <1>1, <2>2 DEF Held
    <3>2. i + 1 \in 1..Len(q) /\ g \in q[i + 1]
      BY <1>1, <3>1
    <3> QED
      BY <1>1, <3>2 DEF Held
  <2> QED
    BY <1>3, <2>1, <2>2
<1> QED
  BY <1>2, <1>3

(* A step that leaves rows, debts, the batch and the request alone.        *)
LEMMA QuietSettles ==
  ASSUME TakenSettle,
         UNCHANGED <<result, outstanding, queued, pending, post, failed, taken>>,
         pc' \in {"queue", "full"} => toQueue' = toQueue /\ pc \in {"queue", "full"},
         pc' \in {"shutdown", "settle", "last", "report"} => taken = NFiles,
         pc' \notin {"last", "report"}
  PROVE  TakenSettle'
BY DEF TakenSettle, OnItsWay

(* A flush that goes on: what is owed is in the request now.               *)
LEMMA FlushSettles ==
  ASSUME Typed, RowsInv, TakenSettle, Flush, GoesOn, taken' = taken, queued' = queued,
         pc' \in {"queue", "full"} =>
           /\ pc \in {"queue", "full"} /\ taken + 1 \in Files
           /\ toQueue' = toQueue \/ taken + 1 \in failed',
         pc' \in {"shutdown", "settle", "last", "report"} => taken = NFiles,
         pc' # "report"
  PROVE  TakenSettle'
<1>1. \A f \in Files : f <= taken => result'[f] # "none" \/ OnItsWay(f)'
  BY FlushRows DEF TakenSettle
<1>2. pending' = {} /\ post'.msgs = pending /\ Join
  BY FlushRows
<1>3. ASSUME pc' \in {"queue", "full"}
      PROVE  \/ taken + 1 \in failed'
             \/ outstanding'[taken + 1] \subseteq
                  pending' \cup post'.msgs \cup Held(toQueue)
  <2>1. taken + 1 \in Files
    BY <1>3
  <2>2. failed \subseteq failed'
        /\ \A U : outstanding[taken + 1] \subseteq pending \cup post.msgs \cup U =>
                    taken + 1 \in failed' \/ outstanding'[taken + 1] \subseteq pending \cup U
    BY <1>2, <2>1, JoinRows
  <2>3. \/ taken + 1 \in failed
        \/ outstanding[taken + 1] \subseteq pending \cup post.msgs \cup Held(toQueue)
    BY <1>3 DEF TakenSettle
  <2> QED
    BY <1>2, <2>2, <2>3
<1>4. pc' \in {"queue", "full"} =>
        \/ taken' + 1 \in failed'
        \/ outstanding'[taken' + 1] \subseteq pending' \cup post'.msgs \cup Held(toQueue')
  BY <1>3
<1> QED
  BY <1>1, <1>2, <1>4 DEF TakenSettle, Held

(* Every step of the main thread that does not abort keeps the taken files *)
(* on their way to a row.                                                  *)
LEMMA MainSettles ==
  ASSUME DoneInv, OkInv, Main, ~aborted'
  PROVE  TakenSettle'
<1>0. Typed /\ RowsInv /\ pc # "idle" /\ NFiles \in Nat
  BY FolderAssumption
     DEF DoneInv, OkInv, Main, MainStep, LoopTop, Submit, WaitOne, FlushOtherSource, Consume,
         QueueChunk, FlushFull, FinishQueueing, Shutdown, SettlePush, JoinLast,
         FolderAssumption
<1>1. ~aborted /\ TakenSettle
  BY <1>0 DEF OkInv, SettleInv, Main, MainStep, LoopTop, Submit, WaitOne, FlushOtherSource,
     Consume, QueueChunk, FlushFull, FinishQueueing, Shutdown, SettlePush, JoinLast, Abort,
     AfterFlush, RowsInv, AbortedEnds
<1>2. CASE LoopTop
  <2>1. CASE NoPipe
    <3>1. /\ UNCHANGED <<result, outstanding, queued, pending, post, failed, taken>>
          /\ pc' \in {"submit", "shutdown"} /\ (pc' = "shutdown" => taken = NFiles)
      BY <1>2, <2>1, <1>0 DEF LoopTop, NoPipe, pipeVars, queueVars, Abort
    <3> QED
      BY <1>1, <3>1, QuietSettles
  <2>2. CASE Flush /\ ~NoPipe
    <3>1. GoesOn /\ pc' = "submit" /\ UNCHANGED <<taken, queued>>
      BY <1>2, <2>2 DEF LoopTop, GoesOn, queueVars
    <3> QED
      BY <1>0, <1>1, <2>2, <3>1, FlushSettles
  <2> QED
    BY <1>2, <2>1, <2>2 DEF LoopTop
<1>3. CASE Submit
  <2>1. /\ UNCHANGED <<outstanding, queued, pending, post, failed, taken>>
        /\ pc' \in {"submit", "wait"}
    BY <1>3 DEF Submit
  <2>2. \A f \in Files : result'[f] = result[f] \/ result'[f] # "none"
    BY <1>0, <1>3 DEF Submit, RowsInv, ResultsTyped
  <2> QED
    BY <1>1, <2>1, <2>2 DEF TakenSettle, OnItsWay
<1>4. CASE WaitOne \/ Shutdown
  <2>1. /\ UNCHANGED <<result, outstanding, queued, pending, post, failed, taken>>
        /\ pc' \in {"consume", "settle"} /\ (pc' = "settle" => pc = "shutdown")
    BY <1>4 DEF WaitOne, Shutdown, NoPipe, pipeVars, queueVars
  <2>2. pc' = "settle" => taken = NFiles
    BY <1>1, <2>1 DEF TakenSettle
  <2> QED
    BY <1>1, <2>1, <2>2, QuietSettles
<1>5. CASE FlushOtherSource
  <2>1. GoesOn /\ Flush /\ pc' = "consume" /\ UNCHANGED <<taken, queued>>
    BY <1>5 DEF FlushOtherSource, queueVars, Abort
  <2> QED
    BY <1>0, <1>1, <2>1, FlushSettles
<1>6. CASE Consume
  <2>1. /\ UNCHANGED <<queued, pending, post, failed>> /\ pc = "consume"
    BY <1>6 DEF Consume
  <2>2. CASE pc' = "loop" /\ UNCHANGED <<taken, result, outstanding>>
    BY <1>1, <2>1, <2>2, QuietSettles
  <2>3. CASE /\ pc' = "consume" /\ taken' = taken + 1 /\ outstanding' = outstanding
             /\ taken + 1 \in Files
             /\ result' = [result EXCEPT ![taken + 1] = work[taken + 1].st]
             /\ work[taken + 1].st \in {"skipped", "failed"}
    <3>1. \A f \in Files : f <= taken + 1 => f <= taken \/ f = taken + 1
      BY <1>0 DEF Typed, Files
    <3>2. \A f \in Files : f <= taken' => result'[f] # "none" \/ OnItsWay(f)'
      BY <1>0, <1>1, <2>1, <2>3, <3>1 DEF TakenSettle, OnItsWay, RowsInv, ResultsTyped
    <3> QED
      BY <2>3, <3>2 DEF TakenSettle
  <2>4. CASE /\ pc' = "queue" /\ taken' = taken /\ taken + 1 \in Files
             /\ result' = result /\ toQueue' = work[taken + 1].chunks
             /\ outstanding' = [outstanding EXCEPT ![taken + 1] = Tracked(taken + 1)]
    <3>1. \A f \in Files : f <= taken => outstanding'[f] = outstanding[f]
      BY <1>0, <2>4 DEF Typed, Files
    <3>2. outstanding'[taken + 1] = Held(toQueue')
      BY <1>0, <2>4 DEF Typed, Held, Tracked
    <3>3. \A f \in Files : f <= taken => result'[f] # "none" \/ OnItsWay(f)'
      BY <1>1, <2>1, <2>4, <3>1 DEF TakenSettle, OnItsWay
    <3>4. outstanding'[taken' + 1] \subseteq pending' \cup post'.msgs \cup Held(toQueue')
      BY <2>4, <3>2
    <3> QED
      BY <2>4, <3>3, <3>4 DEF TakenSettle, Held
  <2> QED
    BY <1>6, <2>2, <2>3, <2>4 DEF Consume, Ready
<1>7. CASE Flush /\ AfterFlush(taken + 1, toQueue) /\ UNCHANGED <<queueVars, queued>>
           /\ pc \in {"queue", "full"}
  <2>1. GoesOn /\ pc' = "queue" /\ taken' = taken
        /\ (toQueue' = toQueue \/ taken + 1 \in failed')
    BY <1>7 DEF AfterFlush, Abort, queueVars
  <2>2. taken + 1 \in Files
    BY <1>0, <1>7 DEF DoneInv, InHand, Typed, Files
  <2> QED
    BY <1>0, <1>1, <1>7, <2>1, <2>2, FlushSettles
<1>8. CASE QueueChunk /\ ~(Flush /\ AfterFlush(taken + 1, toQueue))
  <2>1. /\ UNCHANGED <<taken, queued, outstanding, failed, result, post>>
        /\ toQueue # <<>> /\ pending' = pending \cup Head(toQueue)
        /\ toQueue' = Tail(toQueue) /\ pc = "queue" /\ pc' \in {"queue", "full"}
    BY <1>8 DEF QueueChunk, queueVars
  <2>2. Held(toQueue) = Head(toQueue) \cup Held(toQueue')
    BY <1>0, <2>1, HeldParts DEF Typed
  <2>3. \A f \in Files : f <= taken => result'[f] # "none" \/ OnItsWay(f)'
    BY <1>1, <2>1 DEF TakenSettle, OnItsWay
  <2>4. \/ taken' + 1 \in failed'
        \/ outstanding'[taken' + 1] \subseteq pending' \cup post'.msgs \cup Held(toQueue')
    BY <1>1, <2>1, <2>2 DEF TakenSettle
  <2> QED
    BY <2>1, <2>3, <2>4 DEF TakenSettle, Held
<1>9. CASE FinishQueueing
  <2>1. /\ UNCHANGED <<outstanding, failed, pending, post>> /\ pc = "queue"
        /\ pc' = "consume" /\ taken' = taken + 1 /\ toQueue = <<>>
        /\ queued' = queued \cup {taken + 1}
    BY <1>9 DEF FinishQueueing
  <2>2. RowsMove({taken + 1}, outstanding, failed, queued') /\ taken + 1 \in Files
    BY <1>0, <1>9, FinishRows DEF RowsInv
  <2>3. Held(toQueue) = {}
    BY <2>1 DEF Held
  <2>4. \A f \in Files : f <= taken + 1 => f <= taken \/ f = taken + 1
    BY <1>0 DEF Typed, Files
  <2>5. \A f \in Files : f <= taken' => result'[f] # "none" \/ OnItsWay(f)'
    <3>1. PICK e \in Files : e = taken + 1
      BY <2>2
    <3>2. result'[e] # "none" \/ OnItsWay(e)'
      BY <1>1, <2>1, <2>2, <2>3, <3>1 DEF TakenSettle, OnItsWay, RowsMove
    <3>3. \A f \in Files : f <= taken => result'[f] # "none" \/ OnItsWay(f)'
      BY <1>1, <2>1, <2>2 DEF TakenSettle, OnItsWay, RowsMove
    <3> QED
      BY <2>1, <2>4, <3>1, <3>2, <3>3
  <2> QED
    BY <2>1, <2>5 DEF TakenSettle
<1>10. CASE SettlePush
  <2>1. Flush /\ GoesOn /\ pc' = "last" /\ UNCHANGED <<taken, queued>> /\ taken = NFiles
    BY <1>1, <1>10 DEF SettlePush, GoesOn, queueVars, TakenSettle
  <2> QED
    BY <1>0, <1>1, <2>1, FlushSettles
<1>11. CASE JoinLast
  <2>1. Join /\ pc' = "report" /\ taken' = taken /\ taken = NFiles /\ pending = {}
    BY <1>1, <1>11 DEF JoinLast, queueVars, TakenSettle
  <2>2. \A f \in Files : f <= taken
    BY <1>0, <2>1 DEF Files
  <2>3. \A f \in Files : result'[f] # "none"
    <3>1. \A f \in Files : OnItsWay(f) =>
            result'[f] # "none" \/ (outstanding'[f] # {} /\ outstanding'[f] \subseteq pending)
      BY <1>0, <2>1, JoinRows
    <3>2. \A f \in Files : result[f] # "none" => result'[f] = result[f]
      BY <1>0, <2>1, JoinRows
    <3>3. \A f \in Files : result[f] # "none" \/ OnItsWay(f)
      BY <1>1, <2>2 DEF TakenSettle
    <3> QED
      BY <2>1, <3>1, <3>2, <3>3
  <2> QED
    BY <2>1, <2>3 DEF TakenSettle
<1>12. QueueChunk \/ FlushFull =>
         \/ Flush /\ AfterFlush(taken + 1, toQueue) /\ UNCHANGED <<queueVars, queued>>
            /\ pc \in {"queue", "full"}
         \/ QueueChunk /\ ~(Flush /\ AfterFlush(taken + 1, toQueue))
  BY DEF QueueChunk, FlushFull
<1> QED
  BY <1>2, <1>3, <1>4, <1>5, <1>6, <1>7, <1>8, <1>9, <1>10, <1>11, <1>12 DEF Main, MainStep

(* A worker's step leaves the other workers alone, and its own file is     *)
(* neither passed over nor sent back.                                      *)
LEMMA PrepareStates ==
  ASSUME Typed, NEW f \in Files, PrepareStep(f) \/ PrepareFault(f)
  PROVE  /\ \A e \in Files \ {f} : work'[e] = work[e]
         /\ work'[f].st \in {"claiming", "uploading", "waiting", "prepared", "failed"}
<1>0. work \in [Files -> Worker]
  BY DEF Typed, WorkTyped
<1>1. CASE GiveUp(f)
  <2>1. [Idle EXCEPT !.st = "failed"].st = "failed"
    BY DEF Idle
  <2> HIDE DEF Idle
  <2> QED
    BY <1>0, <1>1, <2>1 DEF GiveUp
<1>2. CASE StartPrepare(f) \/ ClaimsDone(f) \/ AwaitOthers(f)
  BY <1>0, <1>2 DEF StartPrepare, ClaimsDone, AwaitOthers, Worker
<1>3. CASE ClaimNext(f) /\ ~GiveUp(f)
  <2>1. PICK d : Claim(f, d) /\ work[f].st = "claiming"
    BY <1>3 DEF ClaimNext
  <2> QED
    BY <1>0, <2>1 DEF Claim, Worker
<1>4. CASE RecordUpload(f) /\ ~GiveUp(f)
  <2>1. work[f].st = "uploading"
        /\ work' = [work EXCEPT ![f].held = @ \ {Least(work[f].held)}]
    BY <1>4 DEF RecordUpload
  <2> QED
    BY <1>0, <2>1 DEF Worker
<1>5. CASE WaitOver(f) /\ ~GiveUp(f)
  BY <1>0, <1>5 DEF WaitOver, Worker
<1>6. CASE BuildChunks(f) /\ ~GiveUp(f)
  <2> DEFINE v == [Idle EXCEPT !.st = "prepared", !.chunks = Chunks(Unsent(f))]
  <2>1. v.st = "prepared"
    BY DEF Idle
  <2>2. work' = [work EXCEPT ![f] = v]
    BY <1>6 DEF BuildChunks
  <2> HIDE DEF v
  <2> QED
    BY <1>0, <2>1, <2>2
<1>7. ASSUME NEW d \in Digests, UploadOk(f, d) \/ UploadFails(f, d)
      PROVE  /\ \A e \in Files \ {f} : work'[e] = work[e]
             /\ work'[f].st = "uploading"
  BY <1>0, <1>7 DEF UploadOk, UploadFails, Worker
<1>8. CASE PrepareFails(f)
  BY <1>1, <1>8 DEF PrepareFails
<1> QED
  BY <1>1, <1>2, <1>3, <1>4, <1>5, <1>6, <1>7, <1>8 DEF PrepareStep, PrepareFault

(* What the chunks of a file hold after a worker's step.                   *)
LEMMA PrepareTracks ==
  ASSUME Typed, NEW f \in Files, PrepareStep(f) \/ PrepareFault(f)
  PROVE  \A e \in Files : work'[e].st = "prepared" =>
           \/ work'[e] = work[e]
           \/ /\ work[e].st = "uploading" /\ work'[e].chunks = Chunks(Unsent(e))
              /\ Tracked(e)' = Unsent(e) /\ Unsent(e) \in SUBSET Guids
<1> SUFFICES ASSUME NEW e \in Files, work'[e].st = "prepared", work'[e] # work[e]
             PROVE  /\ work[e].st = "uploading" /\ work'[e].chunks = Chunks(Unsent(e))
                    /\ Tracked(e)' = Unsent(e) /\ Unsent(e) \in SUBSET Guids
  OBVIOUS
<1>1. BuildChunks(e) /\ work'[e].chunks = Chunks(Unsent(e))
  BY PrepareWork
<1>2. Unsent(e) \in SUBSET Guids
  BY DEF Unsent, MessagesOf
<1>3. UNION {Chunks(Unsent(e))[i] : i \in DOMAIN Chunks(Unsent(e))} = Unsent(e)
  BY <1>2, ChunksWhole
<1>4. Tracked(e)' = Unsent(e)
  BY <1>1, <1>3 DEF Tracked
<1> QED
  BY <1>1, <1>2, <1>4 DEF BuildChunks

(* What goes on around the main thread does not touch the rows.            *)
LEMMA AroundRows ==
  ASSUME RowsInv, result' = result, mem'.files = mem.files, outstanding' = outstanding,
         pc' = pc, aborted' = aborted,
         post' = post \/ (post.st = "sending" /\ post'.st # "none"),
         \A f \in Files : work'[f].st = "skipped" => work[f].st = "skipped",
         \A f \in Files : work'[f].st = "prepared" =>
           work'[f] = work[f] \/ Tracked(f)' \subseteq MessagesOf(f)
  PROVE  RowsInv'
<1>1. ResultsTyped' /\ AbortedEnds' /\ RowsListed' /\ PostFits'
  BY DEF RowsInv, ResultsTyped, AbortedEnds, RowsListed, PostFits
<1>2. OwnMessages'
  <2>1. \A f \in Files : work'[f] = work[f] => Tracked(f)' = Tracked(f)
    BY DEF Tracked
  <2>2. \A f : MessagesOf(f)' = MessagesOf(f)
    BY DEF MessagesOf
  <2> QED
    BY <2>1, <2>2 DEF RowsInv, OwnMessages
<1> QED
  BY <1>1, <1>2 DEF RowsInv

(* Nor do such steps keep a file that was taken from its row.              *)
LEMMA AroundSettles ==
  ASSUME SettleInv, UNCHANGED <<pc, aborted, taken, result, outstanding, queued, failed>>,
         UNCHANGED <<pending, toQueue>>, post'.msgs = post.msgs
  PROVE  SettleInv'
BY DEF SettleInv, TakenSettle, OnItsWay, Held

(* A push that starts, and one that dies, have an empty report.            *)
LEMMA FreshRows ==
  ASSUME result' = [f \in Files |-> "none"], outstanding' = [f \in Files |-> {}],
         work' = [f \in Files |-> Idle], post' = NoPost, taken' = 0,
         (pc' = "loop" /\ ~aborted') \/ pc' = "idle"
  PROVE  RowsInv' /\ SettleInv'
<1>1. Idle.st = "none" /\ NoPost.st = "none" /\ NoPost.msgs = {}
  BY DEF Idle, NoPost
<1>2. ResultsTyped' /\ RowsListed' /\ OwnMessages' /\ PostFits' /\ AbortedEnds'
  BY <1>1 DEF ResultsTyped, RowsListed, OwnMessages, PostFits, AbortedEnds
<1>3. \A f \in Files : ~(f <= taken')
  BY FolderAssumption DEF Files, FolderAssumption
<1>4. SettleInv'
  BY <1>3 DEF SettleInv, TakenSettle
<1> QED
  BY <1>2, <1>4 DEF RowsInv

(* Every step keeps what the report will say true.                         *)
LEMMA NextRows ==
  ASSUME DoneInv, OkInv, [Next]_vars
  PROVE  OkInv'
<1>0. Typed /\ RowsInv /\ SettleInv
  BY DEF DoneInv, OkInv
<1>1. ASSUME NEW m \in Modes, NEW fo \in Forces, StartPush(m, fo)
      PROVE  OkInv'
  BY <1>1, FreshRows DEF StartPush, OkInv
<1>2. CASE Main
  <2>1. RowsInv'
    BY <1>0, <1>2, MainRows
  <2>2. SettleInv'
    BY <1>2, MainSettles DEF SettleInv
  <2> QED
    BY <2>1, <2>2 DEF OkInv
<1>3. CASE Report
  <2>1. /\ UNCHANGED <<mem, work, outstanding, post>> /\ pc = "report" /\ pc' = "idle"
        /\ result' = [f \in Files |-> IF result[f] = "none" THEN "cancelled" ELSE result[f]]
    BY <1>3 DEF Report
  <2>2. ResultsTyped' /\ RowsListed'
    BY <1>0, <2>1 DEF RowsInv, ResultsTyped, RowsListed
  <2>3. OwnMessages' /\ PostFits' /\ AbortedEnds' /\ SettleInv'
    BY <1>0, <2>1 DEF RowsInv, OwnMessages, Tracked, MessagesOf, PostFits, AbortedEnds, SettleInv
  <2> QED
    BY <2>2, <2>3 DEF OkInv, RowsInv
<1>4. ASSUME NEW f \in Files, PrepareStep(f) \/ PrepareFault(f)
      PROVE  OkInv'
  <2>1. /\ UNCHANGED <<pc, aborted, taken, result, outstanding, queued, failed>>
        /\ UNCHANGED <<pending, toQueue, post>>
    BY <1>4 DEF PrepareStep, PrepareFault, queueVars, mainVars, pipeVars
  <2>2. mem'.files = mem.files
    BY <1>0, <1>4, PrepareJournal
  <2>3. \A e \in Files : work'[e].st = "skipped" => work[e].st = "skipped"
    BY <1>0, <1>4, PrepareStates
  <2>4. \A e \in Files : Unsent(e) \subseteq MessagesOf(e)
    BY DEF Unsent
  <2>5. \A e \in Files : work'[e].st = "prepared" =>
          work'[e] = work[e] \/ Tracked(e)' \subseteq MessagesOf(e)
    BY <1>0, <1>4, <2>4, PrepareTracks
  <2> QED
    BY <1>0, <2>1, <2>2, <2>3, <2>5, AroundRows, AroundSettles DEF OkInv
<1>5. CASE PostStep \/ PostFault
  <2>1. /\ UNCHANGED <<pc, aborted, taken, result, outstanding, queued, failed>>
        /\ UNCHANGED <<pending, toQueue, mem, work>>
    BY <1>5 DEF PostStep, PostFault, journalVars, queueVars, mainVars, pipeVars
  <2>2. post.st = "sending" /\ post'.st # "none" /\ post'.msgs = post.msgs
    <3>1. post \in Posts
      BY <1>0 DEF Typed
    <3> QED
      BY <1>5, <3>1 DEF PostStep, PostFault, PostStored, PostAnswered, PostFails, Posts
  <2> QED
    BY <1>0, <2>1, <2>2, AroundRows, AroundSettles DEF OkInv
<1>6. CASE Cancel \/ RunEnds \/ UNCHANGED vars
  <2>1. /\ UNCHANGED <<pc, aborted, taken, result, outstanding, queued, failed>>
        /\ UNCHANGED <<pending, toQueue, post, mem, work>>
    BY <1>6 DEF Cancel, RunEnds, vars, journalVars, queueVars, mainVars, pipeVars
  <2> QED
    BY <1>0, <2>1, AroundRows, AroundSettles DEF OkInv
<1>7. CASE Crash
  BY <1>7, FreshRows DEF Crash, OkInv
<1> QED
  BY <1>1, <1>2, <1>3, <1>4, <1>5, <1>6, <1>7 DEF Next

(* A report that says ok comes when every file has its row, and none of    *)
(* them is failed or cancelled: each is then listed as done.               *)
LEMMA NextOk ==
  ASSUME DoneInv, SentInv, OkInv, OkStored, [Next]_vars
  PROVE  OkStored'
<1>1. CASE Report
  <2>1. ASSUME lastOk' PROVE Guids \subseteq stored
    <3>1. ~aborted /\ \A f \in Files : result'[f] # "failed"
      BY <1>1, <2>1 DEF Report
    <3>2. \A f \in Files : result[f] # "none"
      BY <1>1, <3>1 DEF Report, OkInv, SettleInv, TakenSettle
    <3>3. \A f \in Files : result[f] \in {"ok", "skipped"}
      BY <1>1, <3>1, <3>2 DEF Report, OkInv, RowsInv, ResultsTyped, RowsListed
    <3>4. \A f \in Files : f \in mem.files
      BY <3>3 DEF OkInv, RowsInv, RowsListed
    <3>5. \A g \in Guids : FileOf[g] \in Files /\ g \in MessagesOf(FileOf[g])
      BY FolderAssumption DEF FolderAssumption, MessagesOf
    <3> QED
      BY <3>4, <3>5 DEF DoneInv, Complete, SentInv, ListedStored
  <2>2. pc' = "idle" /\ stored' = stored
    BY <1>1 DEF Report
  <2> QED
    BY <2>1, <2>2 DEF OkStored
<1>2. ASSUME NEW m \in Modes, NEW fo \in Forces, StartPush(m, fo)
      PROVE  OkStored'
  BY <1>2 DEF StartPush, OkStored
<1>3. CASE Main
  <2>1. pc # "idle" /\ lastOk' = lastOk
    BY <1>3 DEF Main, MainStep, LoopTop, Submit, WaitOne, FlushOtherSource, Consume,
       QueueChunk, FlushFull, FinishQueueing, Shutdown, SettlePush, JoinLast, countVars
  <2> QED
    BY <2>1 DEF OkStored
<1>4. ASSUME NEW f \in Files, PrepareStep(f) \/ PrepareFault(f)
      PROVE  OkStored'
  <2>1. lastOk' = lastOk /\ pc' = pc
    BY <1>4 DEF PrepareStep, PrepareFault, countVars, mainVars
  <2>2. stored' = stored
    BY <1>4
       DEF PrepareStep, PrepareFault, StartPrepare, ClaimNext, ClaimsDone, RecordUpload,
           AwaitOthers, WaitOver, BuildChunks, PrepareFails, UploadOk, UploadFails, serverVars
  <2> QED
    BY <2>1, <2>2 DEF OkStored
<1>5. CASE PostStep \/ PostFault
  <2>1. lastOk' = lastOk /\ post.st = "sending"
    BY <1>5 DEF PostStep, PostFault, countVars, PostStored, PostAnswered, PostFails
  <2>2. pc # "idle"
    BY <2>1 DEF OkInv, RowsInv, PostFits
  <2> QED
    BY <2>1, <2>2 DEF OkStored
<1>6. CASE Cancel \/ RunEnds \/ UNCHANGED vars
  BY <1>6 DEF OkStored, Cancel, RunEnds, vars, mainVars, countVars, serverVars
<1>7. CASE Crash
  BY <1>7 DEF OkStored, Crash
<1> QED
  BY <1>1, <1>2, <1>3, <1>4, <1>5, <1>6, <1>7 DEF Next

LEMMA InitRows ==
  ASSUME Init
  PROVE  OkInv
<1>1. NoPost.st = "none" /\ NoPost.msgs = {} /\ Idle.st = "none"
  BY DEF NoPost, Idle
<1>2. ResultsTyped /\ RowsListed /\ OwnMessages /\ PostFits /\ AbortedEnds
  BY <1>1 DEF Init, ResultsTyped, RowsListed, OwnMessages, PostFits, AbortedEnds
<1> QED
  BY <1>2 DEF Init, OkInv, RowsInv, SettleInv

(* A push that reports ok has every message of the folder on the server    *)
(* (build_report's verdict): each file that was taken up got its row, ok   *)
(* rows and skipped ones are of files listed as done, and those are        *)
(* stored.  It stays so until a next push starts: nothing is in flight     *)
(* after a report.                                                         *)
THEOREM OkReportsAreTrue ==
  ASSUME OneMode
  PROVE  Spec => []OkMeansStored
<1>1. Init => ClaimInv /\ DoneInv /\ SentInv /\ OkInv /\ OkStored
  <2> SUFFICES ASSUME Init PROVE SentInv /\ OkStored
    BY InitDone, InitRows
  <2>1. post.st = "none" /\ post.stored = FALSE
    BY DEF Init, NoPost
  <2>2. mem.messages = {} /\ disk.messages = {}
    BY DEF Init, Blank
  <2> QED
    BY <2>1, <2>2 DEF Init, SentInv, SentStored, ListedStored, WipesFirst, OkStored
<1>2. ClaimInv /\ DoneInv /\ SentInv /\ OkInv /\ OkStored /\ [Next]_vars
        => (ClaimInv /\ DoneInv /\ SentInv /\ OkInv /\ OkStored)'
  BY NextClaims, NextDone, NextSent, NextRows, NextOk
<1>3. OkStored => OkMeansStored
  BY DEF OkStored, OkMeansStored
<1> QED
  BY <1>1, <1>2, <1>3, PTL DEF Spec

--------------------------------------------------------------------------------
(* A push that nothing disturbs.                                           *)

Undisturbed == faults = 0 /\ ~cancelled /\ run = "running"

NothingFailed ==
  /\ \A f \in Files : work[f].st # "failed" /\ work[f].bad = {}
  /\ post.st # "err" /\ failed = {} /\ ~aborted
  /\ \A f \in Files : result[f] \in {"none", "ok", "skipped"}

AllWell == lastOk /\ \A f \in Files : result[f] \in {"ok", "skipped"}

SmoothInv ==
  /\ faults \in Nat
  /\ Undisturbed /\ pc # "idle" => NothingFailed
  /\ Undisturbed /\ pc = "idle" /\ (\A f \in Files : result[f] # "none") => AllWell

(* A worker that is not cancelled and lost no upload gives up nothing.     *)
LEMMA PrepareSmooth ==
  ASSUME Typed, Undisturbed, NEW f \in Files, PrepareStep(f), work[f].st # "failed",
         work[f].bad = {}
  PROVE  work'[f].st # "failed" /\ work'[f].bad = {}
<1>0. work \in [Files -> Worker] /\ ~cancelled
  BY DEF Typed, WorkTyped, Undisturbed
<1>1. CASE StartPrepare(f) \/ ClaimsDone(f) \/ AwaitOthers(f)
  BY <1>0, <1>1 DEF StartPrepare, ClaimsDone, AwaitOthers, Worker
<1>2. CASE ClaimNext(f)
  <2>1. PICK d : Claim(f, d) /\ work[f].st = "claiming"
    BY <1>0, <1>2 DEF ClaimNext
  <2> QED
    BY <1>0, <2>1 DEF Claim, Worker
<1>3. CASE RecordUpload(f)
  <2>1. work[f].held \in SUBSET Nat /\ work[f].held # {}
    BY <1>0, <1>3, FolderAssumption DEF RecordUpload, Worker, FolderAssumption
  <2>2. PICK d : d = Least(work[f].held)
    OBVIOUS
  <2>3. d \in work[f].held
    BY <2>1, <2>2, LeastNat
  <2>4. d \in work[f].up
    BY <1>3, <2>3 DEF RecordUpload
  <2>5. work' = [work EXCEPT ![f].held = @ \ {d}]
    BY <1>3, <2>2, <2>4 DEF RecordUpload
  <2> QED
    BY <1>0, <2>5 DEF Worker
<1>4. CASE WaitOver(f)
  BY <1>0, <1>4 DEF WaitOver, Worker
<1>5. CASE BuildChunks(f)
  <2> DEFINE v == [Idle EXCEPT !.st = "prepared", !.chunks = Chunks(Unsent(f))]
  <2>1. v.st = "prepared" /\ v.bad = {}
    BY DEF Idle
  <2>2. work' = [work EXCEPT ![f] = v]
    BY <1>0, <1>5 DEF BuildChunks
  <2> HIDE DEF v
  <2> QED
    BY <1>0, <2>1, <2>2
<1>6. ASSUME NEW d \in Digests, UploadOk(f, d)
      PROVE  work'[f].st # "failed" /\ work'[f].bad = {}
  BY <1>0, <1>6 DEF UploadOk, Worker
<1> QED
  BY <1>1, <1>2, <1>3, <1>4, <1>5, <1>6 DEF PrepareStep

(* What a flush or a join does where no request failed.                    *)
LEMMA JoinSmooth ==
  ASSUME Typed, RowsInv, NothingFailed, Join
  PROVE  failed' = {} /\ \A f \in Files : result'[f] \in {"none", "ok", "skipped"}
<1>1. failed' = {}
  BY DEF Join, NothingFailed
<1> QED
  BY <1>1, JoinRows DEF NothingFailed

(* No step of the main thread fails a file of its own accord.              *)
LEMMA MainSmooth ==
  ASSUME DoneInv, RowsInv, NothingFailed, ~cancelled, Main
  PROVE  NothingFailed' /\ pc' # "idle"
<1>0. Typed /\ work \in [Files -> Worker] /\ NoPost.st = "none"
  BY DEF DoneInv, Typed, WorkTyped, NoPost
<1>1. pc' # "idle" /\ ~aborted'
  <2>1. CASE LoopTop \/ Submit \/ WaitOne \/ FlushOtherSource \/ Consume
    BY <2>1 DEF NothingFailed, LoopTop, Submit, WaitOne, FlushOtherSource, Consume, GoesOn
  <2>2. CASE QueueChunk \/ FlushFull
    BY <2>2 DEF NothingFailed, QueueChunk, FlushFull, AfterFlush, GoesOn
  <2>3. CASE FinishQueueing \/ Shutdown \/ SettlePush
    BY <2>3 DEF NothingFailed, FinishQueueing, Shutdown, SettlePush
  <2>4. CASE JoinLast
    BY <2>4 DEF JoinLast
  <2> QED
    BY <2>1, <2>2, <2>3, <2>4 DEF Main, MainStep
<1>2. post'.st # "err"
  <2>1. [NoPost EXCEPT !.st = "sending", !.msgs = pending].st = "sending"
    BY DEF NoPost
  <2>2. Flush => post'.st # "err"
    BY <1>0, <2>1 DEF Flush
  <2>3. post' = post \/ post' = NoPost \/ Flush
    BY DEF Main, MainStep, LoopTop, Submit, WaitOne, FlushOtherSource, Consume, QueueChunk,
           FlushFull, FinishQueueing, Shutdown, SettlePush, JoinLast, NoPipe
  <2> QED
    BY <1>0, <2>2, <2>3 DEF NothingFailed
<1>3. \A f \in Files : work'[f].st # "failed" /\ work'[f].bad = {}
  <2>1. CASE Submit
    BY <1>0, <2>1 DEF Submit, NothingFailed, Worker
  <2>2. CASE ~Submit
    BY <2>2 DEF NothingFailed, Main, MainStep, LoopTop, WaitOne, FlushOtherSource, Consume,
       QueueChunk, FlushFull, FinishQueueing, Shutdown, SettlePush, JoinLast
  <2> QED
    BY <2>1, <2>2
<1>4. failed' = {} /\ \A f \in Files : result'[f] \in {"none", "ok", "skipped"}
  <2>1. CASE Join
    BY <1>0, <2>1, JoinSmooth
  <2>2. CASE Submit
    BY <2>2 DEF Submit, NothingFailed, RowsInv, ResultsTyped
  <2>3. CASE Consume
    BY <2>3 DEF Consume, Ready, NothingFailed, RowsInv, ResultsTyped
  <2>4. CASE FinishQueueing
    <3>1. failed' = {} /\ RowsMove({taken + 1}, outstanding, failed, queued')
      BY <2>4, FinishRows DEF FinishQueueing, NothingFailed, RowsInv
    <3> QED
      BY <3>1 DEF RowsMove, NothingFailed
  <2>5. CASE UNCHANGED <<failed, result>>
    BY <2>5 DEF NothingFailed
  <2> QED
    BY <2>1, <2>2, <2>3, <2>4, <2>5
       DEF Main, MainStep, LoopTop, WaitOne, FlushOtherSource, QueueChunk, FlushFull,
           Shutdown, SettlePush, JoinLast, NoPipe, pipeVars, Flush
<1> QED
  BY <1>1, <1>2, <1>3, <1>4 DEF NothingFailed

(* Every step keeps an undisturbed push free of failures.                  *)
LEMMA NextSmooth ==
  ASSUME NFiles # 0, DoneInv, OkInv, SmoothInv, [Next]_vars
  PROVE  SmoothInv'
<1>0. Typed /\ RowsInv /\ SettleInv /\ faults \in Nat
  BY DEF DoneInv, OkInv, SmoothInv
<1>1. Idle.st = "none" /\ Idle.bad = {} /\ NoPost.st = "none"
  BY DEF Idle, NoPost
<1>2. \E f \in Files : TRUE
  BY FolderAssumption DEF Files, FolderAssumption
<1>3. ASSUME NEW m \in Modes, NEW fo \in Forces, StartPush(m, fo)
      PROVE  SmoothInv'
  <2>1. NothingFailed' /\ pc' = "loop" /\ faults' = 0
    BY <1>1, <1>3 DEF StartPush, NothingFailed
  <2> QED
    BY <2>1 DEF SmoothInv
<1>4. CASE Main
  <2>1. UNCHANGED <<cancelled, run, faults>> /\ pc # "idle"
    BY <1>4 DEF Main, configVars, serverVars, MainStep, LoopTop, Submit, WaitOne,
       FlushOtherSource, Consume, QueueChunk, FlushFull, FinishQueueing, Shutdown, SettlePush,
       JoinLast
  <2>2. Undisturbed' => Undisturbed /\ NothingFailed /\ ~cancelled
    BY <2>1 DEF Undisturbed, SmoothInv
  <2>3. Undisturbed' => NothingFailed' /\ pc' # "idle"
    BY <1>0, <1>4, <2>2, MainSmooth
  <2> QED
    BY <1>0, <2>1, <2>3 DEF SmoothInv
<1>5. CASE Report
  <2>1. pc = "report" /\ pc' = "idle" /\ cancelled' = cancelled /\ aborted' = aborted
        /\ result' = [f \in Files |-> IF result[f] = "none" THEN "cancelled" ELSE result[f]]
        /\ lastOk' = (~aborted /\ \A f \in Files :
             (IF result[f] = "none" THEN "cancelled" ELSE result[f]) # "failed")
    BY <1>5 DEF Report, configVars
  <2>2. faults' \in {faults, faults + 1}
        /\ (faults' = 0 /\ run' = "running" => faults = 0 /\ run = "running")
    BY <1>0, <1>5 DEF Report, Fault, EndRun
  <2>3. ASSUME Undisturbed' PROVE AllWell'
    <3>1. NothingFailed
      BY <2>1, <2>2, <2>3 DEF Undisturbed, SmoothInv
    <3>2. \A f \in Files : result[f] \in {"ok", "skipped"}
      BY <1>0, <2>1, <3>1 DEF NothingFailed, SettleInv, TakenSettle
    <3> QED
      BY <2>1, <3>1, <3>2 DEF NothingFailed, AllWell
  <2> QED
    BY <1>0, <2>1, <2>2, <2>3 DEF SmoothInv
<1>6. ASSUME NEW f \in Files, PrepareStep(f)
      PROVE  SmoothInv'
  <2>1. /\ UNCHANGED <<pc, aborted, failed, result, post, cancelled>> /\ pc # "idle"
    BY <1>6 DEF PrepareStep, mainVars, pipeVars, configVars
  <2>2. faults' = faults /\ run' = run
    BY <1>6 DEF PrepareStep, StartPrepare, ClaimNext, ClaimsDone, RecordUpload, AwaitOthers,
       WaitOver, BuildChunks, UploadOk, serverVars
  <2>3. \A e \in Files \ {f} : work'[e] = work[e]
    BY <1>0, <1>6, PrepareStates
  <2>4. Undisturbed' => Undisturbed /\ NothingFailed
    BY <2>1, <2>2 DEF Undisturbed, SmoothInv
  <2>5. Undisturbed' => work'[f].st # "failed" /\ work'[f].bad = {}
    BY <1>0, <1>6, <2>4, PrepareSmooth DEF NothingFailed
  <2>6. Undisturbed' => NothingFailed'
    BY <2>1, <2>3, <2>4, <2>5 DEF NothingFailed
  <2> QED
    BY <1>0, <2>1, <2>2, <2>6 DEF SmoothInv
<1>7. ASSUME NEW f \in Files, PrepareFault(f)
      PROVE  SmoothInv'
  <2>1. cancelled' = cancelled /\ (faults' = faults + 1 \/ (faults' = faults /\ cancelled))
    BY <1>7 DEF PrepareFault, configVars, PrepareFails, UploadFails, Fault
  <2> QED
    BY <1>0, <2>1 DEF SmoothInv, Undisturbed
<1>8. CASE PostStep \/ PostFault
  <2>1. /\ UNCHANGED <<pc, aborted, failed, result, work, cancelled>>
    BY <1>8 DEF PostStep, PostFault, mainVars, pipeVars, configVars
  <2>2. post.st = "sending" /\ run' = run /\ post \in Posts
    BY <1>0, <1>8 DEF PostStep, PostFault, PostStored, PostAnswered, PostFails, serverVars, Typed
  <2>3. pc # "idle"
    BY <1>0, <2>2 DEF RowsInv, PostFits
  <2>4. \/ faults' = faults /\ (post'.st # "err" \/ run # "running")
        \/ faults' = faults + 1
    BY <1>8, <2>2 DEF PostStep, PostFault, PostStored, PostAnswered, PostFails, Fault, Posts
  <2>5. Undisturbed' => Undisturbed /\ post'.st # "err"
    BY <1>0, <2>1, <2>2, <2>4 DEF Undisturbed
  <2>6. Undisturbed' => NothingFailed'
    BY <2>1, <2>3, <2>5 DEF NothingFailed, SmoothInv
  <2> QED
    BY <1>0, <2>1, <2>3, <2>4, <2>6 DEF SmoothInv
<1>9. CASE Cancel \/ RunEnds
  <2>1. faults' = faults /\ (cancelled' \/ run' = "ended")
    BY <1>9 DEF Cancel, RunEnds, EndRun
  <2> QED
    BY <1>0, <2>1 DEF SmoothInv, Undisturbed
<1>10. CASE Crash
  <2>1. faults' = faults /\ pc' = "idle" /\ result' = [f \in Files |-> "none"]
    BY <1>10 DEF Crash
  <2> QED
    BY <1>0, <1>2, <2>1 DEF SmoothInv
<1>11. CASE UNCHANGED vars
  BY <1>11 DEF vars, mainVars, pipeVars, configVars, serverVars, countVars, SmoothInv,
     Undisturbed, NothingFailed, AllWell
<1> QED
  BY <1>3, <1>4, <1>5, <1>6, <1>7, <1>8, <1>9, <1>10, <1>11 DEF Next

(* A push that no fault and no cancel disturbs, into a run that goes on,   *)
(* reports ok with every file ok or skipped, whatever earlier pushes left  *)
(* in the journal (build_report); for any folder with a file in it.        *)
THEOREM UndisturbedSucceeds ==
  ASSUME NFiles # 0
  PROVE  Spec => []UndisturbedPushSucceeds
<1>1. Init => ClaimInv /\ DoneInv /\ OkInv /\ SmoothInv
  <2> SUFFICES ASSUME Init PROVE SmoothInv
    BY InitDone, InitRows
  <2>1. \E f \in Files : TRUE
    BY FolderAssumption DEF Files, FolderAssumption
  <2> QED
    BY <2>1 DEF Init, SmoothInv
<1>2. ClaimInv /\ DoneInv /\ OkInv /\ SmoothInv /\ [Next]_vars
        => (ClaimInv /\ DoneInv /\ OkInv /\ SmoothInv)'
  BY NextClaims, NextDone, NextRows, NextSmooth
<1>3. SmoothInv => UndisturbedPushSucceeds
  BY DEF SmoothInv, Undisturbed, AllWell, UndisturbedPushSucceeds
<1> QED
  BY <1>1, <1>2, <1>3, PTL DEF Spec

--------------------------------------------------------------------------------
(* What is sent anew.                                                      *)

(* The files the main thread took up, the one in its hands among them.     *)
InQueueing == pc \in {"queue", "full"}
Begun == {f \in Files : f <= taken \/ (InQueueing /\ f = taken + 1)}
Apart(q) == \A i, j \in DOMAIN q : i # j => q[i] \cap q[j] = {}

(* What is on its way is neither in the journal nor elsewhere on its way.  *)
Unlisted ==
  /\ FilesOf(pending \cup post.msgs) \subseteq Begun
  /\ pending \cap (post.msgs \cup mem.messages) = {}
  /\ InQueueing =>
       /\ Apart(toQueue)
       /\ \A i \in DOMAIN toQueue :
            /\ FilesOf(toQueue[i]) \subseteq {taken + 1}
            /\ toQueue[i] \cap (pending \cup post.msgs \cup mem.messages) = {}
  /\ \A f \in Files \ Begun : work[f].st = "prepared" =>
       Apart(work[f].chunks) /\ Tracked(f) \cap mem.messages = {}

UnlistedInv == pc # "idle" /\ ~aborted /\ ~force => Unlisted

(* No message is in two chunks of a file.                                  *)
LEMMA ChunksApart ==
  ASSUME NEW U \in SUBSET Guids
  PROVE  Apart(Chunks(U))
<1> DEFINE n == (Cardinality(U) + BatchSize - 1) \div BatchSize
           rank(g) == Cardinality({h \in U : h < g})
<1>1. Chunks(U) = [i \in 1..n |-> {g \in U : rank(g) \div BatchSize = i - 1}]
  BY DEF Chunks
<1> HIDE DEF n, rank
<1>2. \A i, j \in 1..n : \A g \in Chunks(U)[i] \cap Chunks(U)[j] : i - 1 = j - 1
  BY <1>1
<1>3. \A i, j \in 1..n : i - 1 = j - 1 => i = j
  OBVIOUS
<1>4. DOMAIN Chunks(U) = 1..n
  BY <1>1
<1> QED
  BY <1>2, <1>3, <1>4 DEF Apart

(* A step that takes up no file and queues nothing: at most what the       *)
(* request carried is listed, and at most what was pending is sent.        *)
LEMMA UnlistedStands ==
  ASSUME Typed, Unlisted, OwnMessages,
         mem'.messages \subseteq mem.messages \cup post.msgs,
         \/ pending' = pending /\ post'.msgs \subseteq post.msgs
         \/ pending' = {} /\ post'.msgs \subseteq pending,
         taken' = taken, InQueueing' <=> InQueueing,
         InQueueing' => toQueue' = toQueue \/ toQueue' = <<>>,
         \A f \in Files : work'[f].st = "prepared" => work'[f] = work[f]
  PROVE  Unlisted'
<1>1. Begun' = Begun
  BY DEF Begun
<1>2. FilesOf(pending' \cup post'.msgs) \subseteq Begun
      /\ \A g \in pending \cup post.msgs : FileOf[g] \in Begun
  BY DEF Unlisted, FilesOf
<1>3. pending' \cap (post'.msgs \cup mem'.messages) = {}
  BY DEF Unlisted
<1>4. ASSUME InQueueing'
      PROVE  /\ Apart(toQueue')
             /\ \A i \in DOMAIN toQueue' :
                  /\ FilesOf(toQueue'[i]) \subseteq {taken + 1}
                  /\ toQueue'[i] \cap (pending' \cup post'.msgs \cup mem'.messages) = {}
  <2>1. CASE toQueue' = toQueue
    BY <1>4, <2>1 DEF Unlisted
  <2>2. CASE toQueue' = <<>>
    BY <2>2 DEF Apart
  <2> QED
    BY <1>4, <2>1, <2>2
<1>5. ASSUME NEW f \in Files \ Begun, work'[f].st = "prepared"
      PROVE  Apart(work'[f].chunks) /\ Tracked(f)' \cap mem'.messages = {}
  <2>1. work'[f] = work[f] /\ work[f].st = "prepared" /\ Tracked(f)' = Tracked(f)
    BY <1>5 DEF Tracked
  <2>2. Tracked(f) \subseteq MessagesOf(f) /\ Tracked(f) \cap mem.messages = {}
        /\ Apart(work[f].chunks)
    BY <2>1 DEF Unlisted, OwnMessages
  <2>3. \A g \in Tracked(f) : g \notin post.msgs
    BY <1>2, <1>5, <2>2 DEF MessagesOf
  <2> QED
    BY <2>1, <2>2, <2>3
<1>6. FilesOf(pending \cup post.msgs)' = FilesOf(pending' \cup post'.msgs)
  BY DEF FilesOf
<1>7. Apart(toQueue)' = Apart(toQueue')
      /\ \A f : Apart(work[f].chunks)' = Apart(work'[f].chunks)
      /\ \A i : FilesOf(toQueue[i])' = FilesOf(toQueue'[i])
  BY DEF Apart, FilesOf
<1> QED
  BY <1>1, <1>2, <1>3, <1>4, <1>5, <1>6, <1>7 DEF Unlisted

(* A flush, wherever the main thread goes on after it.                     *)
LEMMA FlushUnlisted ==
  ASSUME DoneInv, RowsInv, Unlisted, Flush, GoesOn, taken' = taken, work' = work,
         InQueueing' <=> InQueueing,
         InQueueing' => toQueue' = toQueue \/ toQueue' = <<>>
  PROVE  Unlisted'
<1>1. mem'.messages \subseteq mem.messages \cup post.msgs
  BY FlushWrites DEF JournalMoves, Accepted
<1>2. pending' = {} /\ post'.msgs = pending
  BY FlushRows DEF DoneInv
<1> QED
  BY <1>1, <1>2, UnlistedStands DEF DoneInv, RowsInv

(* Taking up a prepared file: its chunks hold its own unlisted messages.   *)
LEMMA ConsumeUnlisted ==
  ASSUME DoneInv, RowsInv, Unlisted, Consume
  PROVE  Unlisted'
<1>0. Typed /\ OwnMessages
  BY DEF DoneInv, RowsInv
<1>1. UNCHANGED <<mem, work, post, pending>> /\ pc = "consume" /\ ~InQueueing
  BY DEF Consume, InQueueing
<1>2. CASE pc' = "loop" /\ taken' = taken
  BY <1>0, <1>1, <1>2, UnlistedStands DEF InQueueing
<1>3. CASE taken' = taken + 1 /\ pc' = "consume" /\ taken + 1 \in Files
  <2>1. Begun \subseteq Begun' /\ ~InQueueing'
    BY <1>0, <1>1, <1>3 DEF Begun, InQueueing, Typed, Files
  <2> QED
    BY <1>1, <2>1 DEF Unlisted, FilesOf, Tracked, Apart
<1>4. CASE /\ pc' = "queue" /\ taken' = taken /\ taken + 1 \in Files
           /\ work[taken + 1].st = "prepared" /\ toQueue' = work[taken + 1].chunks
  <2>1. PICK e \in Files : e = taken + 1
    BY <1>4
  <2>2. Begun' = Begun \cup {e} /\ e \notin Begun /\ InQueueing'
    BY <1>0, <1>1, <1>4, <2>1 DEF Begun, InQueueing, Typed, Files
  <2>3. Apart(work[e].chunks) /\ Tracked(e) \cap mem.messages = {}
        /\ Tracked(e) \subseteq MessagesOf(e)
    BY <1>0, <1>4, <2>1, <2>2 DEF Unlisted, OwnMessages
  <2>4. \A i \in DOMAIN toQueue' : toQueue'[i] \subseteq Tracked(e)
    BY <1>4, <2>1 DEF Tracked
  <2>5. \A g \in pending \cup post.msgs : FileOf[g] # e
    BY <2>2 DEF Unlisted, FilesOf
  <2>6. \A i \in DOMAIN toQueue' :
          /\ FilesOf(toQueue'[i]) \subseteq {taken + 1}
          /\ toQueue'[i] \cap (pending \cup post.msgs \cup mem.messages) = {}
    BY <2>1, <2>3, <2>4, <2>5 DEF MessagesOf, FilesOf
  <2>7. Apart(toQueue') /\ Apart(toQueue)' = Apart(toQueue')
        /\ \A i : FilesOf(toQueue[i])' = FilesOf(toQueue'[i])
    BY <1>4, <2>1, <2>3 DEF Apart, FilesOf
  <2>8. FilesOf(pending \cup post.msgs)' \subseteq Begun'
    BY <1>1, <2>2 DEF Unlisted, FilesOf
  <2>9. \A f \in Files \ Begun' : work'[f].st = "prepared" =>
          Apart(work[f].chunks)' /\ Tracked(f)' \cap mem'.messages = {}
    BY <1>1, <2>2 DEF Unlisted, Apart, Tracked
  <2> QED
    BY <1>1, <1>4, <2>6, <2>7, <2>8, <2>9 DEF Unlisted
<1> QED
  BY <1>1, <1>2, <1>3, <1>4 DEF Consume, Ready

(* Queueing a chunk moves it from the file's chunks to the batch.          *)
LEMMA ChunkUnlisted ==
  ASSUME Typed, Unlisted, pc = "queue", toQueue # <<>>,
         pending' = pending \cup Head(toQueue), toQueue' = Tail(toQueue),
         UNCHANGED <<taken, post, mem, work>>, pc' \in {"queue", "full"}
  PROVE  Unlisted'
<1>1. /\ DOMAIN toQueue' = 1..(Len(toQueue) - 1) /\ DOMAIN toQueue = 1..Len(toQueue)
      /\ Head(toQueue) = toQueue[1] /\ Len(toQueue) \in Nat \ {0}
      /\ \A i \in DOMAIN toQueue' : toQueue'[i] = toQueue[i + 1]
  BY DEF Typed
<1>2. \A i \in DOMAIN toQueue' : i + 1 \in DOMAIN toQueue /\ i + 1 # 1
  BY <1>1
<1>3. Begun' = Begun /\ InQueueing /\ InQueueing'
  BY DEF Begun, InQueueing
<1>4. taken + 1 \in Begun \/ taken + 1 \notin Files
  BY <1>3 DEF Begun
<1>5. 1 \in DOMAIN toQueue
  BY <1>1
<1>6. Apart(toQueue')
  <2>1. \A i, j \in DOMAIN toQueue' : i # j => i + 1 # j + 1
    BY <1>1
  <2> QED
    BY <1>1, <1>2, <1>3, <2>1 DEF Unlisted, Apart
<1>7. \A i \in DOMAIN toQueue' :
        /\ FilesOf(toQueue'[i]) \subseteq {taken + 1}
        /\ toQueue'[i] \cap (pending' \cup post.msgs \cup mem.messages) = {}
  BY <1>1, <1>2, <1>3, <1>5 DEF Unlisted, Apart
<1>8. pending' \cap (post.msgs \cup mem.messages) = {}
  BY <1>1, <1>3, <1>5 DEF Unlisted
<1>9. FilesOf(pending' \cup post.msgs) \subseteq Begun
  <2>1. \A g \in Head(toQueue) : FileOf[g] = taken + 1 /\ FileOf[g] \in Files
    BY <1>1, <1>3, <1>5, FolderAssumption DEF Unlisted, FilesOf, Typed, FolderAssumption
  <2> QED
    BY <1>4, <2>1 DEF Unlisted, FilesOf
<1>10. Apart(toQueue)' = Apart(toQueue')
       /\ \A i : FilesOf(toQueue[i])' = FilesOf(toQueue'[i])
       /\ FilesOf(pending \cup post.msgs)' = FilesOf(pending' \cup post.msgs)
  BY DEF Apart, FilesOf
<1>11. \A f \in Files \ Begun' : work'[f].st = "prepared" =>
         Apart(work[f].chunks)' /\ Tracked(f)' \cap mem'.messages = {}
  BY <1>3 DEF Unlisted, Apart, Tracked
<1> QED
  BY <1>3, <1>6, <1>7, <1>8, <1>9, <1>10, <1>11 DEF Unlisted

(* Every step of the main thread that does not abort.                      *)
LEMMA MainUnlisted ==
  ASSUME DoneInv, WorkTyped', RowsInv, Unlisted, Main, ~aborted, ~aborted'
  PROVE  Unlisted'
<1>0. Typed /\ OwnMessages
  BY DEF DoneInv, RowsInv
<1>1. mem'.messages \subseteq mem.messages \cup post.msgs
  BY MainDone DEF JournalMoves, Accepted
<1>2. CASE /\ UNCHANGED <<taken, pending, work>> /\ post'.msgs \subseteq post.msgs
           /\ ~InQueueing /\ ~InQueueing'
  BY <1>0, <1>1, <1>2, UnlistedStands
<1>3. CASE Flush /\ GoesOn /\ UNCHANGED <<taken, work>> /\ (InQueueing' <=> InQueueing)
           /\ (InQueueing' => toQueue' = toQueue \/ toQueue' = <<>>)
  BY <1>3, FlushUnlisted
<1>4. CASE LoopTop
  <2>1. (UNCHANGED <<taken, work>> /\ ~InQueueing /\ ~InQueueing' /\ ~cancelled) \/ NoPipe
    BY <1>4 DEF LoopTop, InQueueing, queueVars
  <2>2. UNCHANGED <<taken, work>> /\ ~InQueueing /\ ~InQueueing'
    BY <1>4 DEF LoopTop, InQueueing, queueVars, Abort
  <2> QED
    BY <1>2, <1>3, <1>4, <2>1, <2>2 DEF LoopTop, NoPipe, pipeVars, GoesOn
<1>5. CASE Submit
  <2>1. UNCHANGED <<taken, pending, post>> /\ ~InQueueing /\ ~InQueueing'
    BY <1>5 DEF Submit, InQueueing
  <2>2. \A f \in Files : work'[f].st = "prepared" => work'[f] = work[f]
    BY <1>0, <1>5 DEF Submit, Typed, WorkTyped, Worker
  <2> QED
    BY <1>0, <1>1, <2>1, <2>2, UnlistedStands
<1>6. CASE WaitOne \/ Shutdown
  BY <1>2, <1>6 DEF WaitOne, Shutdown, InQueueing, NoPipe, pipeVars, queueVars
<1>7. CASE FlushOtherSource
  BY <1>3, <1>7 DEF FlushOtherSource, InQueueing, queueVars, Abort
<1>8. CASE Consume
  BY <1>8, ConsumeUnlisted
<1>9. CASE QueueChunk \/ FlushFull
  <2>1. CASE Flush /\ AfterFlush(taken + 1, toQueue)
    <3>1. GoesOn /\ pc' = "queue" /\ (toQueue' = toQueue \/ toQueue' = <<>>)
      BY <2>1 DEF AfterFlush, Abort
    <3>2. pc \in {"queue", "full"} /\ UNCHANGED <<taken, work>>
      BY <1>9 DEF QueueChunk, FlushFull, queueVars
    <3> QED
      BY <1>3, <2>1, <3>1, <3>2 DEF InQueueing
  <2>2. CASE ~(Flush /\ AfterFlush(taken + 1, toQueue))
    <3>1. /\ pc = "queue" /\ toQueue # <<>> /\ pending' = pending \cup Head(toQueue)
          /\ toQueue' = Tail(toQueue) /\ UNCHANGED <<taken, post, mem, work>>
          /\ pc' \in {"queue", "full"}
      BY <1>9, <2>2 DEF QueueChunk, FlushFull, queueVars
    <3> QED
      BY <1>0, <3>1, ChunkUnlisted
  <2> QED
    BY <2>1, <2>2
<1>10. CASE FinishQueueing
  <2>1. /\ pc = "queue" /\ pc' = "consume" /\ taken' = taken + 1
        /\ UNCHANGED <<pending, post, work>>
    BY <1>10 DEF FinishQueueing
  <2>2. Begun' = Begun
    BY <1>0, <2>1 DEF Begun, InQueueing, Typed, Files
  <2>3. \A g \in post.msgs : FileOf[g] \in Begun
    BY DEF Unlisted, FilesOf
  <2>4. FilesOf(pending \cup post.msgs)' \subseteq Begun'
        /\ pending' \cap (post'.msgs \cup mem'.messages) = {}
    BY <1>1, <2>1, <2>2 DEF Unlisted, FilesOf
  <2>5. ASSUME NEW f \in Files \ Begun, work'[f].st = "prepared"
        PROVE  Apart(work[f].chunks)' /\ Tracked(f)' \cap mem'.messages = {}
    <3>1. /\ Apart(work[f].chunks) /\ Tracked(f) \cap mem.messages = {}
          /\ Tracked(f) \subseteq MessagesOf(f)
      BY <1>0, <2>1, <2>5 DEF Unlisted, OwnMessages
    <3>2. Tracked(f) \cap post.msgs = {}
      BY <2>3, <2>5, <3>1 DEF MessagesOf
    <3>3. Tracked(f)' = Tracked(f) /\ Apart(work[f].chunks)'
      BY <2>1, <3>1 DEF Tracked, Apart
    <3> QED
      BY <1>1, <3>1, <3>2, <3>3
  <2> QED
    BY <2>1, <2>2, <2>4, <2>5 DEF Unlisted, InQueueing
<1>11. CASE SettlePush
  BY <1>3, <1>11 DEF SettlePush, InQueueing, GoesOn, queueVars
<1>12. CASE JoinLast
  <2>1. NoPost.msgs = {}
    BY DEF NoPost
  <2> QED
    BY <1>2, <1>12, <2>1 DEF JoinLast, InQueueing, queueVars
<1> QED
  BY <1>4, <1>5, <1>6, <1>7, <1>8, <1>9, <1>10, <1>11, <1>12 DEF Main, MainStep

(* Every step keeps what is on its way apart from the journal.             *)
LEMMA NextUnlisted ==
  ASSUME DoneInv, ClaimInv', OkInv, UnlistedInv, [Next]_vars
  PROVE  UnlistedInv'
<1>0. Typed /\ RowsInv /\ OwnMessages /\ WorkTyped'
  BY DEF DoneInv, OkInv, RowsInv, ClaimInv
<1>1. ASSUME NEW m \in Modes, NEW fo \in Forces, StartPush(m, fo)
      PROVE  UnlistedInv'
  <2>1. Idle.st = "none" /\ NoPost.msgs = {}
    BY DEF Idle, NoPost
  <2>2. /\ post' = NoPost /\ pending' = {} /\ pc' = "loop"
        /\ work' = [f \in Files |-> Idle]
    BY <1>1 DEF StartPush
  <2> QED
    BY <2>1, <2>2 DEF UnlistedInv, Unlisted, InQueueing, FilesOf
<1>2. CASE Main
  <2>1. force' = force /\ pc # "idle"
    BY <1>2 DEF Main, configVars, MainStep, LoopTop, Submit, WaitOne, FlushOtherSource, Consume,
       QueueChunk, FlushFull, FinishQueueing, Shutdown, SettlePush, JoinLast
  <2>2. ~aborted' => ~aborted
    BY <1>0, <1>2 DEF RowsInv, AbortedEnds, Main, MainStep, LoopTop, Submit, WaitOne,
       FlushOtherSource, Consume, QueueChunk, FlushFull, FinishQueueing, Shutdown, SettlePush,
       JoinLast, Abort, AfterFlush
  <2> QED
    BY <1>0, <1>2, <2>1, <2>2, MainUnlisted DEF UnlistedInv
<1>3. CASE Report \/ Crash
  BY <1>3 DEF Report, Crash, UnlistedInv
<1>4. ASSUME NEW f \in Files, PrepareStep(f) \/ PrepareFault(f)
      PROVE  UnlistedInv'
  <2>1. UNCHANGED <<pc, aborted, taken, pending, toQueue, post, force>>
    BY <1>4 DEF PrepareStep, PrepareFault, queueVars, mainVars, pipeVars, configVars
  <2>2. mem'.messages = mem.messages
    BY <1>0, <1>4, PrepareJournal
  <2>3. ASSUME Unlisted, ~force, NEW e \in Files \ Begun, work'[e].st = "prepared"
        PROVE  Apart(work[e].chunks)' /\ Tracked(e)' \cap mem'.messages = {}
    <3>1. CASE work'[e] = work[e]
      <4>1. Tracked(e)' = Tracked(e) /\ Apart(work[e].chunks)' = Apart(work[e].chunks)
        BY <3>1 DEF Tracked, Apart
      <4> QED
        BY <2>2, <2>3, <3>1, <4>1 DEF Unlisted
    <3>2. CASE work'[e] # work[e]
      <4>1. /\ work'[e].chunks = Chunks(Unsent(e)) /\ Tracked(e)' = Unsent(e)
            /\ Unsent(e) \in SUBSET Guids
        BY <1>0, <1>4, <2>3, <3>2, PrepareTracks
      <4>2. Apart(work[e].chunks)' = Apart(work'[e].chunks)
        BY DEF Apart
      <4>3. Unsent(e) \cap mem.messages = {}
        BY <2>3 DEF Unsent
      <4> QED
        BY <2>2, <4>1, <4>2, <4>3, ChunksApart
    <3> QED
      BY <3>1, <3>2
  <2>4. Begun' = Begun /\ InQueueing' = InQueueing /\ Apart(toQueue)' = Apart(toQueue)
        /\ \A i : FilesOf(toQueue[i])' = FilesOf(toQueue[i])
        /\ FilesOf(pending \cup post.msgs)' = FilesOf(pending \cup post.msgs)
    BY <2>1 DEF Begun, InQueueing, Apart, FilesOf
  <2>5. Unlisted /\ ~force => Unlisted'
    BY <2>1, <2>2, <2>3, <2>4 DEF Unlisted
  <2> QED
    BY <2>1, <2>5 DEF UnlistedInv
<1>5. CASE PostStep \/ PostFault \/ Cancel \/ RunEnds \/ UNCHANGED vars
  <2>1. UNCHANGED <<pc, aborted, taken, pending, toQueue, force, work, mem>>
    BY <1>5 DEF PostStep, PostFault, Cancel, RunEnds, vars, journalVars, queueVars, mainVars,
       pipeVars, configVars
  <2>2. post'.msgs = post.msgs
    <3>1. PostStored \/ PostAnswered \/ PostFails => post'.msgs = post.msgs
      BY <1>0, PostWrites
    <3> QED
      BY <1>5, <3>1 DEF PostStep, PostFault, Cancel, RunEnds, vars
  <2>3. Unlisted => Unlisted'
    BY <1>0, <2>1, <2>2, UnlistedStands DEF InQueueing
  <2> QED
    BY <2>1, <2>3 DEF UnlistedInv
<1> QED
  BY <1>1, <1>2, <1>3, <1>4, <1>5 DEF Next

(* Outside force mode a request that is made never carries a message the   *)
(* journal lists (send_batch, prepare's filter): what is in a chunk, in    *)
(* the batch or in the request is unlisted and in one place only, so that  *)
(* what one answer lists is nowhere left to be sent.                       *)
THEOREM ListedNotSentAgain == Spec => SendsOnlyUnlisted
<1> DEFINE Send == post.st # "sending" /\ post'.st = "sending" /\ ~force
                     => post'.msgs \cap mem.messages = {}
<1>1. Init => ClaimInv /\ DoneInv /\ OkInv /\ UnlistedInv
  BY InitDone, InitRows DEF Init, UnlistedInv
<1>2. ClaimInv /\ DoneInv /\ OkInv /\ UnlistedInv /\ [Next]_vars
        => (ClaimInv /\ DoneInv /\ OkInv /\ UnlistedInv)'
  BY NextClaims, NextDone, NextRows, NextUnlisted
<1>3. DoneInv /\ OkInv /\ UnlistedInv /\ [Next]_vars => [Send]_vars
  <2> SUFFICES ASSUME DoneInv, OkInv, UnlistedInv, [Next]_vars,
                      post.st # "sending", post'.st = "sending", ~force
               PROVE  post'.msgs \cap mem.messages = {}
    BY DEF Send
  <2>1. NoPost.st = "none"
        /\ [NoPost EXCEPT !.st = "sending", !.msgs = pending].msgs = pending
    BY DEF NoPost
  <2>2. post'.msgs = pending /\ ~aborted /\ pc # "idle"
    <3>1. Main
      BY <2>1 DEF Next, StartPush, Report, PrepareStep, PrepareFault, PostStep, PostFault,
         PostStored, PostAnswered, PostFails, Cancel, RunEnds, Crash, vars
    <3>2. Flush
      BY <2>1, <3>1 DEF Main, MainStep, LoopTop, Submit, WaitOne, FlushOtherSource, Consume,
         QueueChunk, FlushFull, FinishQueueing, Shutdown, SettlePush, JoinLast, NoPipe
    <3>3. post'.msgs = pending
      BY <2>1, <3>2 DEF Flush
    <3>4. ~aborted /\ pc # "idle"
      BY <2>1, <3>1 DEF OkInv, RowsInv, AbortedEnds, Main, MainStep, LoopTop, Submit, WaitOne,
         FlushOtherSource, Consume, QueueChunk, FlushFull, FinishQueueing, Shutdown,
         SettlePush, JoinLast, NoPipe
    <3> QED
      BY <3>3, <3>4
  <2> QED
    BY <2>2 DEF UnlistedInv, Unlisted
<1> QED
  BY <1>1, <1>2, <1>3, PTL DEF Spec, SendsOnlyUnlisted

--------------------------------------------------------------------------------
(* A first push.                                                           *)

(* In a first push, while no request fails and its run goes on, what is    *)
(* stored is in the journal or in the request under way.                   *)
FirstJournalled ==
  /\ pushes \in Nat /\ faults \in Nat
  /\ pushes = 0 => stored = {} /\ pc = "idle" /\ post.st = "none"
  /\ pc # "idle" /\ pushes = 1 /\ faults = 0 /\ run = "running" =>
       stored \subseteq disk.messages \cup post.msgs /\ post.st # "err"

(* The main thread lets go of a request only once its messages are listed. *)
LEMMA MainFirst ==
  ASSUME DoneInv, WorkTyped', RowsInv, Main,
         stored \subseteq disk.messages \cup post.msgs, post.st # "err"
  PROVE  stored \subseteq disk'.messages \cup post'.msgs /\ post'.st # "err"
<1>1. NoPost.st = "none"
      /\ [NoPost EXCEPT !.st = "sending", !.msgs = pending].st = "sending"
  BY DEF NoPost
<1>2. CASE Join
  <2>1. disk'.messages = disk.messages \cup Accepted
    BY <1>2, JoinWrites
  <2>2. post.msgs \subseteq Accepted
    BY <1>2 DEF Join, Joinable, Accepted, RowsInv, PostFits, DoneInv, Typed, Posts
  <2>3. post' = post \/ post' = NoPost \/ Flush
    BY DEF Main, MainStep, LoopTop, Submit, WaitOne, FlushOtherSource, Consume, QueueChunk,
           FlushFull, FinishQueueing, Shutdown, SettlePush, JoinLast, NoPipe
  <2>4. post'.st # "err"
    BY <1>1, <2>3 DEF Flush
  <2> QED
    BY <2>1, <2>2, <2>4
<1>3. CASE ~Join
  <2>1. post' = post
    BY <1>3 DEF Main, MainStep, LoopTop, Submit, WaitOne, FlushOtherSource, Consume,
       QueueChunk, FlushFull, FinishQueueing, Shutdown, SettlePush, JoinLast, NoPipe, Flush
  <2>2. disk.messages \subseteq disk'.messages
    BY MainDone DEF JournalMoves
  <2> QED
    BY <2>1, <2>2
<1> QED
  BY <1>2, <1>3

(* Every step keeps what a first push stored accounted for.                *)
LEMMA NextFirst ==
  ASSUME DoneInv, ClaimInv', OkInv, FirstJournalled, [Next]_vars
  PROVE  FirstJournalled'
<1>0. Typed /\ RowsInv /\ WorkTyped'
  BY DEF DoneInv, OkInv, ClaimInv
<1>1. NoPost.st = "none" /\ NoPost.msgs = {}
  BY DEF NoPost
<1>2. ASSUME NEW m \in Modes, NEW fo \in Forces, StartPush(m, fo)
      PROVE  FirstJournalled'
  <2>1. pushes' = pushes + 1 /\ faults' = 0 /\ post' = NoPost /\ stored' = stored
    BY <1>2 DEF StartPush
  <2> QED
    BY <1>1, <2>1 DEF FirstJournalled
<1>3. CASE Main
  <2>1. UNCHANGED <<pushes, faults, run, stored>> /\ pc # "idle"
    BY <1>3 DEF Main, serverVars, countVars, MainStep, LoopTop, Submit, WaitOne,
       FlushOtherSource, Consume, QueueChunk, FlushFull, FinishQueueing, Shutdown, SettlePush,
       JoinLast
  <2> QED
    BY <1>0, <1>3, <2>1, MainFirst DEF FirstJournalled
<1>4. CASE Report
  <2>1. pushes' = pushes /\ pc = "report" /\ pc' = "idle" /\ faults' \in {faults, faults + 1}
    BY <1>4 DEF Report, Fault
  <2> QED
    BY <2>1 DEF FirstJournalled
<1>5. ASSUME NEW f \in Files, PrepareStep(f) \/ PrepareFault(f)
      PROVE  FirstJournalled'
  <2>1. UNCHANGED <<pushes, pc, post>>
    BY <1>5 DEF PrepareStep, PrepareFault, mainVars, countVars
  <2>2. UNCHANGED <<stored, run>> /\ faults' \in {faults, faults + 1}
    BY <1>5
       DEF PrepareStep, PrepareFault, StartPrepare, ClaimNext, ClaimsDone, RecordUpload,
           AwaitOthers, WaitOver, BuildChunks, PrepareFails, UploadOk, UploadFails, Fault,
           serverVars
  <2>3. disk'.messages = disk.messages
    BY <1>0, <1>5, PrepareJournal
  <2> QED
    BY <2>1, <2>2, <2>3 DEF FirstJournalled
<1>6. CASE PostStep \/ PostFault
  <2>1. UNCHANGED <<pushes, pc, disk>>
    BY <1>6 DEF PostStep, PostFault, journalVars, mainVars, countVars
  <2>2. post.st = "sending" /\ post \in Posts /\ run' = run
    BY <1>0, <1>6 DEF PostStep, PostFault, PostStored, PostAnswered, PostFails, serverVars, Typed
  <2>3. post'.msgs = post.msgs /\ stored' \subseteq stored \cup post.msgs
    BY <1>6, <2>2
       DEF PostStep, PostFault, PostStored, PostAnswered, PostFails, StoreBatch, serverVars, Posts
  <2>4. \/ faults' = faults /\ (post'.st # "err" \/ run # "running")
        \/ faults' = faults + 1
    BY <1>6, <2>2 DEF PostStep, PostFault, PostStored, PostAnswered, PostFails, Fault, Posts
  <2>5. pushes # 0 /\ faults' \in Nat
    BY <2>2, <2>4 DEF FirstJournalled
  <2> QED
    BY <2>1, <2>2, <2>3, <2>4, <2>5 DEF FirstJournalled
<1>7. CASE Cancel \/ UNCHANGED vars
  BY <1>7 DEF Cancel, vars, journalVars, mainVars, serverVars, countVars, FirstJournalled
<1>8. CASE RunEnds
  BY <1>8 DEF RunEnds, EndRun, journalVars, mainVars, countVars, FirstJournalled
<1>9. CASE Crash
  <2>1. UNCHANGED <<pushes, faults>> /\ pc # "idle" /\ pc' = "idle"
    BY <1>9 DEF Crash
  <2> QED
    BY <2>1 DEF FirstJournalled
<1> QED
  BY <1>2, <1>3, <1>4, <1>5, <1>6, <1>7, <1>8, <1>9 DEF Next

(* When a first push of which no request failed reports a conversation as  *)
(* cancelled (settle, build_report), the journal on disk already has the   *)
(* messages of it that reached the server: the abort still waited for the  *)
(* request in flight.                                                      *)
THEOREM CancelledAreListed == Spec => CancelledIsJournalled
<1> DEFINE Listed ==
      pc = "report" /\ run = "running" /\ pushes = 1 /\ faults = 0
        => \A f \in Files : result'[f] = "cancelled"
                               => stored \cap MessagesOf(f) \subseteq disk.messages
<1>1. Init => ClaimInv /\ DoneInv /\ OkInv /\ FirstJournalled
  <2> SUFFICES ASSUME Init PROVE FirstJournalled
    BY InitDone, InitRows
  <2>1. NoPost.st = "none"
    BY DEF NoPost
  <2> QED
    BY <2>1 DEF Init, FirstJournalled
<1>2. ClaimInv /\ DoneInv /\ OkInv /\ FirstJournalled /\ [Next]_vars
        => (ClaimInv /\ DoneInv /\ OkInv /\ FirstJournalled)'
  BY NextClaims, NextDone, NextRows, NextFirst
<1>3. OkInv /\ FirstJournalled /\ [Next]_vars => [Listed]_vars
  <2> SUFFICES ASSUME OkInv, FirstJournalled, pc = "report", run = "running", pushes = 1,
                      faults = 0
               PROVE  stored \subseteq disk.messages
    BY DEF Listed
  <2> QED
    BY DEF OkInv, RowsInv, PostFits, FirstJournalled
<1> QED
  BY <1>1, <1>2, <1>3, PTL DEF Spec, CancelledIsJournalled

=============================================================================
