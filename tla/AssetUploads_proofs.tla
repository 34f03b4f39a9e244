-------------------------- MODULE AssetUploads_proofs --------------------------
(***************************************************************************)
(* What AssetUploads guarantees for any number of requests, uploads and    *)
(* parts, whatever is removed under a request, and however clients go away *)
(* and the server dies: no upload puts wrong bytes under a fingerprint,    *)
(* what clients are told of the file is so, and so is what they are told   *)
(* of their uploads: the parts they know stored are, an upload is called   *)
(* gone only once its removal has begun, and an aborted one stays gone.    *)
(***************************************************************************)
EXTENDS AssetUploads, TLAPS

(* A request that is about to install has seen that its bytes match.       *)
Installing == {"install", "replace"}

Verified ==
  /\ DOMAIN pc = Slots /\ DOMAIN req = Slots
  /\ \A r \in Slots : pc[r] \in Installing => req[r].right

(* A step of r that leaves the other requests alone and does not send r    *)
(* to install keeps Verified.                                              *)
Elsewhere(r) ==
  /\ DOMAIN pc' = Slots /\ DOMAIN req' = Slots
  /\ \A q \in Slots \ {r} : pc'[q] = pc[q] /\ req'[q] = req[q]
  /\ pc'[r] \notin Installing

(* At the start no request is about to install.                            *)
LEMMA VerifiedInit == Init => Verified
BY DEF Init, Verified, Installing

(* A request alone in its step keeps the invariant.                        *)
LEMMA ElsewhereKeeps ==
  ASSUME Verified, NEW r \in Slots, Elsewhere(r)
  PROVE  Verified'
BY DEF Verified, Elsewhere

(* An answer ends its request (complete_asset_upload and the others).      *)
LEMMA AnswerEnds ==
  ASSUME Verified, NEW r \in Slots, NEW a, Answer(r, a)
  PROVE  Elsewhere(r)
BY DEF Verified, Answer, Elsewhere, Installing

(* A removal's end answers, or sends a sweep to its next folder.           *)
LEMMA RemovedEnds ==
  ASSUME Verified, NEW r \in Slots, NEW a, Removed(r, a)
  PROVE  Elsewhere(r)
BY AnswerEnds DEF Verified, Removed, Elsewhere, Installing, Go

(* What is owed is answered, or kept until the folder is removed.          *)
LEMMA OweEnds ==
  ASSUME Verified, NEW r \in Slots, NEW a, Owe(r, a)
  PROVE  Elsewhere(r)
BY AnswerEnds DEF Verified, Owe, Elsewhere, Installing, Go

(* A request that arrives does not install yet.                            *)
LEMMA RequestStep ==
  ASSUME Verified, NEW r \in Slots, Request(r)
  PROVE  Verified'
<1>1. CASE BeginStart(r)
  BY <1>1, ElsewhereKeeps DEF BeginStart, Go, Verified, Elsewhere, Installing
<1>2. ASSUME NEW b \in Bodies, BeginPut(r, b) PROVE Verified'
  BY <1>2, ElsewhereKeeps DEF BeginPut, Go, Verified, Elsewhere, Installing
<1>3. ASSUME NEW u \in Started, NEW p \in Parts, NEW b \in Bodies, BeginPart(r, u, p, b)
      PROVE  Verified'
  BY <1>3, ElsewhereKeeps DEF BeginPart, Go, Verified, Elsewhere, Installing
<1>4. ASSUME NEW u \in Started, BeginComplete(r, u) PROVE Verified'
  BY <1>4, ElsewhereKeeps DEF BeginComplete, Go, Verified, Elsewhere, Installing
<1>5. ASSUME NEW u \in Started, BeginAbort(r, u) PROVE Verified'
  BY <1>5, ElsewhereKeeps DEF BeginAbort, Go, Verified, Elsewhere, Installing
<1>6. ASSUME NEW u \in Started, NEW k \in {"part", "abort"}, NameGone(r, k, u)
      PROVE  Verified'
  BY <1>6 DEF NameGone, Verified
<1>7. QED
  BY <1>1, <1>2, <1>3, <1>4, <1>5, <1>6 DEF Request

(* A lock that is taken or refused does not install (lock_session).        *)
LEMMA LockKeeps ==
  ASSUME Verified, NEW r \in Slots, NEW next, next \notin Installing, NEW a,
         LockSession(r, next, a)
  PROVE  Verified'
<1>1. CASE Answer(r, a) \/ Answer(r, "locked")
  BY <1>1, AnswerEnds, ElsewhereKeeps
<1>2. CASE Go(r, next) /\ UNCHANGED req
  BY <1>2, ElsewhereKeeps DEF Go, Verified, Elsewhere
<1>3. QED
  BY <1>1, <1>2 DEF LockSession

(* Only a look at the store sends a request to install, and it has seen    *)
(* that the source's bytes match the fingerprint (install_blob).           *)
LEMMA LookKeeps ==
  ASSUME Verified, NEW r \in Slots, Look(r)
  PROVE  Verified'
<1>1. ASSUME NEW a, Owe(r, a) PROVE Verified'
  BY <1>1, OweEnds, ElsewhereKeeps
<1>2. CASE Matches(r) /\ UNCHANGED req /\ pc' = [pc EXCEPT ![r] = pc'[r]]
  BY <1>2 DEF Verified, Matches
<1>3. QED
  BY <1>1, <1>2 DEF Look, Go, Verified

(* Every other step of a request answers it or leads it on, and what it    *)
(* installs it has installed.                                              *)
LEMMA StepKeeps ==
  ASSUME Verified, NEW r \in Slots, Step(r)
  PROVE  Verified'
<1> USE AnswerEnds, ElsewhereKeeps
<1>1. CASE LockPart(r) \/ LockComplete(r)
  BY <1>1, LockKeeps DEF LockPart, LockComplete, Installing
<1>2. CASE ReadManifest(r)
  BY <1>2 DEF ReadManifest, Go, Verified, Elsewhere, Installing
<1>3. CASE WritePart(r)
  BY <1>3 DEF WritePart, Go, Verified, Elsewhere, Installing
<1>4. CASE WriteDraft(r)
  BY <1>4 DEF WriteDraft, Go, Verified, Elsewhere, Installing
<1>5. CASE RenameDraft(r)
  BY <1>5 DEF RenameDraft
<1>6. CASE Judge(r)
  BY <1>6 DEF Judge
<1>7. CASE Look(r)
  BY <1>7, LookKeeps
<1>8. CASE Install(r)
  BY <1>8, OweEnds DEF Install
<1>9. CASE TakeKey(r)
  BY <1>9 DEF TakeKey, Go, Verified, Elsewhere, Installing
<1>10. CASE CheckParts(r)
  BY <1>10 DEF CheckParts, Go, Verified, Elsewhere, Installing
<1>11. CASE JoinParts(r)
  BY <1>11 DEF JoinParts, Go, Verified, Elsewhere, Installing
<1>12. CASE Sweep(r)
  BY <1>12 DEF Sweep, Go, Verified, Elsewhere, Installing
<1>13. CASE StartUpload(r)
  BY <1>13 DEF StartUpload, Verified, Elsewhere, Installing
<1>14. CASE ProbeLock(r)
  BY <1>14 DEF ProbeLock, Go, Verified, Elsewhere, Installing
<1>15. CASE BeginRemoval(r)
  BY <1>15 DEF BeginRemoval, Go, Verified, Elsewhere, Installing
<1>16. ASSUME NEW e \in Names, RemoveOne(r, e) PROVE Verified'
  BY <1>16 DEF RemoveOne, Verified, Elsewhere, Installing
<1>17. CASE RemoveDir(r)
  BY <1>17, RemovedEnds DEF RemoveDir
<1>18. QED
  BY <1>1, <1>2, <1>3, <1>4, <1>5, <1>6, <1>7, <1>8, <1>9, <1>10, <1>11, <1>12, <1>13,
     <1>14, <1>15, <1>16, <1>17
     DEF Step

(* The invariant is inductive.                                             *)
LEMMA VerifiedStep == Verified /\ [Next]_vars => Verified'
<1> SUFFICES ASSUME Verified, [Next]_vars PROVE Verified'
  OBVIOUS
<1>1. ASSUME NEW r \in Slots, DropWaiting(r) PROVE Verified'
  BY <1>1, ElsewhereKeeps DEF DropWaiting, Verified, Elsewhere, Installing
<1>2. ASSUME NEW r \in Slots, DropHandler(r) PROVE Verified'
  BY <1>2 DEF DropHandler, Verified
<1>3. ASSUME NEW u \in Ups, Age(u) PROVE Verified'
  BY <1>3 DEF Age, Verified
<1>4. CASE Harm
  BY <1>4 DEF Harm, Verified
<1>5. CASE Crash
  BY <1>5 DEF Crash, Verified, Installing
<1>6. CASE UNCHANGED vars
  BY <1>6 DEF vars, Verified
<1>7. QED
  BY <1>1, <1>2, <1>3, <1>4, <1>5, <1>6, RequestStep, StepKeeps DEF Next

(* Only an install, or harm from outside, changes the stored file, and an  *)
(* install puts the bytes there that were verified.                        *)
LEMMA OnlyVerified ==
  ASSUME Verified, [Next]_vars, asset' = "wrong"
  PROVE  asset = "wrong" \/ Harm
<1>1. ASSUME NEW r \in Slots, Install(r) PROVE asset = "wrong"
  BY <1>1 DEF Install, Verified, Installing, Bytes
<1>2. CASE Harm
  BY <1>2
<1>3. CASE UNCHANGED asset
  BY <1>3
<1>4. ASSUME NEW r \in Slots, Request(r) PROVE UNCHANGED asset
  BY <1>4 DEF Request, BeginStart, BeginPut, BeginPart, BeginComplete, BeginAbort, NameGone,
              Arrive
<1>5. ASSUME NEW r \in Slots, Step(r), ~Install(r) PROVE UNCHANGED asset
  BY <1>5 DEF Step, LockPart, ReadManifest, WritePart, WriteDraft, RenameDraft, Judge, Look,
              TakeKey, LockComplete, CheckParts, JoinParts, Sweep, StartUpload, ProbeLock,
              BeginRemoval, RemoveOne, RemoveDir, Quiet, SessionOnly
<1>6. QED
  BY <1>1, <1>2, <1>3, <1>4, <1>5
     DEF Next, DropWaiting, DropHandler, Age, Crash, Quiet, vars

(* An upload never puts wrong bytes under a fingerprint (install_blob).    *)
THEOREM NeverWrongBytes == Spec => OnlyRightBytes
<1>1. Verified /\ [Next]_vars => [asset' = "wrong" => asset = "wrong" \/ Harm]_vars
  BY OnlyVerified
<1>2. QED
  BY <1>1, VerifiedInit, VerifiedStep, PTL DEF Spec, OnlyRightBytes

--------------------------------------------------------------------------------
(* The types that the invariants below need.                               *)

AnyPart == Parts \cup {NoPart}
AnyName == Names \cup {NoPart}

Asked ==
  [kind : Kinds \cup {"none"}, up : Ups \cup {NoUp}, part : AnyPart,
   right : BOOLEAN, seen : SUBSET AnyPart, scan : SUBSET Ups, left : SUBSET AnyName,
   owes : {"none", "created", "present", "mismatch", "notFound", "fault"}]

FolderTyped ==
  /\ dirs \subseteq Ups /\ ents \in [Ups -> SUBSET AnyName]
  /\ received \in [Ups -> SUBSET AnyPart] /\ draft \in [Ups -> SUBSET AnyPart]
  /\ DOMAIN locked = Ups /\ DOMAIN acked = Ups /\ DOMAIN answers = Ups \cup {NoUp}

(* The steps in which a request has an upload.                             *)
OfUpload == {"judge", "body", "read", "write", "draft", "rename", "key", "session", "check",
             "join", "abort", "probed", "remove"}
Storing == {"store", "install", "replace"}

HasUpload(r) == pc[r] \in OfUpload \/ (pc[r] \in Storing /\ req[r].kind # "put")

Typed ==
  /\ FolderTyped
  /\ DOMAIN pc = Slots /\ req \in [Slots -> Asked]
  /\ \A r \in Slots : HasUpload(r) => Upload(r) \in Ups

(* A new request, and the one that has ended.                              *)
LEMMA NoRequestTyped == NoRequest \in Asked
BY DEF NoRequest, Asked, AnyPart, AnyName

(* The fields an action writes.                                            *)
LEMMA AskedWrites ==
  ASSUME NEW q \in Asked
  PROVE  /\ \A k \in Kinds : [q EXCEPT !.kind = k] \in Asked
         /\ \A u \in Ups \cup {NoUp} : [q EXCEPT !.up = u] \in Asked
         /\ \A p \in AnyPart : [q EXCEPT !.part = p] \in Asked
         /\ \A b \in BOOLEAN : [q EXCEPT !.right = b] \in Asked
         /\ \A S \in SUBSET AnyPart : [q EXCEPT !.seen = S] \in Asked
         /\ \A S \in SUBSET Ups : [q EXCEPT !.scan = S] \in Asked
         /\ \A S \in SUBSET AnyName : [q EXCEPT !.left = S] \in Asked
         /\ \A a \in {"none", "created", "present", "mismatch", "notFound", "fault"} :
              [q EXCEPT !.owes = a] \in Asked
BY DEF Asked

(* A step of r that leaves the others' requests alone.                     *)
Alone(r) ==
  /\ DOMAIN pc' = Slots /\ \A q \in Slots \ {r} : pc'[q] = pc[q] /\ req'[q] = req[q]
  /\ req' \in [Slots -> Asked]
  /\ HasUpload(r)' => Upload(r)' \in Ups

(* A step of one request keeps the types of the others.                     *)
LEMMA AloneTyped ==
  ASSUME Typed, FolderTyped', NEW r \in Slots, Alone(r)
  PROVE  Typed'
BY DEF Typed, Alone, HasUpload, Upload

(* An answer ends a request.                                               *)
LEMMA AnswerTyped ==
  ASSUME Typed, NEW r \in Slots, NEW a, Answer(r, a)
  PROVE  /\ Alone(r) /\ pc'[r] = "idle" /\ req'[r] = NoRequest
         /\ DOMAIN locked' = Ups /\ DOMAIN acked' = Ups
         /\ DOMAIN answers' = Ups \cup {NoUp}
BY NoRequestTyped
   DEF Typed, FolderTyped, Answer, Unlock, Alone, HasUpload, OfUpload, Storing

(* What is owed is a request's last word.                                  *)
LEMMA OweTyped ==
  ASSUME Typed, ents' \in [Ups -> SUBSET AnyName], NEW r \in Slots, pc[r] \in Storing,
         NEW a \in {"created", "present", "mismatch", "notFound", "fault"}, Owe(r, a)
  PROVE  /\ Alone(r)
         /\ DOMAIN locked' = Ups /\ DOMAIN acked' = Ups
         /\ DOMAIN answers' = Ups \cup {NoUp}
<1>1. CASE req[r].kind = "put"
  BY <1>1, AnswerTyped DEF Owe
<1>2. CASE req[r].kind # "put"
  <2>1. /\ req' = [req EXCEPT ![r].owes = a, ![r].left = ents'[Upload(r)]]
        /\ Go(r, "remove") /\ Unlock(r) /\ acked' = acked /\ answers' = answers
    BY <1>2 DEF Owe, Silent, clientVars
  <2>2. req[r] \in Asked /\ Upload(r) \in Ups
    BY <1>2 DEF Typed, HasUpload
  <2>3. PICK L \in SUBSET AnyName : L = ents'[Upload(r)]
    BY <2>2
  <2>4. [req[r] EXCEPT !.owes = a, !.left = L] \in Asked
        /\ [req[r] EXCEPT !.owes = a, !.left = L].up = Upload(r)
    BY <2>2 DEF Asked, Upload
  <2>5. req' = [req EXCEPT ![r] = [req[r] EXCEPT !.owes = a, !.left = L]]
    BY <2>1, <2>3 DEF Typed
  <2> QED
    BY <2>1, <2>2, <2>4, <2>5 DEF Typed, FolderTyped, Go, Unlock, Alone, Upload
<1> QED
  BY <1>1, <1>2

(* A request that arrives names an upload that its client was told of.     *)
LEMMA RequestTyped ==
  ASSUME Typed, NEW r \in Slots, Request(r)
  PROVE  Typed'
<1> USE NoRequestTyped
<1>0. /\ dirs' = dirs /\ ents' = ents /\ received' = received /\ draft' = draft
      /\ pc[r] = "idle"
  BY DEF Request, BeginStart, BeginPut, BeginPart, BeginComplete, BeginAbort, NameGone,
         Arrive, sessionVars
<1>1. /\ locked' = locked
      /\ DOMAIN acked' = Ups /\ DOMAIN answers' = Ups \cup {NoUp}
  BY DEF Request, BeginStart, BeginPut, BeginPart, BeginComplete, BeginAbort, NameGone,
         lockVars, Silent, clientVars, Typed, FolderTyped
<1>2. FolderTyped'
  BY <1>0, <1>1 DEF Typed, FolderTyped
<1>3. ASSUME NEW q \in Asked, NEW p, req' = [req EXCEPT ![r] = q], Go(r, p),
             q.up \in Ups \/ p \notin OfUpload \cup Storing \/ (p \in Storing /\ q.kind = "put")
      PROVE  Typed'
  <2>1. /\ DOMAIN pc' = Slots /\ \A z \in Slots \ {r} : pc'[z] = pc[z] /\ req'[z] = req[z]
        /\ pc'[r] = p /\ req'[r] = q /\ req' \in [Slots -> Asked]
    BY <1>3 DEF Typed, Go
  <2>2. Alone(r)
    BY <1>3, <2>1 DEF Alone, HasUpload, Upload, OfUpload, Storing
  <2> QED
    BY <1>2, <2>2, AloneTyped
<1>4. CASE UNCHANGED <<pc, req>>
  BY <1>2, <1>4 DEF Typed, HasUpload, Upload
<1>5. CASE BeginStart(r)
  <2> DEFINE q == [NoRequest EXCEPT !.kind = "start", !.scan = dirs]
  <2>1. q \in Asked
    BY <1>5 DEF Asked, BeginStart, Arrive, Typed, FolderTyped
  <2> QED
    BY <1>3, <1>5, <2>1 DEF BeginStart, OfUpload, Storing
<1>6. ASSUME NEW b \in Bodies, BeginPut(r, b) PROVE Typed'
  <2> DEFINE q == [NoRequest EXCEPT !.kind = "put", !.right = b]
  <2>1. q \in Asked /\ q.kind = "put"
    BY <1>6, UploadAssumption DEF Asked, BeginPut, Arrive, UploadAssumption
  <2> QED
    BY <1>3, <1>4, <1>6, <2>1 DEF BeginPut, Storing
<1>7. ASSUME NEW u \in Started, NEW p \in Parts, NEW b \in Bodies, BeginPart(r, u, p, b)
      PROVE  Typed'
  <2> DEFINE q == [NoRequest EXCEPT !.kind = "part", !.up = u, !.part = p, !.right = b]
  <2>1. q \in Asked /\ q.up \in Ups
    BY <1>7, UploadAssumption
       DEF Asked, AnyPart, BeginPart, Arrive, Started, UploadAssumption
  <2>2. req' = [req EXCEPT ![r] = q] /\ \E s : Go(r, s)
    BY <1>7 DEF BeginPart
  <2> HIDE DEF q
  <2> QED
    BY <1>3, <2>1, <2>2
<1>8. ASSUME NEW u \in Started, BeginComplete(r, u) PROVE Typed'
  <2> DEFINE o == IF asset = "right" THEN "present" ELSE "none"
             q == [NoRequest EXCEPT !.kind = "complete", !.up = u, !.owes = o]
  <2>1. o \in {"present", "none"}
    OBVIOUS
  <2>2. req' = [req EXCEPT ![r] = q] /\ \E s : Go(r, s)
    BY <1>8 DEF BeginComplete
  <2> HIDE DEF o
  <2>3. q \in Asked /\ q.up \in Ups
    BY <1>8, <2>1 DEF Asked, BeginComplete, Arrive, Started
  <2> HIDE DEF q
  <2> QED
    BY <1>3, <2>2, <2>3
<1>9. ASSUME NEW u \in Started, BeginAbort(r, u) PROVE Typed'
  <2> DEFINE q == [NoRequest EXCEPT !.kind = "abort", !.up = u]
  <2>1. q \in Asked /\ q.up \in Ups
    BY <1>9 DEF Asked, BeginAbort, Arrive, Started
  <2>2. req' = [req EXCEPT ![r] = q] /\ \E s : Go(r, s)
    BY <1>9 DEF BeginAbort
  <2> HIDE DEF q
  <2> QED
    BY <1>3, <2>1, <2>2
<1>10. ASSUME NEW u \in Started, NEW k \in {"part", "abort"}, NameGone(r, k, u)
       PROVE  Typed'
  BY <1>4, <1>10 DEF NameGone
<1> QED
  BY <1>5, <1>6, <1>7, <1>8, <1>9, <1>10 DEF Request

(* What a step of a request writes into the folders.                       *)
LEMMA StepFolders ==
  ASSUME Typed, NEW r \in Slots, Step(r)
  PROVE  /\ dirs' \subseteq Ups /\ ents' \in [Ups -> SUBSET AnyName]
         /\ received' \in [Ups -> SUBSET AnyPart] /\ draft' \in [Ups -> SUBSET AnyPart]
<1>1. /\ req[r].part \in AnyPart /\ req[r].seen \in SUBSET AnyPart
      /\ req[r] \in Asked
  BY DEF Typed, Asked
<1>2. \A u, E : E \in SUBSET AnyName /\ ents' = [ents EXCEPT ![u] = E]
               => ents' \in [Ups -> SUBSET AnyName]
  BY DEF Typed, FolderTyped
<1>3. \A u, S : S \in SUBSET AnyPart /\ received' = [received EXCEPT ![u] = S]
               => received' \in [Ups -> SUBSET AnyPart]
  BY DEF Typed, FolderTyped
<1>4. \A u, S : S \in SUBSET AnyPart /\ draft' = [draft EXCEPT ![u] = S]
               => draft' \in [Ups -> SUBSET AnyPart]
  BY DEF Typed, FolderTyped
<1>5. dirs' \subseteq Ups
  BY DEF Typed, FolderTyped, Step, LockPart, ReadManifest, WritePart, WriteDraft, RenameDraft,
         Judge, Look, Install, TakeKey, LockComplete, CheckParts, JoinParts, Sweep, StartUpload,
         ProbeLock, BeginRemoval, RemoveOne, RemoveDir, Quiet, SessionOnly, StoreOnly,
         sessionVars, Unused
<1>6. draft' \in [Ups -> SUBSET AnyPart]
  <2>1. CASE WriteDraft(r)
    BY <1>1, <1>4, <2>1 DEF WriteDraft, Typed, FolderTyped
  <2>2. CASE ~WriteDraft(r)
    <3>1. draft' = draft
      BY <2>2 DEF Step, LockPart, ReadManifest, WritePart, RenameDraft, Judge, Look, Install,
            TakeKey, LockComplete, CheckParts, JoinParts, Sweep, StartUpload, ProbeLock,
            BeginRemoval, RemoveOne, RemoveDir, Quiet, SessionOnly, StoreOnly, sessionVars
    <3> QED
      BY <3>1 DEF Typed, FolderTyped
  <2> QED
    BY <2>1, <2>2
<1>7. received' \in [Ups -> SUBSET AnyPart]
  <2>1. CASE RenameDraft(r)
    <3>1. Upload(r) \in Ups
      BY <2>1 DEF RenameDraft, Typed, HasUpload, OfUpload
    <3>2. draft[Upload(r)] \in SUBSET AnyPart /\ received \in [Ups -> SUBSET AnyPart]
      BY <3>1 DEF Typed, FolderTyped
    <3>3. \/ received' = received
          \/ received' = [received EXCEPT ![Upload(r)] = draft[Upload(r)]]
      BY <2>1 DEF RenameDraft
    <3> QED
      BY <1>3, <3>2, <3>3
  <2>2. CASE ~RenameDraft(r)
    <3>1. received' = received
      BY <2>2 DEF Step, LockPart, ReadManifest, WritePart, WriteDraft, Judge, Look, Install,
            TakeKey, LockComplete, CheckParts, JoinParts, Sweep, StartUpload, ProbeLock,
            BeginRemoval, RemoveOne, RemoveDir, Quiet, SessionOnly, StoreOnly, sessionVars
    <3> QED
      BY <3>1 DEF Typed, FolderTyped
  <2> QED
    BY <2>1, <2>2
<1>8. ents' \in [Ups -> SUBSET AnyName]
  <2>1. ASSUME NEW u \in Ups, NEW E, ents' = [ents EXCEPT ![u] = E],
               E \subseteq ents[u] \cup {"manifest", "tmp", "lock", "assembled", req[r].part}
        PROVE  ents' \in [Ups -> SUBSET AnyName]
    <3>1. E \in SUBSET AnyName
      BY <1>1, <2>1 DEF Typed, FolderTyped, AnyName, AnyPart, Names
    <3> QED
      BY <1>2, <2>1, <3>1
  <2>2. CASE ents' = ents
    BY <2>2 DEF Typed, FolderTyped
  <2>3. ASSUME HasUpload(r)
        PROVE  Upload(r) \in Ups
    BY <2>3 DEF Typed
  <2>4. ASSUME NEW n, NEW a, LockSession(r, n, a), HasUpload(r)
        PROVE  ents' \in [Ups -> SUBSET AnyName]
    BY <2>1, <2>2, <2>3, <2>4 DEF LockSession, Fill, Files
  <2>5. CASE LockPart(r) \/ LockComplete(r)
    BY <2>4, <2>5 DEF LockPart, LockComplete, HasUpload, OfUpload
  <2>6. CASE WritePart(r) \/ WriteDraft(r) \/ JoinParts(r) \/ ProbeLock(r)
    BY <2>1, <2>2, <2>3, <2>6
       DEF WritePart, WriteDraft, JoinParts, ProbeLock, HasUpload, OfUpload, Fill, Files
  <2>7. CASE RenameDraft(r)
    <3>1. CASE ents' = ents
      BY <2>2, <3>1
    <3>2. CASE ents' # ents
      BY <2>1, <2>3, <2>7, <3>2 DEF RenameDraft, HasUpload, OfUpload
    <3> QED
      BY <3>1, <3>2
  <2>8. CASE Look(r) \/ Install(r)
    <3>1. CASE req[r].kind = "put"
      BY <2>2, <2>8, <3>1 DEF Look, Install, Consume
    <3>2. CASE req[r].kind # "put"
      <4>1. Upload(r) \in Ups
        BY <2>3, <2>8, <3>2 DEF Look, Install, HasUpload, Storing
      <4>2. ents' = ents \/ Consume(r)
        BY <2>8 DEF Look, Install
      <4> QED
        BY <2>1, <2>2, <3>2, <4>1, <4>2 DEF Consume, Fill, Files
    <3> QED
      BY <3>1, <3>2
  <2>9. CASE StartUpload(r)
    BY <2>1, <2>2, <2>9 DEF StartUpload, Fill, Unused
  <2>10. ASSUME NEW e \in Names, RemoveOne(r, e)
         PROVE  ents' \in [Ups -> SUBSET AnyName]
    BY <2>1, <2>3, <2>10 DEF RemoveOne, HasUpload, OfUpload, Fill, Files
  <2>11. CASE ReadManifest(r) \/ Judge(r) \/ TakeKey(r) \/ CheckParts(r) \/ Sweep(r)
              \/ BeginRemoval(r) \/ RemoveDir(r)
    BY <2>2, <2>11
       DEF ReadManifest, Judge, TakeKey, CheckParts, Sweep, BeginRemoval, RemoveDir, Quiet,
           sessionVars
  <2> QED
    BY <2>5, <2>6, <2>7, <2>8, <2>9, <2>10, <2>11 DEF Step
<1> QED
  BY <1>5, <1>6, <1>7, <1>8

(* The other steps of a request: it keeps its upload to the end.           *)
LEMMA StepTyped ==
  ASSUME Typed, NEW r \in Slots, Step(r)
  PROVE  Typed' /\ Alone(r)
<1>1. /\ dirs' \subseteq Ups /\ ents' \in [Ups -> SUBSET AnyName]
      /\ received' \in [Ups -> SUBSET AnyPart] /\ draft' \in [Ups -> SUBSET AnyPart]
  BY StepFolders
<1>2. req[r] \in Asked /\ (HasUpload(r) => Upload(r) \in Ups)
  BY DEF Typed
<1> DEFINE Tables == /\ DOMAIN locked' = Ups /\ DOMAIN acked' = Ups
                     /\ DOMAIN answers' = Ups \cup {NoUp}
<1>3. ASSUME Alone(r), Tables PROVE Typed' /\ Alone(r)
  BY <1>1, <1>3, AloneTyped DEF FolderTyped
<1>4. ASSUME NEW a, Answer(r, a) PROVE Alone(r) /\ Tables
  BY <1>4, AnswerTyped
<1>5. ASSUME Silent, locked' = locked \/ (\E u : locked' = [locked EXCEPT ![u] = r])
                     \/ (\E u : locked' = [locked EXCEPT ![u] = Nobody]) \/ Unlock(r)
      PROVE  Tables
  BY <1>5 DEF Silent, clientVars, Typed, FolderTyped, Unlock
<1>6. ASSUME NEW q \in Asked, q.up = Upload(r), q.kind = req[r].kind, NEW p,
             req' = [req EXCEPT ![r] = q], Go(r, p) \/ (pc' = pc /\ p = pc[r]),
             HasUpload(r) \/ p \notin OfUpload \cup Storing
      PROVE  Alone(r)
  <2>1. /\ DOMAIN pc' = Slots /\ \A z \in Slots \ {r} : pc'[z] = pc[z] /\ req'[z] = req[z]
        /\ req'[r] = q /\ req' \in [Slots -> Asked]
    BY <1>6 DEF Typed, Go
  <2>2. pc'[r] = p
    BY <1>6 DEF Typed, Go
  <2> QED
    BY <1>2, <1>6, <2>1, <2>2 DEF Alone, HasUpload, Upload
<1>7. ASSUME NEW p, req' = req, Go(r, p), HasUpload(r) \/ p \notin OfUpload \cup Storing
             \/ (p \in Storing /\ pc[r] \in Storing)
      PROVE  Alone(r)
  <2>1. /\ DOMAIN pc' = Slots /\ \A z \in Slots \ {r} : pc'[z] = pc[z] /\ req'[z] = req[z]
        /\ pc'[r] = p /\ req'[r] = req[r] /\ req' \in [Slots -> Asked]
    BY <1>7 DEF Typed, Go
  <2> QED
    BY <1>2, <1>7, <2>1 DEF Alone, HasUpload, Upload, OfUpload, Storing
<1> HIDE DEF Tables
<1>10. CASE LockPart(r) \/ LockComplete(r)
  <2>1. HasUpload(r)
    BY <1>10 DEF LockPart, LockComplete, HasUpload, OfUpload
  <2>2. \/ \E a : Answer(r, a)
        \/ /\ req' = req /\ Silent /\ \E p : Go(r, p)
           /\ locked' = [locked EXCEPT ![Upload(r)] = r]
    BY <1>10 DEF LockPart, LockComplete, LockSession
  <2> QED
    BY <1>3, <1>4, <1>5, <1>7, <2>1, <2>2
<1>11. CASE ReadManifest(r)
  <2>1. HasUpload(r)
    BY <1>11 DEF ReadManifest, HasUpload, OfUpload
  <2>2. CASE Answer(r, "notFound")
    BY <1>3, <1>4, <2>2
  <2>3. CASE ~Answer(r, "notFound")
    <3>1. PICK S \in SUBSET AnyPart : S = received[Upload(r)]
      BY <1>2, <2>1 DEF Typed, FolderTyped
    <3> DEFINE q == [req[r] EXCEPT !.seen = S]
    <3>2. q \in Asked /\ q.up = Upload(r) /\ q.kind = req[r].kind
      BY <1>2 DEF Asked, Upload
    <3>3. /\ req' = [req EXCEPT ![r] = q] /\ Silent /\ \E p : Go(r, p)
          /\ locked' = locked
      BY <1>11, <2>3, <3>1 DEF ReadManifest, lockVars
    <3> HIDE DEF q
    <3> QED
      BY <1>3, <1>5, <1>6, <2>1, <3>2, <3>3
  <2> QED
    BY <2>2, <2>3
<1>12. CASE WritePart(r) \/ WriteDraft(r) \/ CheckParts(r) \/ TakeKey(r)
  <2>1. HasUpload(r)
    BY <1>12 DEF WritePart, WriteDraft, CheckParts, TakeKey, HasUpload, OfUpload
  <2>2. \/ \E a : Answer(r, a)
        \/ req' = req /\ Silent /\ (\E p : Go(r, p)) /\ locked' = locked
    BY <1>12 DEF WritePart, WriteDraft, CheckParts, TakeKey, lockVars
  <2> QED
    BY <1>3, <1>4, <1>5, <1>7, <2>1, <2>2
<1>13. CASE RenameDraft(r) \/ Judge(r)
  <2>1. \E a : Answer(r, a)
    BY <1>13 DEF RenameDraft, Judge
  <2> QED
    BY <1>3, <1>4, <2>1
<1>14. CASE Look(r) \/ Install(r)
  <2>1. pc[r] \in Storing
    BY <1>14 DEF Look, Install, Storing
  <2>2. \/ \E a \in {"created", "present", "mismatch", "notFound", "fault"} : Owe(r, a)
        \/ req' = req /\ Silent /\ locked' = locked /\ \E p \in Storing : Go(r, p)
    BY <1>14 DEF Look, Install, GoneOrFault, lockVars, Storing
  <2>3. CASE req' = req /\ Silent /\ locked' = locked /\ \E p \in Storing : Go(r, p)
    BY <1>3, <1>5, <1>7, <2>1, <2>3
  <2>4. CASE \E a \in {"created", "present", "mismatch", "notFound", "fault"} : Owe(r, a)
    <3>1. Alone(r) /\ Tables
      BY <1>1, <2>1, <2>4, OweTyped DEF Tables
    <3> QED
      BY <1>3, <3>1
  <2> QED
    BY <2>2, <2>3, <2>4
<1>15. CASE JoinParts(r)
  <2>1. HasUpload(r)
    BY <1>15 DEF JoinParts, HasUpload, OfUpload
  <2>2. CASE \E a : Answer(r, a)
    BY <1>3, <1>4, <2>2
  <2>3. CASE ~\E a : Answer(r, a)
    <3>1. PICK b \in BOOLEAN : b = (Parts \subseteq good[Upload(r)])
      OBVIOUS
    <3> DEFINE q == [req[r] EXCEPT !.right = b]
    <3>2. q \in Asked /\ q.up = Upload(r) /\ q.kind = req[r].kind
      BY <1>2 DEF Asked, Upload
    <3>3. /\ req' = [req EXCEPT ![r] = q] /\ Silent /\ \E p : Go(r, p)
          /\ locked' = locked
      BY <1>15, <2>3, <3>1 DEF JoinParts, lockVars
    <3> HIDE DEF q
    <3> QED
      BY <1>3, <1>5, <1>6, <2>1, <3>2, <3>3
  <2> QED
    BY <2>2, <2>3
<1>16. CASE Sweep(r)
  <2>1. PICK u \in req[r].scan :
          /\ \/ /\ req' = [req EXCEPT ![r].scan = @ \ {u}, ![r].up = u, ![r].left = ents[u]]
                /\ Go(r, "remove")
             \/ req' = [req EXCEPT ![r].scan = @ \ {u}] /\ pc' = pc
          /\ pc[r] = "sweep" /\ Silent /\ locked' = locked
    BY <1>16 DEF Sweep, lockVars
  <2>2. u \in Ups
    BY <1>2 DEF Asked
  <2>3. PICK L \in SUBSET AnyName : L = ents[u]
    BY <2>2 DEF Typed, FolderTyped
  <2>4. PICK S \in SUBSET Ups : S = req[r].scan \ {u}
    BY <1>2 DEF Asked
  <2>5. CASE req' = [req EXCEPT ![r].scan = @ \ {u}] /\ pc' = pc
    <3> DEFINE q == [req[r] EXCEPT !.scan = S]
    <3>1. q \in Asked /\ q.up = Upload(r) /\ q.kind = req[r].kind
      BY <1>2 DEF Asked, Upload
    <3>2. req' = [req EXCEPT ![r] = q]
      BY <2>4, <2>5
    <3> HIDE DEF q
    <3>3. Alone(r)
      BY <1>6, <2>1, <2>5, <3>1, <3>2 DEF OfUpload, Storing
    <3> QED
      BY <1>3, <1>5, <2>1, <3>3
  <2>6. CASE /\ req' = [req EXCEPT ![r].scan = @ \ {u}, ![r].up = u, ![r].left = ents[u]]
             /\ Go(r, "remove")
    <3> DEFINE q == [req[r] EXCEPT !.scan = S, !.up = u, !.left = L]
    <3>1. q \in Asked /\ q.up = u
      BY <1>2, <2>2 DEF Asked
    <3>2. req' = [req EXCEPT ![r] = q]
      BY <2>3, <2>4, <2>6
    <3>3. Go(r, "remove")
      BY <2>6
    <3> HIDE DEF q
    <3>4. /\ DOMAIN pc' = Slots /\ \A z \in Slots \ {r} : pc'[z] = pc[z] /\ req'[z] = req[z]
          /\ req'[r] = q /\ req' \in [Slots -> Asked]
      BY <3>1, <3>2, <3>3 DEF Typed, Go
    <3>5. Alone(r)
      BY <2>2, <3>1, <3>4 DEF Alone, Upload
    <3> QED
      BY <1>3, <1>5, <2>1, <3>5
  <2> QED
    BY <2>1, <2>5, <2>6
<1>17. CASE StartUpload(r)
  <2>1. CASE \E a : Answer(r, a)
    BY <1>3, <1>4, <2>1
  <2>2. CASE ~\E a : Answer(r, a)
    <3>1. /\ pc' = [pc EXCEPT ![r] = "idle"] /\ req' = [req EXCEPT ![r] = NoRequest]
          /\ locked' = locked /\ acked' = acked
          /\ \E u \in Ups : answers' = [answers EXCEPT ![u] = @ \cup {"started"}]
      BY <1>17, <2>2 DEF StartUpload, lockVars, Unused
    <3>2. Alone(r)
      BY <3>1, NoRequestTyped DEF Typed, Alone, HasUpload, OfUpload, Storing
    <3>3. Tables
      BY <3>1 DEF Tables, Typed, FolderTyped
    <3> QED
      BY <1>3, <3>2, <3>3
  <2> QED
    BY <2>1, <2>2
<1>18. CASE ProbeLock(r)
  <2>1. HasUpload(r)
    BY <1>18 DEF ProbeLock, HasUpload, OfUpload
  <2>2. \/ \E a : Answer(r, a)
        \/ /\ req' = req /\ Silent /\ \E p : Go(r, p)
           /\ locked' = [locked EXCEPT ![Upload(r)] = r]
    BY <1>18 DEF ProbeLock
  <2> QED
    BY <1>3, <1>4, <1>5, <1>7, <2>1, <2>2
<1>19. CASE BeginRemoval(r)
  <2>1. HasUpload(r) /\ Upload(r) \in Ups
    BY <1>2, <1>19 DEF BeginRemoval, HasUpload, OfUpload
  <2>2. PICK L \in SUBSET AnyName : L = Files(r)
    BY <2>1 DEF Typed, FolderTyped, Files
  <2> DEFINE q == [req[r] EXCEPT !.left = L]
  <2>3. q \in Asked /\ q.up = Upload(r) /\ q.kind = req[r].kind
    BY <1>2 DEF Asked, Upload
  <2>4. /\ req' = [req EXCEPT ![r] = q] /\ Silent /\ Go(r, "remove") /\ Unlock(r)
    BY <1>19, <2>2 DEF BeginRemoval
  <2> HIDE DEF q
  <2> QED
    BY <1>3, <1>5, <1>6, <2>1, <2>3, <2>4
<1>20. ASSUME NEW e \in Names, RemoveOne(r, e)
       PROVE  Typed' /\ Alone(r)
  <2>1. HasUpload(r) /\ Upload(r) \in Ups
    BY <1>2, <1>20 DEF RemoveOne, HasUpload, OfUpload
  <2>2. PICK L \in SUBSET AnyName : L = req[r].left \ {e}
    BY <1>2 DEF Asked
  <2> DEFINE q == [req[r] EXCEPT !.left = L]
  <2>3. q \in Asked /\ q.up = Upload(r) /\ q.kind = req[r].kind
    BY <1>2 DEF Asked, Upload
  <2>4. /\ req' = [req EXCEPT ![r] = q] /\ Silent /\ pc' = pc
        /\ locked' \in {locked, [locked EXCEPT ![Upload(r)] = Nobody]}
    BY <1>20, <2>2 DEF RemoveOne
  <2> HIDE DEF q
  <2> QED
    BY <1>3, <1>5, <1>6, <2>1, <2>3, <2>4
<1>21. CASE RemoveDir(r)
  <2>1. CASE \E a : Answer(r, a)
    BY <1>3, <1>4, <2>1
  <2>2. CASE ~\E a : Answer(r, a)
    <3>1. /\ req' = [req EXCEPT ![r].up = NoUp, ![r].left = {}]
          /\ Go(r, "sweep") /\ locked' = locked /\ Silent
      BY <1>21, <2>2 DEF RemoveDir, Removed, lockVars
    <3> DEFINE q == [req[r] EXCEPT !.up = NoUp, !.left = {}]
    <3>2. q \in Asked
      BY <1>2 DEF Asked
    <3>3. req' = [req EXCEPT ![r] = q]
      BY <3>1
    <3> HIDE DEF q
    <3>4. Alone(r)
      BY <3>1, <3>2, <3>3 DEF Typed, Go, Alone, HasUpload, OfUpload, Storing
    <3> QED
      BY <1>3, <1>5, <3>1, <3>4
  <2> QED
    BY <2>1, <2>2
<1> QED
  BY <1>10, <1>11, <1>12, <1>13, <1>14, <1>15, <1>16, <1>17, <1>18, <1>19, <1>20, <1>21
     DEF Step

(* Every step keeps the types.                                             *)
LEMMA NextTyped ==
  ASSUME Typed, [Next]_vars
  PROVE  Typed'
<1>1. ASSUME NEW r \in Slots, DropWaiting(r) PROVE Typed'
  <2>1. FolderTyped'
    BY <1>1 DEF DropWaiting, Typed, FolderTyped, lockVars, Silent, clientVars, Quiet,
                sessionVars
  <2>2. Alone(r)
    BY <1>1, NoRequestTyped DEF DropWaiting, Typed, Alone, HasUpload, OfUpload, Storing
  <2> QED
    BY <2>1, <2>2, AloneTyped
<1>2. ASSUME UNCHANGED <<pc, req, dirs, ents, received, draft, locked, answers, acked>>
      PROVE  Typed'
  BY <1>2 DEF Typed, FolderTyped, HasUpload, Upload
<1>3. ASSUME NEW r \in Slots, DropHandler(r) PROVE Typed'
  BY <1>2, <1>3 DEF DropHandler, Silent, clientVars, Quiet, sessionVars
<1>4. ASSUME NEW u \in Ups, Age(u) PROVE Typed'
  BY <1>2, <1>4 DEF Age, Silent, clientVars, lockVars
<1>5. CASE Harm
  BY <1>2, <1>5 DEF Harm, Silent, clientVars, lockVars, sessionVars
<1>6. CASE Crash
  <2>1. FolderTyped'
    BY <1>6 DEF Crash, Typed, FolderTyped, Silent, clientVars, sessionVars
  <2>2. req' \in [Slots -> Asked] /\ DOMAIN pc' = Slots /\ \A r \in Slots : pc'[r] = "idle"
    BY <1>6, NoRequestTyped DEF Crash
  <2> QED
    BY <2>1, <2>2 DEF Typed, HasUpload, OfUpload, Storing
<1>7. CASE UNCHANGED vars
  BY <1>2, <1>7 DEF vars, sessionVars, lockVars, clientVars
<1> QED
  BY <1>1, <1>3, <1>4, <1>5, <1>6, <1>7, RequestTyped, StepTyped DEF Next

(* An earlier server leaves well-typed folders and no request.              *)
LEMMA InitTyped == Init => Typed
<1> SUFFICES ASSUME Init PROVE Typed
  OBVIOUS
<1>1. FolderTyped
  BY UploadAssumption DEF Init, FolderTyped, OfSent, AnyName, AnyPart, Names, UploadAssumption
<1>2. req \in [Slots -> Asked] /\ DOMAIN pc = Slots /\ \A r \in Slots : pc[r] = "idle"
  BY NoRequestTyped DEF Init
<1> QED
  BY <1>1, <1>2 DEF Typed, HasUpload, OfUpload, Storing

--------------------------------------------------------------------------------
(* What clients are told of the store.                                     *)

Tells == {"created", "present"}

(* A request that made the file and has not said so yet.                   *)
Makes(r) == req[r].owes = "created"

(* Without harm: the file is right once anybody was told or is owed that   *)
(* it is stored, and one request at most made it.                          *)
StoreSafe ==
  /\ asset \in {"absent", "right"}
  /\ \A r \in Slots : pc[r] # "replace"
  /\ asset # "right" =>
       /\ created = 0
       /\ \A u \in Ups \cup {NoUp} : answers[u] \cap Tells = {}
       /\ \A r \in Slots : req[r].owes \notin Tells
  /\ created \in 0..1
  /\ \A r \in Slots : Makes(r) => created = 0 /\ \A q \in Slots : Makes(q) => q = r

StoreInv ==
  /\ harms \in Nat /\ DOMAIN answers = Ups \cup {NoUp}
  /\ harms = 0 => StoreSafe

(* A step of r that leaves the stored file alone and tells of it only what *)
(* is so: that it is there, or that r made it.                             *)
Truthful(r) ==
  /\ asset' = asset /\ harms' = harms
  /\ DOMAIN answers' = Ups \cup {NoUp}
  /\ \A u \in Ups \cup {NoUp} :
       answers'[u] \cap Tells \subseteq answers[u] \/ asset = "right"
  /\ \A q \in Slots : pc'[q] = "replace" => pc[q] = "replace"
  /\ \A q \in Slots \ {r} : req'[q] = req[q]
  /\ req'[r].owes \in Tells =>
       req'[r].owes = req[r].owes \/ (req'[r].owes = "present" /\ asset = "right")
  /\ \/ created' = created
     \/ Makes(r) /\ created' = created + 1 /\ req'[r].owes # "created"

(* Such a step keeps what clients are told of the store true.               *)
LEMMA TruthfulKeeps ==
  ASSUME StoreInv, harms = 0, NEW r \in Slots, Truthful(r)
  PROVE  StoreInv'
<1>1. StoreSafe
  BY DEF StoreInv
<1>2. Makes(r) => asset = "right" /\ created = 0
  BY <1>1 DEF StoreSafe, Makes, Tells
<1>3. created' \in 0..1 /\ (asset # "right" => created' = 0)
  BY <1>1, <1>2 DEF StoreSafe, Truthful
<1>4. \A q \in Slots : Makes(q)' => Makes(q)
  BY DEF Truthful, Makes, Tells
<1>5. \A q \in Slots : Makes(q)' => created' = 0 /\ \A p \in Slots : Makes(p)' => p = q
  BY <1>1, <1>2, <1>4 DEF StoreSafe, Truthful, Makes
<1>6. asset # "right" =>
        /\ \A u \in Ups \cup {NoUp} : answers'[u] \cap Tells = {}
        /\ \A q \in Slots : req'[q].owes \notin Tells
  BY <1>1 DEF StoreSafe, Truthful
<1>7. StoreSafe'
  BY <1>1, <1>3, <1>5, <1>6 DEF StoreSafe, Truthful
<1> QED
  BY <1>3, <1>7 DEF StoreInv, Truthful

(* An answer of what is so.                                                *)
LEMMA AnswerTruthful ==
  ASSUME Typed, StoreInv, harms = 0, NEW r \in Slots, NEW a, Answer(r, a),
         asset' = asset, harms' = harms,
         a = "created" => Makes(r), a = "present" => asset = "right"
  PROVE  Truthful(r)
<1>1. NoRequest.owes = "none"
  BY DEF NoRequest
<1>2. DOMAIN answers = Ups \cup {NoUp} /\ DOMAIN pc = Slots /\ DOMAIN req = Slots
  BY DEF StoreInv, Typed
<1>3. /\ pc'[r] = "idle" /\ \A q \in Slots \ {r} : pc'[q] = pc[q]
      /\ req'[r] = NoRequest /\ \A q \in Slots \ {r} : req'[q] = req[q]
      /\ DOMAIN answers' = Ups \cup {NoUp}
      /\ \A u \in Ups \cup {NoUp} : answers'[u] \subseteq answers[u] \cup {a}
      /\ created' = IF a = "created" THEN created + 1 ELSE created
  BY <1>2 DEF Answer
<1>4. a = "created" => asset = "right"
  BY DEF StoreInv, StoreSafe, Makes, Tells
<1>5. \A u \in Ups \cup {NoUp} : answers'[u] \cap Tells \subseteq answers[u] \/ asset = "right"
  BY <1>3, <1>4 DEF Tells
<1> QED
  BY <1>1, <1>3, <1>5 DEF Truthful, Tells

(* A step that answers nothing.                                            *)
LEMMA SilentTruthful ==
  ASSUME StoreInv, NEW r \in Slots, asset' = asset, harms' = harms,
         answers' = answers, created' = created,
         \A q \in Slots : pc'[q] = "replace" => pc[q] = "replace",
         \A q \in Slots \ {r} : req'[q] = req[q],
         \/ req'[r].owes \in {req[r].owes, "none"}
         \/ req'[r].owes = "present" /\ asset = "right"
  PROVE  Truthful(r)
BY DEF Truthful, StoreInv, Tells

(* What a request is told as it arrives is so.                             *)
LEMMA RequestTruthful ==
  ASSUME Typed, StoreInv, harms = 0, NEW r \in Slots, Request(r)
  PROVE  Truthful(r)
<1>1. asset' = asset /\ harms' = harms /\ created' = created
  BY DEF Request, BeginStart, BeginPut, BeginPart, BeginComplete, BeginAbort, NameGone,
         Arrive, Silent, clientVars
<1>2. DOMAIN pc = Slots /\ req \in [Slots -> Asked] /\ DOMAIN answers = Ups \cup {NoUp}
  BY DEF Typed, FolderTyped
<1>3. \A q \in Slots : pc'[q] = "replace" => pc[q] = "replace"
  BY <1>2 DEF Request, BeginStart, BeginPut, BeginPart, BeginComplete, BeginAbort, NameGone, Go
<1>4. \A q \in Slots \ {r} : req'[q] = req[q]
  BY <1>2 DEF Request, BeginStart, BeginPut, BeginPart, BeginComplete, BeginAbort, NameGone
<1>5. \/ req'[r].owes \in {req[r].owes, "none"}
      \/ req'[r].owes = "present" /\ asset = "right"
  BY <1>2 DEF Request, BeginStart, BeginPut, BeginPart, BeginComplete, BeginAbort, NameGone,
              NoRequest
<1>6. DOMAIN answers' = Ups \cup {NoUp}
      /\ \A u \in Ups \cup {NoUp} :
           answers'[u] \cap Tells \subseteq answers[u] \/ asset = "right"
  BY <1>2 DEF Request, BeginStart, BeginPut, BeginPart, BeginComplete, BeginAbort, NameGone,
              Silent, clientVars, Tells
<1> QED
  BY <1>1, <1>3, <1>4, <1>5, <1>6 DEF Truthful, Tells

(* What is owed is answered at once, or after the folder is removed.       *)
LEMMA OweTruthful ==
  ASSUME Typed, StoreInv, harms = 0, NEW r \in Slots, HasUpload(r) \/ req[r].kind = "put",
         NEW a \in {"present", "mismatch", "notFound", "fault"}, Owe(r, a),
         asset' = asset, harms' = harms, a = "present" => asset = "right"
  PROVE  Truthful(r)
<1>1. CASE req[r].kind = "put"
  BY <1>1, AnswerTruthful DEF Owe
<1>2. CASE req[r].kind # "put"
  <2>1. /\ req' = [req EXCEPT ![r].owes = a, ![r].left = ents'[Upload(r)]]
        /\ pc' = [pc EXCEPT ![r] = "remove"] /\ answers' = answers /\ created' = created
    BY <1>2 DEF Owe, Silent, clientVars, Go
  <2>2. \A q \in Slots \ {r} : req'[q] = req[q]
    BY <2>1 DEF Typed
  <2>3. req'[r].owes = a
    BY <2>1 DEF Typed, Asked
  <2>4. \A q \in Slots : pc'[q] = "replace" => pc[q] = "replace"
    BY <2>1 DEF Typed
  <2> QED
    BY <2>1, <2>2, <2>3, <2>4 DEF Truthful, StoreInv, Tells
<1> QED
  BY <1>1, <1>2

(* The other steps but an install tell only what is so.                    *)
LEMMA StepTruthful ==
  ASSUME Typed, StoreInv, harms = 0, NEW r \in Slots, Step(r), ~Install(r)
  PROVE  Truthful(r)
<1>1. asset' = asset /\ harms' = harms
  BY DEF Step, LockPart, ReadManifest, WritePart, WriteDraft, RenameDraft, Judge, Look,
         TakeKey, LockComplete, CheckParts, JoinParts, Sweep, StartUpload, ProbeLock,
         BeginRemoval, RemoveOne, RemoveDir, Quiet, SessionOnly, StoreOnly, countVars
<1>2. req[r] \in Asked /\ DOMAIN pc = Slots /\ req \in [Slots -> Asked]
      /\ DOMAIN answers = Ups \cup {NoUp}
  BY DEF Typed, FolderTyped
<1>3. ASSUME NEW a, Answer(r, a), a \notin Tells
      PROVE  Truthful(r)
  BY <1>1, <1>3, AnswerTruthful DEF Tells
<1>4. ASSUME NEW a, Answer(r, Outcome(r, a)), a \notin Tells
      PROVE  Truthful(r)
  <2>1. Outcome(r, a) = "created" => Makes(r)
    BY <1>4 DEF Outcome, Makes, Tells
  <2>2. Outcome(r, a) = "present" => req[r].owes = "present"
    BY <1>4 DEF Outcome, Tells
  <2>3. req[r].owes = "present" => asset = "right"
    BY DEF StoreInv, StoreSafe, Tells
  <2> QED
    BY <1>1, <1>4, <2>1, <2>2, <2>3, AnswerTruthful
<1>5. ASSUME Silent, \A q \in Slots : pc'[q] = "replace" => pc[q] = "replace",
             \A q \in Slots \ {r} : req'[q] = req[q], req'[r].owes = req[r].owes
      PROVE  Truthful(r)
  BY <1>1, <1>5, SilentTruthful DEF Silent, clientVars
<1>10. CASE LockPart(r) \/ LockComplete(r)
  BY <1>2, <1>3, <1>5, <1>10 DEF LockPart, LockComplete, LockSession, Go, Tells
<1>11. CASE ReadManifest(r)
  BY <1>2, <1>3, <1>5, <1>11 DEF ReadManifest, Go, Tells, Asked
<1>12. CASE WritePart(r) \/ WriteDraft(r) \/ CheckParts(r) \/ TakeKey(r)
  BY <1>2, <1>3, <1>5, <1>12
     DEF WritePart, WriteDraft, CheckParts, TakeKey, MissingPart, Go, Tells
<1>13. CASE RenameDraft(r) \/ Judge(r)
  BY <1>3, <1>13 DEF RenameDraft, Judge, GoneOrFault, Tells
<1>14. CASE Look(r)
  <2>1. asset # "wrong"
    BY DEF StoreInv, StoreSafe
  <2>2. CASE \E a \in {"present", "mismatch", "notFound", "fault"} :
               Owe(r, a) /\ (a = "present" => asset = "right")
    <3>1. HasUpload(r) \/ req[r].kind = "put"
      BY <1>14 DEF Look, HasUpload, Storing
    <3> QED
      BY <1>1, <2>2, <3>1, OweTruthful
  <2>3. CASE Go(r, "install") /\ req' = req /\ Silent
    BY <1>2, <1>5, <2>3 DEF Go
  <2> QED
    BY <1>14, <2>1, <2>2, <2>3 DEF Look, GoneOrFault
<1>15. CASE JoinParts(r)
  BY <1>2, <1>3, <1>5, <1>15 DEF JoinParts, Go, Tells, Asked
<1>16. CASE Sweep(r)
  <2>1. PICK u :
          \/ /\ req' = [req EXCEPT ![r].scan = @ \ {u}, ![r].up = u, ![r].left = ents[u]]
             /\ Go(r, "remove") /\ Silent
          \/ req' = [req EXCEPT ![r].scan = @ \ {u}] /\ pc' = pc /\ Silent
    BY <1>16 DEF Sweep
  <2>2. /\ Silent /\ \A q \in Slots : pc'[q] = "replace" => pc[q] = "replace"
        /\ \A q \in Slots \ {r} : req'[q] = req[q]
    BY <1>2, <2>1 DEF Go
  <2>3. req'[r].owes = req[r].owes
    BY <1>2, <2>1 DEF Asked
  <2> QED
    BY <1>5, <2>2, <2>3
<1>17. CASE StartUpload(r)
  <2>1. CASE asset = "right" /\ Answer(r, "present")
    BY <1>1, <2>1, AnswerTruthful
  <2>2. CASE Answer(r, "none")
    BY <1>3, <2>2 DEF Tells
  <2>3. CASE /\ pc' = [pc EXCEPT ![r] = "idle"] /\ req' = [req EXCEPT ![r] = NoRequest]
             /\ created' = created
             /\ \E u \in Unused : answers' = [answers EXCEPT ![u] = @ \cup {"started"}]
    <3>1. DOMAIN answers' = Ups \cup {NoUp}
          /\ \A u \in Ups \cup {NoUp} : answers'[u] \cap Tells \subseteq answers[u]
      BY <1>2, <2>3 DEF Tells
    <3>2. \A q \in Slots \ {r} : req'[q] = req[q]
      BY <1>2, <2>3
    <3>3. req'[r].owes = "none" /\ \A q \in Slots : pc'[q] = "replace" => pc[q] = "replace"
      BY <1>2, <2>3 DEF NoRequest
    <3> QED
      BY <1>1, <2>3, <3>1, <3>2, <3>3 DEF Truthful, Tells
  <2> QED
    BY <1>17, <2>1, <2>2, <2>3 DEF StartUpload
<1>18. CASE ProbeLock(r)
  BY <1>2, <1>4, <1>5, <1>18 DEF ProbeLock, Go, Tells
<1>19. CASE BeginRemoval(r)
  BY <1>2, <1>5, <1>19 DEF BeginRemoval, Go, Asked
<1>20. ASSUME NEW e \in Names, RemoveOne(r, e)
       PROVE  Truthful(r)
  BY <1>2, <1>5, <1>20 DEF RemoveOne, Asked
<1>21. CASE RemoveDir(r)
  BY <1>2, <1>4, <1>5, <1>21 DEF RemoveDir, Removed, NotEmptied, Go, Tells, Asked
<1> QED
  BY <1>10, <1>11, <1>12, <1>13, <1>14, <1>15, <1>16, <1>17, <1>18, <1>19, <1>20, <1>21
     DEF Step

(* An install makes the file right, once.                                  *)
LEMMA InstallKeeps ==
  ASSUME Typed, Verified, StoreInv, harms = 0, NEW r \in Slots, Install(r)
  PROVE  StoreInv'
<1>1. StoreSafe /\ asset \in {"absent", "right"} /\ pc[r] = "install"
  BY DEF StoreInv, StoreSafe, Install
<1>2. harms' = harms /\ (HasUpload(r) \/ req[r].kind = "put")
  BY <1>1 DEF Install, StoreOnly, countVars, HasUpload, Storing
<1>3. CASE asset = "right"
  <2>1. Owe(r, "present") /\ asset' = asset
    BY <1>1, <1>3 DEF Install, Replaces
  <2> QED
    BY <1>2, <1>3, <2>1, OweTruthful, TruthfulKeeps
<1>4. CASE asset = "absent"
  <2>1. Owe(r, "created") /\ asset' = "right"
    BY <1>1, <1>4 DEF Install, Verified, Installing, Bytes
  <2>2. created = 0 /\ \A q \in Slots : req[q].owes \notin Tells
    BY <1>1, <1>4 DEF StoreSafe
  <2>3. DOMAIN answers = Ups \cup {NoUp} /\ DOMAIN pc = Slots /\ req \in [Slots -> Asked]
    BY DEF Typed, FolderTyped
  <2>4. CASE req[r].kind = "put"
    <3>1. /\ created' = 1 /\ DOMAIN answers' = Ups \cup {NoUp}
          /\ req' = [req EXCEPT ![r] = NoRequest] /\ pc' = [pc EXCEPT ![r] = "idle"]
      BY <2>1, <2>2, <2>3, <2>4 DEF Owe, Answer
    <3>2. \A q \in Slots : ~Makes(q)' /\ pc'[q] # "replace"
      BY <1>1, <2>2, <2>3, <3>1 DEF Makes, Tells, NoRequest, StoreSafe
    <3> QED
      BY <1>2, <2>1, <3>1, <3>2 DEF StoreInv, StoreSafe
  <2>5. CASE req[r].kind # "put"
    <3>1. /\ created' = created /\ answers' = answers
          /\ req' = [req EXCEPT ![r].owes = "created", ![r].left = ents'[Upload(r)]]
          /\ pc' = [pc EXCEPT ![r] = "remove"]
      BY <2>1, <2>5 DEF Owe, Silent, clientVars, Go
    <3>2. \A q \in Slots : (Makes(q)' => q = r) /\ pc'[q] # "replace"
      BY <1>1, <2>2, <2>3, <3>1 DEF Makes, Tells, StoreSafe
    <3> QED
      BY <1>2, <2>1, <2>2, <2>3, <3>1, <3>2 DEF StoreInv, StoreSafe
  <2> QED
    BY <2>4, <2>5
<1> QED
  BY <1>1, <1>3, <1>4

(* Harm is counted, and nothing takes it back.                             *)
LEMMA HarmCounted ==
  ASSUME StoreInv, [Next]_vars
  PROVE  harms' \in Nat /\ (harms' = 0 => harms = 0 /\ ~Harm)
<1>1. harms \in Nat
  BY DEF StoreInv
<1>2. harms' = harms \/ (Harm /\ harms' = harms + 1)
  <2>1. ASSUME NEW r \in Slots, Request(r) PROVE harms' = harms
    BY <2>1 DEF Request, BeginStart, BeginPut, BeginPart, BeginComplete, BeginAbort, NameGone,
                Arrive
  <2>2. ASSUME NEW r \in Slots, Step(r) PROVE harms' = harms
    BY <2>2 DEF Step, LockPart, ReadManifest, WritePart, WriteDraft, RenameDraft, Judge, Look,
          Install, TakeKey, LockComplete, CheckParts, JoinParts, Sweep, StartUpload, ProbeLock,
          BeginRemoval, RemoveOne, RemoveDir, Quiet, SessionOnly, StoreOnly, countVars
  <2> QED
    BY <2>1, <2>2
       DEF Next, DropWaiting, DropHandler, Quiet, Age, Harm, Crash, vars, countVars
<1> QED
  BY <1>1, <1>2 DEF Harm

(* Every step keeps what clients are told true.                            *)
LEMMA NextStore ==
  ASSUME Typed, Typed', Verified, StoreInv, [Next]_vars
  PROVE  StoreInv'
<1>1. DOMAIN answers' = Ups \cup {NoUp} /\ harms' \in Nat
  BY HarmCounted DEF Typed, FolderTyped
<1>2. CASE harms' = 0
  <2>1. harms = 0 /\ ~Harm /\ StoreSafe
    BY <1>2, HarmCounted DEF StoreInv
  <2>2. ASSUME NEW r \in Slots, Request(r) PROVE StoreInv'
    BY <2>1, <2>2, RequestTruthful, TruthfulKeeps
  <2>3. ASSUME NEW r \in Slots, Step(r) PROVE StoreInv'
    BY <2>1, <2>3, StepTruthful, TruthfulKeeps, InstallKeeps
  <2>4. ASSUME NEW r \in Slots, DropWaiting(r) \/ DropHandler(r) PROVE StoreInv'
    <3>1. /\ asset' = asset /\ harms' = harms /\ answers' = answers /\ created' = created
      BY <2>4 DEF DropWaiting, DropHandler, Silent, clientVars, Quiet, countVars
    <3>2. /\ \A q \in Slots : pc'[q] = "replace" => pc[q] = "replace"
          /\ \A q \in Slots \ {r} : req'[q] = req[q]
          /\ req'[r].owes \in {req[r].owes, "none"}
      BY <2>4 DEF DropWaiting, DropHandler, NoRequest, Typed
    <3> QED
      BY <2>1, <3>1, <3>2, SilentTruthful, TruthfulKeeps
  <2>5. CASE UNCHANGED <<asset, harms, answers, created, pc, req>>
    BY <2>1, <2>5 DEF StoreInv, StoreSafe, Makes
  <2>6. CASE Crash
    <3>1. /\ asset' = asset /\ harms' = harms /\ answers' = answers /\ created' = created
          /\ \A q \in Slots : pc'[q] = "idle" /\ req'[q].owes = "none"
      BY <2>6 DEF Crash, Silent, clientVars, NoRequest
    <3> QED
      BY <2>1, <3>1 DEF StoreInv, StoreSafe, Makes, Tells
  <2> QED
    BY <2>1, <2>2, <2>3, <2>4, <2>5, <2>6
       DEF Next, Age, Silent, clientVars, vars, countVars
<1>3. CASE harms' # 0
  BY <1>1, <1>3 DEF StoreInv
<1> QED
  BY <1>2, <1>3

(* At the start nobody has been told anything of the store.                 *)
LEMMA InitStore == Init => StoreInv
BY DEF Init, StoreInv, StoreSafe, OfSent, Tells, Makes, NoRequest

(* What clients are told of the store is so, in every state.                *)
LEMMA StoreTrue == Spec => []StoreInv
<1>1. Init => Typed /\ Verified /\ StoreInv
  BY InitTyped, VerifiedInit, InitStore
<1>2. Typed /\ Verified /\ StoreInv /\ [Next]_vars => (Typed /\ Verified /\ StoreInv)'
  BY NextTyped, VerifiedStep, NextStore
<1> QED
  BY <1>1, <1>2, PTL DEF Spec

(* A client told by any request that the file is stored can rely on it,    *)
(* as long as nothing harms the file, whoever goes away and whenever the   *)
(* server dies (complete_asset_upload, replace_asset).                     *)
THEOREM AnswersAreTrue == Spec => []AnsweredMeansStored
<1>1. StoreInv => AnsweredMeansStored
  BY DEF StoreInv, StoreSafe, AnsweredMeansStored, Tells
<1> QED
  BY <1>1, StoreTrue, PTL

(* Of all uploads of the file, whole and in parts, one at most is told     *)
(* that it made it (complete_asset_upload, install_blob).                  *)
THEOREM MadeOnce == Spec => []CreatedOnce
<1>1. StoreInv => CreatedOnce
  BY DEF StoreInv, StoreSafe, CreatedOnce
<1> QED
  BY <1>1, StoreTrue, PTL

--------------------------------------------------------------------------------
(* What happens in the folders.                                            *)

(* An upload whose removal has not begun has its folder and manifest, and  *)
(* in them the parts that clients know stored.                             *)
FolderFits(u) ==
  /\ answers[u] # {} /\ u \notin doomed => u \in dirs /\ "manifest" \in ents[u]
  /\ u \in dirs => answers[u] # {}
  /\ acked[u] \subseteq Parts /\ (answers[u] = {} => acked[u] = {})
  /\ u \notin doomed => acked[u] \subseteq received[u] \cap ents[u]
  /\ "notFound" \in answers[u] => u \in doomed
  /\ "aborted" \in answers[u] => u \notin dirs

(* What a request knows of the folder it works in, which nobody removes.   *)
UnderLock == {"read", "write", "draft", "rename"}

Knows(r) ==
  LET u == Upload(r)
  IN /\ pc[r] \in UnderLock => locked[u] = r
     /\ pc[r] \in {"write", "draft", "rename"} => req[r].seen = received[u]
     /\ pc[r] \in {"draft", "rename"} => req[r].part \in ents[u]
     /\ pc[r] = "rename" => "tmp" \in ents[u] /\ draft[u] = req[r].seen \cup {req[r].part}
     /\ pc[r] = "join" => Parts \subseteq ents[u]

RequestFits(r) ==
  /\ req[r].kind = "part" => req[r].part \in Parts
  /\ pc[r] \in {"write", "draft", "rename"} => req[r].kind = "part"
  /\ req[r].kind = "put" => Upload(r) = NoUp
  /\ pc[r] = "sweep" => req[r].kind = "start" /\ Upload(r) = NoUp
  /\ HasUpload(r) => answers[Upload(r)] # {}
  /\ pc[r] = "remove" => Upload(r) \in doomed
  /\ req[r].owes = "notFound" => Upload(r) \in doomed \cup {NoUp}
  /\ Upload(r) \in doomed \/ Knows(r)

FolderInv ==
  /\ \A u \in Ups : FolderFits(u)
  /\ \A r \in Slots : RequestFits(r)

(* The files of a folder that requests rely on.                            *)
Kept == Parts \cup {"manifest", "tmp"}

(* A step that takes none of them away, but where a removal has begun.     *)
FoldersKept ==
  /\ doomed \subseteq doomed' /\ dirs' \subseteq dirs /\ dirs \ dirs' \subseteq doomed'
  /\ received' = received /\ draft' = draft
  /\ \A u \in Ups \ doomed' : ents[u] \cap Kept \subseteq ents'[u]

(* A lock is taken from its holder by nobody else.                         *)
LocksKept(r) ==
  \A q \in Slots \ {r}, u \in Ups \ doomed' : locked[u] = q => locked'[u] = q

(* The others' requests after a step of r.                                 *)
LEMMA OthersFit ==
  ASSUME Typed, FolderInv, NEW r \in Slots, Alone(r), LocksKept(r),
         doomed \subseteq doomed', \A u \in Ups : answers[u] \subseteq answers'[u],
         \A u \in Ups \ doomed' : answers[u] # {} =>
           /\ ents[u] \cap (Parts \cup {"manifest"}) \subseteq ents'[u]
           /\ \A q \in Slots \ {r} : locked[u] = q =>
                /\ received'[u] = received[u] /\ draft'[u] = draft[u]
                /\ "tmp" \in ents[u] => "tmp" \in ents'[u]
  PROVE  \A q \in Slots \ {r} : RequestFits(q)'
<1> TAKE q \in Slots \ {r}
<1>1. RequestFits(q) /\ pc'[q] = pc[q] /\ req'[q] = req[q]
  BY DEF FolderInv, Alone
<1>2. Upload(q)' = Upload(q) /\ HasUpload(q)' = HasUpload(q)
  BY <1>1 DEF Upload, HasUpload
<1>3. HasUpload(q) => Upload(q) \in Ups /\ answers[Upload(q)] # {}
  BY <1>1 DEF Typed, RequestFits
<1>4. Upload(q) \in doomed' \/ Knows(q)'
  <2> SUFFICES ASSUME Upload(q) \notin doomed' PROVE Knows(q)'
    OBVIOUS
  <2>1. Knows(q)
    BY <1>1 DEF RequestFits
  <2>2. pc[q] \in UnderLock \cup {"join"} => HasUpload(q)
    BY DEF UnderLock, HasUpload, OfUpload
  <2>3. CASE pc[q] \in UnderLock
    <3>1. /\ Upload(q) \in Ups \ doomed' /\ locked[Upload(q)] = q
          /\ answers[Upload(q)] # {}
      BY <1>3, <2>1, <2>2, <2>3 DEF Knows
    <3>2. /\ locked'[Upload(q)] = q
          /\ received'[Upload(q)] = received[Upload(q)] /\ draft'[Upload(q)] = draft[Upload(q)]
          /\ "tmp" \in ents[Upload(q)] => "tmp" \in ents'[Upload(q)]
          /\ ents[Upload(q)] \cap (Parts \cup {"manifest"}) \subseteq ents'[Upload(q)]
      BY <3>1 DEF LocksKept
    <3>3. pc[q] \in {"draft", "rename"} => req[q].part \in Parts
      BY <1>1 DEF RequestFits
    <3>4. pc[q] # "join"
      BY <2>3 DEF UnderLock
    <3> QED
      BY <1>1, <1>2, <2>1, <3>2, <3>3, <3>4 DEF Knows
  <2>4. CASE pc[q] = "join"
    <3>1. Upload(q) \in Ups \ doomed' /\ answers[Upload(q)] # {}
      BY <1>3, <2>2, <2>4
    <3>2. Parts \subseteq ents'[Upload(q)]
      BY <2>1, <2>4, <3>1 DEF Knows
    <3> QED
      BY <1>1, <1>2, <2>4, <3>2 DEF Knows, UnderLock
  <2>5. CASE pc[q] \notin UnderLock \cup {"join"}
    BY <1>1, <2>5 DEF Knows, UnderLock
  <2> QED
    BY <2>3, <2>4, <2>5
<1> QED
  BY <1>1, <1>2, <1>3, <1>4 DEF RequestFits

(* The folders after a step that answers nothing.                          *)
LEMMA FoldersStand ==
  ASSUME Typed, FolderInv, FoldersKept, answers' = answers, acked' = acked
  PROVE  \A u \in Ups : FolderFits(u)'
BY DEF FolderInv, FolderFits, FoldersKept, Kept

(* A step of r that answers nothing and takes nothing away.                *)
LEMMA QuietFits ==
  ASSUME Typed, FolderInv, NEW r \in Slots, Alone(r), LocksKept(r), FoldersKept,
         Silent, RequestFits(r)'
  PROVE  FolderInv'
<1>1. \A u \in Ups : FolderFits(u)'
  BY FoldersStand DEF Silent, clientVars
<1>2. \A q \in Slots \ {r} : RequestFits(q)'
  <2>1. /\ doomed \subseteq doomed' /\ \A u \in Ups : answers[u] \subseteq answers'[u]
        /\ \A u \in Ups \ doomed' : answers[u] # {} =>
             /\ ents[u] \cap (Parts \cup {"manifest"}) \subseteq ents'[u]
             /\ \A q \in Slots \ {r} : locked[u] = q =>
                  /\ received'[u] = received[u] /\ draft'[u] = draft[u]
                  /\ "tmp" \in ents[u] => "tmp" \in ents'[u]
    BY DEF FoldersKept, Kept, Silent, clientVars
  <2> QED
    BY <2>1, OthersFit
<1> QED
  BY <1>1, <1>2 DEF FolderInv

(* A request that has ended knows nothing.                                 *)
LEMMA IdleFits ==
  ASSUME NEW r, pc'[r] = "idle", req'[r] = NoRequest
  PROVE  RequestFits(r)'
BY DEF RequestFits, Knows, UnderLock, HasUpload, OfUpload, Storing, NoRequest, Upload

(* What an answer does besides ending its request.                         *)
LEMMA AnswerWrites ==
  ASSUME Typed, NEW r \in Slots, NEW a, Answer(r, a)
  PROVE  /\ Alone(r) /\ RequestFits(r)' /\ LocksKept(r)
         /\ \A u \in Ups : answers'[u] = IF u = Upload(r) THEN answers[u] \cup {a} ELSE answers[u]
         /\ a # "ok" => acked' = acked
<1>1. Alone(r) /\ pc'[r] = "idle" /\ req'[r] = NoRequest
  BY AnswerTyped
<1>2. RequestFits(r)'
  BY <1>1, IdleFits
<1>3. LocksKept(r)
  BY DEF Answer, Unlock, LocksKept
<1>4. \A u \in Ups : answers'[u] = IF u = Upload(r) THEN answers[u] \cup {a} ELSE answers[u]
  BY DEF Typed, FolderTyped, Answer
<1> QED
  BY <1>1, <1>2, <1>3, <1>4 DEF Answer

(* An answer other than that a part is stored.                             *)
LEMMA AnswerFits ==
  ASSUME Typed, FolderInv, FoldersKept, NEW r \in Slots, NEW a, Answer(r, a), a # "ok",
         HasUpload(r) \/ Upload(r) = NoUp,
         a = "notFound" => Upload(r) \in doomed' \cup {NoUp},
         a = "aborted" => Upload(r) \notin dirs'
  PROVE  FolderInv'
<1>1. /\ Alone(r) /\ RequestFits(r)' /\ LocksKept(r) /\ acked' = acked
      /\ \A u \in Ups : answers'[u] = IF u = Upload(r) THEN answers[u] \cup {a} ELSE answers[u]
  BY AnswerWrites
<1>2. \A q \in Slots \ {r} : RequestFits(q)'
  <2>1. /\ doomed \subseteq doomed' /\ \A u \in Ups : answers[u] \subseteq answers'[u]
        /\ \A u \in Ups \ doomed' : answers[u] # {} =>
             /\ ents[u] \cap (Parts \cup {"manifest"}) \subseteq ents'[u]
             /\ \A q \in Slots \ {r} : locked[u] = q =>
                  /\ received'[u] = received[u] /\ draft'[u] = draft[u]
                  /\ "tmp" \in ents[u] => "tmp" \in ents'[u]
    BY <1>1 DEF FoldersKept, Kept
  <2> QED
    BY <1>1, <2>1, OthersFit
<1>3. Upload(r) \in Ups => answers[Upload(r)] # {}
  BY UploadAssumption DEF FolderInv, RequestFits, UploadAssumption
<1>4. ASSUME NEW u \in Ups PROVE FolderFits(u)'
  <2>1. answers'[u] # {} => answers[u] # {}
    BY <1>1, <1>3
  <2>2. "notFound" \in answers'[u] => "notFound" \in answers[u] \/ u \in doomed'
    BY <1>1, UploadAssumption DEF UploadAssumption
  <2>3. "aborted" \in answers'[u] => "aborted" \in answers[u] \/ u \notin dirs'
    BY <1>1
  <2>4. answers[u] # {} => answers'[u] # {}
    BY <1>1
  <2> QED
    BY <1>1, <2>1, <2>2, <2>3, <2>4 DEF FolderInv, FolderFits, FoldersKept, Kept
<1> QED
  BY <1>1, <1>2, <1>4 DEF FolderInv

(* A step of r that answers nothing, and leaves every folder alone.        *)
Untouched ==
  UNCHANGED <<dirs, ents, received, draft, doomed, locked>>

(* No file goes and no lock changes hands.                                  *)
LEMMA UntouchedKeeps ==
  ASSUME Untouched
  PROVE  FoldersKept /\ \A r \in Slots : LocksKept(r)
BY DEF Untouched, FoldersKept, LocksKept

(* A request that arrives finds an upload that was told of, or gone.       *)
LEMMA RequestFolders ==
  ASSUME Typed, FolderInv, NEW r \in Slots, Request(r)
  PROVE  FolderInv'
<1>1. Untouched /\ pc[r] = "idle"
  BY DEF Request, BeginStart, BeginPut, BeginPart, BeginComplete, BeginAbort, NameGone,
         Arrive, sessionVars, lockVars, Untouched
<1>2. FoldersKept /\ LocksKept(r)
  BY <1>1, UntouchedKeeps
<1>3. Typed'
  BY RequestTyped
<1>4. ASSUME NEW q \in Asked, NEW p, req' = [req EXCEPT ![r] = q], Go(r, p), Silent,
             p \notin UnderLock \cup {"join", "remove"},
             q.kind = "part" => q.part \in Parts, q.kind = "put" => q.up = NoUp,
             p = "sweep" => q.kind = "start" /\ q.up = NoUp,
             p \in OfUpload \/ (p \in Storing /\ q.kind # "put") => answers[q.up] # {},
             q.owes # "notFound"
      PROVE  FolderInv'
  <2>1. pc'[r] = p /\ req'[r] = q
        /\ \A z \in Slots \ {r} : pc'[z] = pc[z] /\ req'[z] = req[z]
    BY <1>4 DEF Typed, Go
  <2>2. Alone(r)
    BY <1>3, <2>1 DEF Alone, Typed
  <2>3. RequestFits(r)'
    BY <1>4, <2>1
       DEF RequestFits, Knows, HasUpload, Upload, UnderLock, Silent, clientVars
  <2> QED
    BY <1>2, <1>4, <2>2, <2>3, QuietFits
<1>5. ASSUME UNCHANGED <<pc, req, acked>>,
             NEW u \in Ups \cup {NoUp}, NEW a, answers' = [answers EXCEPT ![u] = @ \cup {a}],
             a \in {"present", "notFound", "aborted"},
             u \in Ups => a # "present" /\ u \notin dirs /\ answers[u] # {}
      PROVE  FolderInv'
  <2>1. Alone(r) /\ \A z \in Ups : answers'[z] = IF z = u THEN answers[z] \cup {a} ELSE answers[z]
    BY <1>3, <1>5 DEF Alone, Typed, FolderTyped
  <2>2. ASSUME NEW z \in Ups PROVE FolderFits(z)'
    BY <1>1, <1>5, <2>1 DEF FolderInv, FolderFits, Untouched
  <2>3. RequestFits(r)'
    <3>1. RequestFits(r)
      BY DEF FolderInv
    <3> QED
      BY <1>1, <1>5, <3>1
         DEF RequestFits, Knows, HasUpload, OfUpload, Storing, Upload, UnderLock, Untouched
  <2>4. \A q \in Slots \ {r} : RequestFits(q)'
    <3>1. /\ doomed \subseteq doomed' /\ \A z \in Ups : answers[z] \subseteq answers'[z]
          /\ \A z \in Ups \ doomed' : answers[z] # {} =>
               /\ ents[z] \cap (Parts \cup {"manifest"}) \subseteq ents'[z]
               /\ \A q \in Slots \ {r} : locked[z] = q =>
                    /\ received'[z] = received[z] /\ draft'[z] = draft[z]
                    /\ "tmp" \in ents[z] => "tmp" \in ents'[z]
      BY <1>1, <2>1 DEF Untouched
    <3> QED
      BY <1>2, <2>1, <3>1, OthersFit
  <2> QED
    BY <2>2, <2>3, <2>4 DEF FolderInv
<1> USE NoRequestTyped
<1>6. CASE BeginStart(r)
  <2> DEFINE q == [NoRequest EXCEPT !.kind = "start", !.scan = dirs]
  <2>1. q \in Asked
    BY <1>6 DEF Asked, BeginStart, Arrive, Typed, FolderTyped
  <2>2. q.kind = "start" /\ q.up = NoUp /\ q.owes = "none"
    BY DEF NoRequest
  <2>3. req' = [req EXCEPT ![r] = q] /\ Go(r, "sweep") /\ Silent
    BY <1>6 DEF BeginStart
  <2> HIDE DEF q
  <2> QED
    BY <1>4, <2>1, <2>2, <2>3 DEF OfUpload, Storing, UnderLock
<1>7. ASSUME NEW b \in Bodies, BeginPut(r, b) PROVE FolderInv'
  <2>1. CASE asset = "right"
    <3>1. UNCHANGED <<pc, req, acked>> /\ answers' = [answers EXCEPT ![NoUp] = @ \cup {"present"}]
      BY <1>7, <2>1 DEF BeginPut
    <3> QED
      BY <1>5, <3>1, UploadAssumption DEF UploadAssumption
  <2>2. CASE asset # "right"
    <3> DEFINE q == [NoRequest EXCEPT !.kind = "put", !.right = b]
    <3>1. q \in Asked
      BY <1>7, UploadAssumption DEF Asked, BeginPut, Arrive, UploadAssumption
    <3>2. q.kind = "put" /\ q.up = NoUp /\ q.owes = "none"
      BY DEF NoRequest
    <3>3. req' = [req EXCEPT ![r] = q] /\ Go(r, "store") /\ Silent
      BY <1>7, <2>2 DEF BeginPut
    <3> HIDE DEF q
    <3> QED
      BY <1>4, <3>1, <3>2, <3>3 DEF OfUpload, Storing, UnderLock
  <2> QED
    BY <2>1, <2>2
<1>8. ASSUME NEW u \in Started, NEW p \in Parts, NEW b \in Bodies, BeginPart(r, u, p, b)
      PROVE  FolderInv'
  <2> DEFINE q == [NoRequest EXCEPT !.kind = "part", !.up = u, !.part = p, !.right = b]
  <2>1. q \in Asked
    BY <1>8, UploadAssumption
       DEF Asked, AnyPart, BeginPart, Arrive, Started, UploadAssumption
  <2>2. q.kind = "part" /\ q.part = p /\ q.up = u /\ q.owes = "none"
    BY DEF NoRequest
  <2>3. req' = [req EXCEPT ![r] = q] /\ Silent /\ (Go(r, "body") \/ Go(r, "judge"))
    BY <1>8 DEF BeginPart
  <2>4. answers[u] # {}
    BY DEF Started
  <2> HIDE DEF q
  <2> QED
    BY <1>4, <2>1, <2>2, <2>3, <2>4 DEF UnderLock
<1>9. ASSUME NEW u \in Started, BeginComplete(r, u) PROVE FolderInv'
  <2> DEFINE o == IF asset = "right" THEN "present" ELSE "none"
             q == [NoRequest EXCEPT !.kind = "complete", !.up = u, !.owes = o]
  <2>1. o \in {"present", "none"}
    OBVIOUS
  <2>2. req' = [req EXCEPT ![r] = q] /\ Silent /\ (Go(r, "abort") \/ Go(r, "key"))
    BY <1>9 DEF BeginComplete
  <2> HIDE DEF o
  <2>3. q \in Asked
    BY <1>9, <2>1 DEF Asked, BeginComplete, Arrive, Started
  <2>4. q.kind = "complete" /\ q.up = u /\ q.owes # "notFound"
    BY <2>1 DEF NoRequest
  <2>5. answers[u] # {}
    BY DEF Started
  <2> HIDE DEF q
  <2> QED
    BY <1>4, <2>2, <2>3, <2>4, <2>5 DEF UnderLock
<1>10. ASSUME NEW u \in Started, BeginAbort(r, u) PROVE FolderInv'
  <2> DEFINE q == [NoRequest EXCEPT !.kind = "abort", !.up = u]
  <2>1. q \in Asked
    BY <1>10 DEF Asked, BeginAbort, Arrive, Started
  <2>2. req' = [req EXCEPT ![r] = q] /\ Go(r, "abort") /\ Silent
    BY <1>10 DEF BeginAbort
  <2>3. q.kind = "abort" /\ q.up = u /\ q.owes = "none"
    BY DEF NoRequest
  <2>4. answers[u] # {}
    BY DEF Started
  <2> HIDE DEF q
  <2> QED
    BY <1>4, <2>1, <2>2, <2>3, <2>4 DEF UnderLock
<1>11. ASSUME NEW u \in Started, NEW k \in {"part", "abort"}, NameGone(r, k, u)
       PROVE  FolderInv'
  <2>1. u \in Ups /\ u \notin dirs /\ answers[u] # {} /\ UNCHANGED <<pc, req, acked>>
    BY <1>11 DEF NameGone, Started
  <2>2. PICK a \in {"aborted", "notFound"} : answers' = [answers EXCEPT ![u] = @ \cup {a}]
    BY <1>11 DEF NameGone
  <2> QED
    BY <1>5, <2>1, <2>2
<1> QED
  BY <1>6, <1>7, <1>8, <1>9, <1>10, <1>11 DEF Request

(* Files come into a folder; a lock file that is free may be taken.        *)
LEMMA FillKeeps ==
  ASSUME Typed, NEW r \in Slots, NEW u \in Ups, NEW E, ents[u] \subseteq E, Fill(u, E),
         UNCHANGED <<dirs, received, draft, doomed>>
  PROVE  FoldersKept
BY DEF Typed, FolderTyped, FoldersKept, Fill

(* A free lock has no other holder (lock_session).                          *)
LEMMA TakeKeeps ==
  ASSUME Typed, NEW r \in Slots, NEW u \in Ups, LockFree(u),
         locked' = [locked EXCEPT ![u] = r]
  PROVE  LocksKept(r)
<1>1. ASSUME NEW q \in Slots \ {r}, NEW z \in Ups, locked[z] = q PROVE locked'[z] = q
  <2>1. z # u
    BY <1>1, UploadAssumption DEF LockFree, UploadAssumption
  <2> QED
    BY <1>1, <2>1 DEF Typed, FolderTyped
<1> QED
  BY <1>1 DEF LocksKept

(* Without its folder or its manifest, an upload a request works on is one *)
(* whose removal has begun.                                                *)
LEMMA GoneDoomed ==
  ASSUME Typed, FolderInv, NEW r \in Slots, HasUpload(r)
  PROVE  /\ Upload(r) \in Ups /\ answers[Upload(r)] # {}
         /\ Upload(r) \notin dirs \/ "manifest" \notin Files(r) => Upload(r) \in doomed
BY DEF Typed, FolderInv, FolderFits, RequestFits, Files

(* A request that is answered, or goes on as it was, keeps the folders.    *)
LEMMA GoesOn ==
  ASSUME Typed, FolderInv, NEW r \in Slots, FoldersKept, LocksKept(r), Silent,
         NEW p, req' = req, Go(r, p), HasUpload(r) \/ (p \in Storing /\ pc[r] \in Storing),
         p \in OfUpload \cup Storing, p # "remove",
         p \in {"write", "draft", "rename"} => req[r].kind = "part",
         Upload(r) \in doomed' \/ Knows(r)'
  PROVE  FolderInv'
<1>1. /\ pc'[r] = p /\ req'[r] = req[r] /\ DOMAIN pc' = Slots
      /\ \A z \in Slots \ {r} : pc'[z] = pc[z] /\ req'[z] = req[z]
  BY DEF Typed, Go
<1>2. HasUpload(r)' => HasUpload(r)
  BY <1>1 DEF HasUpload, OfUpload, Storing
<1>3. Alone(r)
  BY <1>1, <1>2 DEF Alone, Typed, Upload
<1>4. RequestFits(r)
  BY DEF FolderInv
<1>5. doomed \subseteq doomed' /\ answers' = answers
  BY DEF FoldersKept, Silent, clientVars
<1>6. RequestFits(r)'
  BY <1>1, <1>2, <1>4, <1>5 DEF RequestFits, Upload, OfUpload, Storing
<1> QED
  BY <1>3, <1>6, QuietFits

(* A step in which a request of an upload writes down what it has read.    *)
LEMMA Notes ==
  ASSUME Typed, FolderInv, NEW r \in Slots, FoldersKept, LocksKept(r), Silent,
         NEW q \in Asked, NEW p, req' = [req EXCEPT ![r] = q], pc' = [pc EXCEPT ![r] = p],
         HasUpload(r), q.up = Upload(r), q.kind = req[r].kind, q.part = req[r].part,
         p \in {"write", "draft", "rename"} => req[r].kind = "part",
         p \notin {"sweep"}, p = "remove" => Upload(r) \in doomed',
         q.owes = "notFound" => q.owes = req[r].owes \/ Upload(r) \in doomed',
         Upload(r) \in doomed' \/ Knows(r)'
  PROVE  FolderInv'
<1>1. /\ pc'[r] = p /\ req'[r] = q /\ req' \in [Slots -> Asked] /\ DOMAIN pc' = Slots
      /\ \A z \in Slots \ {r} : pc'[z] = pc[z] /\ req'[z] = req[z]
  BY DEF Typed
<1>2. Upload(r) \in Ups /\ Upload(r)' = Upload(r)
  BY <1>1 DEF Typed, Upload
<1>3. Alone(r)
  BY <1>1, <1>2 DEF Alone
<1>4. RequestFits(r)
  BY DEF FolderInv
<1>5. doomed \subseteq doomed' /\ answers' = answers
  BY DEF FoldersKept, Silent, clientVars
<1>6. RequestFits(r)'
  BY <1>1, <1>2, <1>4, <1>5 DEF RequestFits
<1> QED
  BY <1>3, <1>6, QuietFits

(* The steps of lock_session, in a part's upload and in a completion.      *)
LEMMA LockFits ==
  ASSUME Typed, FolderInv, NEW r \in Slots, LockPart(r) \/ LockComplete(r)
  PROVE  FolderInv'
<1>1. /\ HasUpload(r) /\ LockSession(r, "read", "notFound") /\ SessionOnly
  BY DEF LockPart, LockComplete, HasUpload, OfUpload
<1>2. Upload(r) \in Ups /\ (Upload(r) \notin dirs => Upload(r) \in doomed)
  BY <1>1, GoneDoomed
<1>3. UNCHANGED <<dirs, received, draft, doomed>>
  BY <1>1 DEF SessionOnly
<1>4. CASE \E a \in {"notFound", "locked"} :
             Answer(r, a) /\ ents' = ents /\ (a = "notFound" => Upload(r) \notin dirs)
  <2>1. FoldersKept
    BY <1>3, <1>4 DEF FoldersKept
  <2> QED
    BY <1>1, <1>2, <1>3, <1>4, <2>1, AnswerFits
<1>5. CASE /\ LockFree(Upload(r)) /\ locked' = [locked EXCEPT ![Upload(r)] = r]
           /\ Fill(Upload(r), Files(r) \cup {"lock"})
           /\ Go(r, "read") /\ req' = req /\ Silent
  <2>1. FoldersKept
    <3>1. ents[Upload(r)] \subseteq Files(r) \cup {"lock"}
      BY DEF Files
    <3> QED
      BY <1>2, <1>3, <1>5, <3>1, FillKeeps
  <2>3. LocksKept(r)
    BY <1>2, <1>5, TakeKeeps
  <2>2. Knows(r)'
    BY <1>2, <1>5 DEF Knows, Upload, UnderLock, Go, Typed, FolderTyped
  <2> QED
    BY <1>1, <1>5, <2>1, <2>2, <2>3, GoesOn DEF OfUpload
<1> QED
  BY <1>1, <1>4, <1>5 DEF LockSession

(* An answer given without touching any folder.                            *)
LEMMA AnswerOnly ==
  ASSUME Typed, FolderInv, UNCHANGED <<dirs, ents, received, draft, doomed>>,
         NEW r \in Slots, NEW a, Answer(r, a), a # "ok", a # "aborted",
         HasUpload(r) \/ Upload(r) = NoUp,
         a = "notFound" => Upload(r) \in doomed \cup {NoUp}
  PROVE  FolderInv'
<1>1. FoldersKept
  BY DEF FoldersKept
<1> QED
  BY <1>1, AnswerFits

(* Reading the manifest, writing a part, and checking the parts.           *)
LEMMA ReadFits ==
  ASSUME Typed, FolderInv, NEW r \in Slots, ReadManifest(r)
  PROVE  FolderInv'
<1>1. HasUpload(r) /\ pc[r] = "read" /\ UNCHANGED <<dirs, ents, received, draft, doomed>>
  BY DEF ReadManifest, HasUpload, OfUpload, Quiet, sessionVars
<1>2. CASE "manifest" \notin Files(r) /\ Answer(r, "notFound")
  BY <1>1, <1>2, GoneDoomed, AnswerOnly
<1>3. CASE /\ req' = [req EXCEPT ![r].seen = received[Upload(r)]]
           /\ Go(r, IF req[r].kind = "part" THEN "write" ELSE "check")
           /\ UNCHANGED lockVars /\ Silent
  <2> DEFINE p == IF req[r].kind = "part" THEN "write" ELSE "check"
             q == [req[r] EXCEPT !.seen = received[Upload(r)]]
  <2>1. Upload(r) \in Ups /\ req[r] \in Asked
    BY <1>1, GoneDoomed DEF Typed
  <2>2. PICK S \in SUBSET AnyPart : S = received[Upload(r)]
    BY <2>1 DEF Typed, FolderTyped
  <2>3. q \in Asked
    BY <2>1, <2>2 DEF Asked
  <2>4. q.up = Upload(r) /\ q.kind = req[r].kind /\ q.part = req[r].part
        /\ q.owes = req[r].owes /\ q.seen = received[Upload(r)]
    BY <2>1 DEF Asked, Upload
  <2>5. req' = [req EXCEPT ![r] = q] /\ pc' = [pc EXCEPT ![r] = p] /\ p \in {"write", "check"}
        /\ (p = "write" => req[r].kind = "part")
    BY <1>3 DEF Go
  <2> HIDE DEF p, q
  <2>6. FoldersKept /\ LocksKept(r)
    BY <1>1, <1>3, UntouchedKeeps DEF Untouched, lockVars
  <2>7. Upload(r) \in doomed' \/ Knows(r)'
    <3>1. Upload(r) \in doomed \/ locked[Upload(r)] = r
      BY <1>1 DEF FolderInv, RequestFits, Knows, UnderLock
    <3>2. pc'[r] = p /\ req'[r] = q
      BY <2>5 DEF Typed
    <3> QED
      BY <1>1, <1>3, <2>4, <2>5, <3>1, <3>2 DEF Knows, Upload, lockVars
  <2> QED
    BY <1>1, <1>3, <2>3, <2>4, <2>5, <2>6, <2>7, Notes
<1> QED
  BY <1>1, <1>2, <1>3 DEF ReadManifest

(* A part is on disk before the manifest lists it (put_part).               *)
LEMMA WriteFits ==
  ASSUME Typed, FolderInv, NEW r \in Slots, WritePart(r)
  PROVE  FolderInv'
<1>1. HasUpload(r) /\ pc[r] = "write" /\ UNCHANGED <<dirs, received, draft, doomed>>
  BY DEF WritePart, HasUpload, OfUpload
<1>2. CASE Upload(r) \notin dirs /\ Answer(r, "notFound") /\ ents' = ents
  BY <1>1, <1>2, GoneDoomed, AnswerOnly
<1>3. CASE /\ Fill(Upload(r), Files(r) \cup {req[r].part})
           /\ Go(r, "draft") /\ UNCHANGED <<req, lockVars>> /\ Silent
  <2>1. Upload(r) \in Ups
    BY <1>1, GoneDoomed
  <2>2. FoldersKept
    <3>1. ents[Upload(r)] \subseteq Files(r) \cup {req[r].part}
      BY DEF Files
    <3> QED
      BY <1>1, <1>3, <2>1, <3>1, FillKeeps
  <2>3. LocksKept(r)
    BY <1>3 DEF LocksKept, lockVars
  <2>4. req[r].kind = "part" /\ (Upload(r) \in doomed \/ Knows(r))
    BY <1>1 DEF FolderInv, RequestFits
  <2>5. Upload(r) \in doomed' \/ Knows(r)'
    <3>1. /\ pc'[r] = "draft" /\ req' = req /\ locked' = locked
          /\ req[r].part \in ents'[Upload(r)]
      BY <1>3, <2>1 DEF Go, Fill, Typed, FolderTyped, lockVars
    <3> QED
      BY <1>1, <2>4, <3>1 DEF Knows, UnderLock, Upload
  <2> QED
    BY <1>1, <1>3, <2>2, <2>3, <2>4, <2>5, GoesOn DEF OfUpload
<1> QED
  BY <1>1, <1>2, <1>3 DEF WritePart

(* A completion joins only parts it found (assemble).                       *)
LEMMA CheckFits ==
  ASSUME Typed, FolderInv, NEW r \in Slots, CheckParts(r) \/ TakeKey(r) \/ Judge(r)
  PROVE  FolderInv'
<1>1. HasUpload(r) /\ UNCHANGED <<dirs, ents, received, draft, doomed>>
  BY DEF CheckParts, TakeKey, Judge, HasUpload, OfUpload, Quiet, sessionVars
<1>2. CASE \E a \in {"missing", "fault", "notFound"} :
             Answer(r, a) /\ (a = "notFound" => "manifest" \notin Files(r))
  BY <1>1, <1>2, GoneDoomed, AnswerOnly
<1>3. ASSUME NEW p \in {"join", "session"}, Go(r, p), req' = req, locked' = locked, Silent,
             p = "join" => Parts \subseteq Files(r)
      PROVE  FolderInv'
  <2>1. FoldersKept /\ LocksKept(r)
    BY <1>1, <1>3, UntouchedKeeps DEF Untouched
  <2>2. Knows(r)'
    BY <1>1, <1>3 DEF Knows, Upload, UnderLock, Go, Typed, Files
  <2> QED
    BY <1>1, <1>3, <2>1, <2>2, GoesOn DEF OfUpload
<1> QED
  BY <1>2, <1>3 DEF CheckParts, TakeKey, Judge, MissingPart, GoneOrFault, lockVars

(* The manifest is written anew under the folder's lock, and nobody else   *)
(* at work in the folder relies on the one before.                         *)
LEMMA DraftFits ==
  ASSUME Typed, FolderInv, NEW r \in Slots, WriteDraft(r)
  PROVE  FolderInv'
<1>1. HasUpload(r) /\ pc[r] = "draft" /\ UNCHANGED <<dirs, received, doomed>>
  BY DEF WriteDraft, HasUpload, OfUpload
<1>2. CASE Upload(r) \notin dirs /\ Answer(r, "notFound") /\ UNCHANGED <<ents, draft>>
  BY <1>1, <1>2, GoneDoomed, AnswerOnly
<1>3. CASE /\ Fill(Upload(r), Files(r) \cup {"tmp"})
           /\ draft' = [draft EXCEPT ![Upload(r)] = req[r].seen \cup {req[r].part}]
           /\ Go(r, "rename") /\ UNCHANGED <<req, lockVars>> /\ Silent
  <2>1. Upload(r) \in Ups /\ answers[Upload(r)] # {}
    BY <1>1, GoneDoomed
  <2>2. /\ \A u \in Ups : ents[u] \subseteq ents'[u]
        /\ "tmp" \in ents'[Upload(r)]
        /\ \A u \in Ups \ {Upload(r)} : draft'[u] = draft[u]
        /\ draft'[Upload(r)] = req[r].seen \cup {req[r].part}
    BY <1>3, <2>1 DEF Fill, Files, Typed, FolderTyped
  <2>3. req[r].kind = "part" /\ RequestFits(r) /\ (Upload(r) \in doomed \/ Knows(r))
    BY <1>1 DEF FolderInv, RequestFits
  <2>4. /\ pc'[r] = "rename" /\ req' = req /\ locked' = locked /\ answers' = answers
        /\ acked' = acked /\ DOMAIN pc' = Slots /\ \A q \in Slots \ {r} : pc'[q] = pc[q]
    BY <1>3 DEF Go, Typed, lockVars, Silent, clientVars
  <2>5. RequestFits(r)' /\ Alone(r)
    BY <1>1, <2>1, <2>2, <2>3, <2>4
       DEF RequestFits, Knows, UnderLock, Upload, HasUpload, OfUpload, Alone, Typed
  <2>6. \A u \in Ups : FolderFits(u)'
    BY <1>1, <2>2, <2>4 DEF FolderInv, FolderFits
  <2>7. \A q \in Slots \ {r} : RequestFits(q)'
    <3>1. Upload(r) \in doomed \/ locked[Upload(r)] = r
      BY <1>1, <2>3 DEF Knows, UnderLock
    <3>2. LocksKept(r)
      BY <2>4 DEF LocksKept
    <3>3. /\ doomed \subseteq doomed' /\ \A u \in Ups : answers[u] \subseteq answers'[u]
          /\ \A u \in Ups \ doomed' : answers[u] # {} =>
               /\ ents[u] \cap (Parts \cup {"manifest"}) \subseteq ents'[u]
               /\ \A q \in Slots \ {r} : locked[u] = q =>
                    /\ received'[u] = received[u] /\ draft'[u] = draft[u]
                    /\ "tmp" \in ents[u] => "tmp" \in ents'[u]
      BY <1>1, <2>2, <2>4, <3>1
    <3> QED
      BY <2>5, <3>2, <3>3, OthersFit
  <2> QED
    BY <2>5, <2>6, <2>7 DEF FolderInv
<1> QED
  BY <1>1, <1>2, <1>3 DEF WriteDraft

(* The renamed manifest lists what it listed, and the part acknowledged.    *)
LEMMA RenameFits ==
  ASSUME Typed, FolderInv, NEW r \in Slots, RenameDraft(r)
  PROVE  FolderInv'
<1>1. /\ HasUpload(r) /\ pc[r] = "rename" /\ UNCHANGED <<dirs, draft, doomed>>
      /\ Upload(r) \in Ups /\ answers[Upload(r)] # {}
  <2>1. HasUpload(r) /\ pc[r] = "rename" /\ UNCHANGED <<dirs, draft, doomed>>
    BY DEF RenameDraft, HasUpload, OfUpload
  <2> QED
    BY <2>1, GoneDoomed
<1>2. /\ RequestFits(r) /\ req[r].kind = "part" /\ req[r].part \in Parts
      /\ Upload(r) \in doomed \/ Knows(r)
  BY <1>1 DEF FolderInv, RequestFits
<1>3. CASE "tmp" \notin Files(r) /\ Answer(r, "notFound") /\ UNCHANGED <<ents, received>>
  <2>1. Upload(r) \in doomed
    BY <1>1, <1>2, <1>3 DEF Knows, Files
  <2> QED
    BY <1>1, <1>3, <2>1, AnswerOnly
<1>4. CASE /\ ents' = [ents EXCEPT ![Upload(r)] = (@ \ {"tmp"}) \cup {"manifest"}]
           /\ received' = [received EXCEPT ![Upload(r)] = draft[Upload(r)]]
           /\ Answer(r, "ok")
  <2>1. /\ Alone(r) /\ RequestFits(r)' /\ LocksKept(r)
        /\ \A u \in Ups :
             answers'[u] = IF u = Upload(r) THEN answers[u] \cup {"ok"} ELSE answers[u]
    BY <1>4, AnswerWrites
  <2>2. /\ \A u \in Ups \ {Upload(r)} :
             ents'[u] = ents[u] /\ received'[u] = received[u] /\ acked'[u] = acked[u]
        /\ acked'[Upload(r)] = acked[Upload(r)] \cup {req[r].part}
        /\ received'[Upload(r)] = draft[Upload(r)]
        /\ ents'[Upload(r)] = (ents[Upload(r)] \ {"tmp"}) \cup {"manifest"}
    BY <1>1, <1>4 DEF Answer, Typed, FolderTyped
  <2>3. "tmp" \notin Parts /\ "manifest" # "tmp"
    BY UploadAssumption DEF UploadAssumption
  <2>4. Upload(r) \in doomed \/
          /\ locked[Upload(r)] = r
          /\ draft[Upload(r)] = received[Upload(r)] \cup {req[r].part}
          /\ req[r].part \in ents[Upload(r)]
    BY <1>1, <1>2 DEF Knows, UnderLock
  <2>5. ASSUME NEW u \in Ups, u # Upload(r) PROVE FolderFits(u)'
    BY <1>1, <2>1, <2>2, <2>5 DEF FolderInv, FolderFits
  <2>6. ASSUME NEW u \in Ups, u = Upload(r) PROVE FolderFits(u)'
    <3>1. FolderFits(u)
      BY DEF FolderInv
    <3>2. acked'[u] \subseteq Parts
      BY <1>2, <2>2, <2>6, <3>1 DEF FolderFits
    <3>3. u \notin doomed => acked'[u] \subseteq received'[u] \cap ents'[u]
      BY <1>2, <2>2, <2>3, <2>4, <2>6, <3>1 DEF FolderFits
    <3>4. answers'[u] = answers[u] \cup {"ok"} /\ "manifest" \in ents'[u]
      BY <2>1, <2>2, <2>6
    <3>5. answers[u] # {}
      BY <1>1, <2>6
    <3> QED
      BY <1>1, <3>1, <3>2, <3>3, <3>4, <3>5 DEF FolderFits
  <2>7. \A q \in Slots \ {r} : RequestFits(q)'
    <3>1. /\ doomed \subseteq doomed' /\ \A u \in Ups : answers[u] \subseteq answers'[u]
          /\ \A u \in Ups \ doomed' : answers[u] # {} =>
               /\ ents[u] \cap (Parts \cup {"manifest"}) \subseteq ents'[u]
               /\ \A q \in Slots \ {r} : locked[u] = q =>
                    /\ received'[u] = received[u] /\ draft'[u] = draft[u]
                    /\ "tmp" \in ents[u] => "tmp" \in ents'[u]
      BY <1>1, <2>1, <2>2, <2>3, <2>4
    <3> QED
      BY <2>1, <3>1, OthersFit
  <2> QED
    BY <2>1, <2>5, <2>6, <2>7 DEF FolderInv
<1> QED
  BY <1>3, <1>4 DEF RenameDraft

(* What is owed is answered at once, or after a removal that begins now.   *)
LEMMA OweFits ==
  ASSUME Typed, FolderInv, NEW r \in Slots, pc[r] \in Storing,
         NEW a \in {"created", "present", "mismatch", "notFound", "fault"}, Owe(r, a),
         UNCHANGED <<dirs, received, draft>>, ents' = ents \/ Consume(r), Dooms(r),
         a = "notFound" => req[r].kind # "put",
         ents' \in [Ups -> SUBSET AnyName]
  PROVE  FolderInv'
<1>1. CASE req[r].kind = "put"
  <2>1. Answer(r, a) /\ ents' = ents /\ Upload(r) = NoUp /\ a # "notFound"
    BY <1>1 DEF Owe, Consume, FolderInv, RequestFits
  <2>2. doomed' = doomed
    BY <2>1 DEF Dooms, Answer, Typed
  <2> QED
    BY <2>1, <2>2, AnswerOnly
<1>2. CASE req[r].kind # "put"
  <2>1. HasUpload(r)
    BY <1>2 DEF HasUpload
  <2>2. Upload(r) \in Ups /\ (Upload(r) \notin dirs => Upload(r) \in doomed)
    BY <2>1, GoneDoomed
  <2>3. /\ req' = [req EXCEPT ![r].owes = a, ![r].left = ents'[Upload(r)]]
        /\ pc' = [pc EXCEPT ![r] = "remove"] /\ Unlock(r) /\ Silent
    BY <1>2 DEF Owe, Go
  <2>4. doomed' = doomed \cup ({Upload(r)} \cap dirs)
    BY <2>3 DEF Dooms, Typed
  <2>5. Upload(r) \in doomed' /\ doomed \subseteq doomed'
    BY <2>2, <2>4
  <2>6. \A u \in Ups \ {Upload(r)} : ents'[u] = ents[u]
    BY <1>2, <2>2 DEF Consume, Fill, Typed, FolderTyped
  <2>7. FoldersKept
    BY <2>5, <2>6 DEF FoldersKept
  <2>8. LocksKept(r)
    BY <2>3 DEF LocksKept, Unlock
  <2>9. PICK L \in SUBSET AnyName : L = ents'[Upload(r)]
    BY <2>2
  <2> DEFINE q == [req[r] EXCEPT !.owes = a, !.left = L]
  <2>10. q \in Asked
    BY DEF Typed, Asked
  <2>11. q.up = Upload(r) /\ q.kind = req[r].kind /\ q.part = req[r].part
    BY DEF Typed, Asked, Upload
  <2>12. req' = [req EXCEPT ![r] = q]
    BY <2>3, <2>9 DEF Typed
  <2> HIDE DEF q
  <2>13. PICK p : p = "remove"
    OBVIOUS
  <2>14. /\ pc' = [pc EXCEPT ![r] = p] /\ p \notin {"write", "draft", "rename"}
         /\ p \notin {"sweep"}
    BY <2>3, <2>13
  <2>15. Silent
    BY <2>3
  <2> QED
    BY <2>1, <2>5, <2>7, <2>8, <2>10, <2>11, <2>12, <2>14, <2>15, Notes
<1> QED
  BY <1>1, <1>2

(* The store steps leave the folder alone, or begin its removal.            *)
LEMMA StoreFits ==
  ASSUME Typed, FolderInv, NEW r \in Slots, Look(r) \/ Install(r)
  PROVE  FolderInv'
<1>1. /\ pc[r] \in Storing /\ UNCHANGED <<dirs, received, draft>> /\ Dooms(r)
      /\ ents' = ents \/ Consume(r)
  BY DEF Look, Install, StoreOnly, Storing
<1>2. ents' \in [Ups -> SUBSET AnyName]
  BY StepFolders DEF Step
<1>3. CASE \E a \in {"created", "present", "mismatch", "notFound", "fault"} :
             Owe(r, a) /\ (a = "notFound" => req[r].kind # "put")
  BY <1>1, <1>2, <1>3, OweFits
<1>4. CASE /\ Go(r, IF asset = "wrong" THEN "replace" ELSE "install")
           /\ UNCHANGED <<req, lockVars, ents>> /\ Silent
  <2>1. PICK p \in {"install", "replace"} : Go(r, p)
    BY <1>4
  <2>2. pc'[r] = p /\ req' = req
    BY <1>4, <2>1 DEF Go, Typed
  <2>3. Untouched
    BY <1>1, <1>4, <2>2 DEF Dooms, Untouched, lockVars
  <2>4. Knows(r)'
    BY <2>2 DEF Knows, UnderLock
  <2> QED
    BY <1>1, <1>4, <2>1, <2>3, <2>4, UntouchedKeeps, GoesOn DEF Storing
<1>5. CASE Look(r)
  BY <1>3, <1>4, <1>5 DEF Look, SourceThere, GoneOrFault
<1>6. CASE Install(r)
  BY <1>3, <1>6 DEF Install
<1> QED
  BY <1>5, <1>6

(* A part that is missing when it is joined was taken by a removal.         *)
LEMMA JoinFits ==
  ASSUME Typed, FolderInv, NEW r \in Slots, JoinParts(r)
  PROVE  FolderInv'
<1>1. /\ HasUpload(r) /\ pc[r] = "join" /\ UNCHANGED <<dirs, received, draft, doomed>>
      /\ Upload(r) \in Ups /\ (Upload(r) \notin dirs => Upload(r) \in doomed)
  <2>1. HasUpload(r) /\ pc[r] = "join" /\ UNCHANGED <<dirs, received, draft, doomed>>
    BY DEF JoinParts, SessionOnly, HasUpload, OfUpload
  <2> QED
    BY <2>1, GoneDoomed
<1>2. CASE Upload(r) \notin dirs /\ Answer(r, "notFound") /\ ents' = ents
  BY <1>1, <1>2, AnswerOnly
<1>3. ASSUME Fill(Upload(r), Files(r) \cup {"assembled"}) PROVE FoldersKept
  <2>1. ents[Upload(r)] \subseteq Files(r) \cup {"assembled"}
    BY DEF Files
  <2> QED
    BY <1>1, <1>3, <2>1, FillKeeps
<1>4. CASE /\ ~(Parts \subseteq Files(r)) /\ Answer(r, "notFound")
           /\ Fill(Upload(r), Files(r) \cup {"assembled"})
  <2>1. Upload(r) \in doomed
    BY <1>1, <1>4 DEF FolderInv, RequestFits, Knows, Files
  <2> QED
    BY <1>1, <1>3, <1>4, <2>1, AnswerFits
<1>5. CASE /\ Fill(Upload(r), Files(r) \cup {"assembled"})
           /\ req' = [req EXCEPT ![r].right = Parts \subseteq good[Upload(r)]]
           /\ Go(r, "store") /\ UNCHANGED lockVars /\ Silent
  <2>1. PICK b \in BOOLEAN : b = (Parts \subseteq good[Upload(r)])
    OBVIOUS
  <2> DEFINE q == [req[r] EXCEPT !.right = b]
  <2>2. q \in Asked
    BY DEF Typed, Asked
  <2>3. q.up = Upload(r) /\ q.kind = req[r].kind /\ q.part = req[r].part /\ q.owes = req[r].owes
    BY DEF Typed, Asked, Upload
  <2>4. req' = [req EXCEPT ![r] = q] /\ pc' = [pc EXCEPT ![r] = "store"]
    BY <1>5, <2>1 DEF Typed, Go
  <2> HIDE DEF q
  <2>5. LocksKept(r) /\ Knows(r)'
    BY <1>5, <2>4 DEF LocksKept, lockVars, Knows, UnderLock, Typed
  <2>6. PICK p : p = "store"
    OBVIOUS
  <2>7. /\ pc' = [pc EXCEPT ![r] = p] /\ p \notin {"write", "draft", "rename"}
        /\ p \notin {"sweep"} /\ p # "remove"
    BY <2>4, <2>6
  <2>8. FoldersKept
    BY <1>3, <1>5
  <2> QED
    BY <1>1, <1>5, <2>2, <2>3, <2>4, <2>5, <2>7, <2>8, Notes
<1> QED
  BY <1>2, <1>4, <1>5 DEF JoinParts

(* The sweep of abandoned uploads, and the start of a new one.             *)
LEMMA SweepFits ==
  ASSUME Typed, FolderInv, NEW r \in Slots, Sweep(r)
  PROVE  FolderInv'
<1>1. PICK u \in req[r].scan :
        \/ /\ u \in Abandoned
           /\ req' = [req EXCEPT ![r].scan = @ \ {u}, ![r].up = u, ![r].left = ents[u]]
           /\ doomed' = doomed \cup {u} /\ Go(r, "remove")
        \/ req' = [req EXCEPT ![r].scan = @ \ {u}] /\ UNCHANGED <<pc, doomed>>
  BY DEF Sweep
<1>2. /\ pc[r] = "sweep" /\ UNCHANGED <<dirs, ents, received, draft, locked>> /\ Silent
      /\ RequestFits(r) /\ req[r] \in Asked
  BY DEF Sweep, lockVars, FolderInv, Typed
<1>3. req[r].kind = "start" /\ Upload(r) = NoUp
  BY <1>2 DEF RequestFits
<1>4. FoldersKept /\ LocksKept(r) /\ Alone(r)
  <2>1. Alone(r)
    BY StepTyped DEF Step
  <2> QED
    BY <1>1, <1>2, <2>1 DEF FoldersKept, LocksKept
<1>5. RequestFits(r)'
  <2>1. CASE /\ u \in Abandoned
             /\ req' = [req EXCEPT ![r].scan = @ \ {u}, ![r].up = u, ![r].left = ents[u]]
             /\ doomed' = doomed \cup {u} /\ Go(r, "remove")
    <3>1. /\ req'[r].kind = "start" /\ req'[r].up = u /\ req'[r].owes = req[r].owes
          /\ pc'[r] = "remove"
      BY <1>2, <1>3, <2>1 DEF Typed, Asked, Go
    <3>2. answers[u] # {} /\ answers' = answers /\ u \in doomed'
      BY <1>2, <2>1 DEF FolderInv, FolderFits, Abandoned, Typed, FolderTyped, Silent, clientVars
    <3> QED
      BY <3>1, <3>2 DEF RequestFits, Upload
  <2>2. CASE req' = [req EXCEPT ![r].scan = @ \ {u}] /\ UNCHANGED <<pc, doomed>>
    <3>1. /\ req'[r].kind = "start" /\ req'[r].up = NoUp /\ req'[r].owes = req[r].owes
          /\ pc'[r] = "sweep"
      BY <1>2, <1>3, <2>2 DEF Typed, Asked, Upload
    <3> QED
      BY <1>2, <1>3, <2>2, <3>1
         DEF RequestFits, Knows, UnderLock, HasUpload, OfUpload, Storing, Upload
  <2> QED
    BY <1>1, <2>1, <2>2
<1> QED
  BY <1>2, <1>4, <1>5, QuietFits

(* A new upload has an id that nobody was told of (start_upload).           *)
LEMMA StartFits ==
  ASSUME Typed, FolderInv, NEW r \in Slots, StartUpload(r)
  PROVE  FolderInv'
<1>1. /\ Upload(r) = NoUp /\ UNCHANGED <<received, draft, doomed>>
  BY DEF StartUpload, FolderInv, RequestFits
<1>2. CASE (Answer(r, "present") \/ Answer(r, "none")) /\ UNCHANGED <<dirs, ents>>
  BY <1>1, <1>2, AnswerOnly
<1>3. ASSUME NEW u \in Unused, dirs' = dirs \cup {u}, Fill(u, {"manifest"}),
             answers' = [answers EXCEPT ![u] = @ \cup {"started"}],
             pc' = [pc EXCEPT ![r] = "idle"], req' = [req EXCEPT ![r] = NoRequest],
             UNCHANGED <<acked, lockVars>>
      PROVE  FolderInv'
  <2>1. /\ u \in Ups /\ answers[u] = {}
        /\ \A z \in Ups \ {u} : answers'[z] = answers[z] /\ ents'[z] = ents[z]
        /\ answers'[u] = {"started"} /\ ents'[u] = {"manifest"}
    BY <1>3 DEF Unused, Fill, Typed, FolderTyped
  <2>2. acked' = acked /\ locked' = locked
    BY <1>3 DEF lockVars
  <2>3. ASSUME NEW z \in Ups, z # u PROVE FolderFits(z)'
    BY <1>1, <1>3, <2>1, <2>2, <2>3 DEF FolderInv, FolderFits
  <2>4. ASSUME NEW z \in Ups, z = u PROVE FolderFits(z)'
    BY <1>1, <1>3, <2>1, <2>2, <2>4 DEF FolderInv, FolderFits
  <2>5. Alone(r)
    BY StepTyped DEF Step
  <2>6. RequestFits(r)'
    <3>1. pc'[r] = "idle" /\ req'[r] = NoRequest
      BY <1>3 DEF Typed
    <3> QED
      BY <3>1, IdleFits
  <2>7. \A q \in Slots \ {r} : RequestFits(q)'
    <3>1. LocksKept(r)
      BY <2>2 DEF LocksKept
    <3>2. /\ doomed \subseteq doomed' /\ \A z \in Ups : answers[z] \subseteq answers'[z]
          /\ \A z \in Ups \ doomed' : answers[z] # {} =>
               /\ ents[z] \cap (Parts \cup {"manifest"}) \subseteq ents'[z]
               /\ \A q \in Slots \ {r} : locked[z] = q =>
                    /\ received'[z] = received[z] /\ draft'[z] = draft[z]
                    /\ "tmp" \in ents[z] => "tmp" \in ents'[z]
      BY <1>1, <2>1
    <3> QED
      BY <2>5, <3>1, <3>2, OthersFit
  <2> QED
    BY <2>3, <2>4, <2>6, <2>7 DEF FolderInv
<1> QED
  BY <1>2, <1>3 DEF StartUpload

(* An abort, and the removal of a folder: an upload is doomed before any   *)
(* of its files goes.                                                      *)
LEMMA OutcomeFits ==
  ASSUME Typed, FolderInv, NEW r \in Slots, NEW a \in {"aborted", "locked"}
  PROVE  /\ Outcome(r, a) # "ok"
         /\ Outcome(r, a) = "notFound" => Upload(r) \in doomed \cup {NoUp}
         /\ Outcome(r, a) = "aborted" => a = "aborted"
<1>1. req[r].owes \in {"none", "created", "present", "mismatch", "notFound", "fault"}
  BY DEF Typed, Asked
<1>2. req[r].owes = "notFound" => Upload(r) \in doomed \cup {NoUp}
  BY DEF FolderInv, RequestFits
<1> QED
  BY <1>1, <1>2 DEF Outcome

(* The probe takes the lock, or answers what it saw (abort_upload).         *)
LEMMA ProbeFits ==
  ASSUME Typed, FolderInv, NEW r \in Slots, ProbeLock(r)
  PROVE  FolderInv'
<1>1. /\ HasUpload(r) /\ Upload(r) \in Ups /\ UNCHANGED <<dirs, received, draft, doomed>>
  <2>1. HasUpload(r) /\ UNCHANGED <<dirs, received, draft, doomed>>
    BY DEF ProbeLock, SessionOnly, HasUpload, OfUpload
  <2> QED
    BY <2>1, GoneDoomed
<1>2. ASSUME NEW a \in {"aborted", "locked"}, Answer(r, Outcome(r, a)), ents' = ents,
             a = "aborted" => Upload(r) \notin dirs
      PROVE  FolderInv'
  <2>1. FoldersKept
    BY <1>1, <1>2 DEF FoldersKept
  <2>2. PICK o : o = Outcome(r, a)
    OBVIOUS
  <2>3. /\ Answer(r, o) /\ o # "ok" /\ (o = "notFound" => Upload(r) \in doomed' \cup {NoUp})
        /\ (o = "aborted" => Upload(r) \notin dirs')
    BY <1>1, <1>2, <2>2, OutcomeFits
  <2> QED
    BY <1>1, <2>1, <2>3, AnswerFits
<1>3. CASE /\ LockFree(Upload(r)) /\ locked' = [locked EXCEPT ![Upload(r)] = r]
           /\ Fill(Upload(r), Files(r) \cup {"lock"})
           /\ Go(r, "probed") /\ req' = req /\ Silent
  <2>1. FoldersKept
    <3>1. ents[Upload(r)] \subseteq Files(r) \cup {"lock"}
      BY DEF Files
    <3> QED
      BY <1>1, <1>3, <3>1, FillKeeps
  <2>2. LocksKept(r)
    BY <1>1, <1>3, TakeKeeps
  <2>3. Knows(r)'
    BY <1>3 DEF Knows, UnderLock, Go, Typed
  <2> QED
    BY <1>1, <1>3, <2>1, <2>2, <2>3, GoesOn DEF OfUpload
<1> QED
  BY <1>2, <1>3 DEF ProbeLock

(* From here on the upload is doomed (remove_dir_all).                      *)
LEMMA BeginRemovalFits ==
  ASSUME Typed, FolderInv, NEW r \in Slots, BeginRemoval(r)
  PROVE  FolderInv'
<1>1. /\ HasUpload(r) /\ UNCHANGED <<dirs, ents, received, draft>>
      /\ Silent /\ Unlock(r) /\ doomed' = doomed \cup ({Upload(r)} \cap dirs)
      /\ req' = [req EXCEPT ![r].left = Files(r)] /\ pc' = [pc EXCEPT ![r] = "remove"]
  BY DEF BeginRemoval, HasUpload, OfUpload, Go
<1>2. Upload(r) \in Ups /\ Upload(r) \in doomed'
  BY <1>1, GoneDoomed
<1>3. FoldersKept /\ LocksKept(r)
  BY <1>1 DEF FoldersKept, LocksKept, Unlock
<1>4. PICK L \in SUBSET AnyName : L = Files(r)
  BY <1>2 DEF Typed, FolderTyped, Files
<1> DEFINE q == [req[r] EXCEPT !.left = L]
<1>5. q \in Asked
  BY DEF Typed, Asked
<1>6. q.up = Upload(r) /\ q.kind = req[r].kind /\ q.part = req[r].part /\ q.owes = req[r].owes
  BY DEF Typed, Asked, Upload
<1>7. req' = [req EXCEPT ![r] = q]
  BY <1>1, <1>4 DEF Typed
<1> HIDE DEF q
<1>8. PICK p : p = "remove"
  OBVIOUS
<1>9. /\ pc' = [pc EXCEPT ![r] = p] /\ p \notin {"write", "draft", "rename"}
      /\ p \notin {"sweep"}
  BY <1>1, <1>8
<1> QED
  BY <1>1, <1>2, <1>3, <1>5, <1>6, <1>7, <1>9, Notes

(* A removal takes files, the lock with them, of a doomed upload only.      *)
LEMMA RemoveOneFits ==
  ASSUME Typed, FolderInv, NEW r \in Slots, NEW e \in Names, RemoveOne(r, e)
  PROVE  FolderInv'
<1>1. /\ HasUpload(r) /\ pc[r] = "remove" /\ UNCHANGED <<dirs, received, draft, doomed, pc>>
      /\ Silent /\ Fill(Upload(r), Files(r) \ {e})
      /\ req' = [req EXCEPT ![r].left = @ \ {e}]
      /\ locked' \in {locked, [locked EXCEPT ![Upload(r)] = Nobody]}
  BY DEF RemoveOne, HasUpload, OfUpload
<1>2. RequestFits(r) /\ Upload(r) \in doomed /\ Upload(r) \in Ups /\ answers' = answers
  BY <1>1, GoneDoomed DEF FolderInv, RequestFits, Silent, clientVars
<1>3. FoldersKept
  BY <1>1, <1>2 DEF FoldersKept, Fill, Typed, FolderTyped
<1>4. LocksKept(r)
  BY <1>1, <1>2 DEF LocksKept, Typed, FolderTyped
<1>5. Alone(r)
  BY StepTyped DEF Step
<1>6. /\ req'[r].up = Upload(r) /\ req'[r].kind = req[r].kind /\ req'[r].part = req[r].part
      /\ req'[r].owes = req[r].owes
  BY <1>1 DEF Typed, Asked, Upload
<1>7. RequestFits(r)'
  BY <1>1, <1>2, <1>6 DEF RequestFits, HasUpload, Upload
<1> QED
  BY <1>1, <1>3, <1>4, <1>5, <1>7, QuietFits

(* "Aborted" is answered only once the folder is gone.                      *)
LEMMA RemoveDirFits ==
  ASSUME Typed, FolderInv, NEW r \in Slots, RemoveDir(r)
  PROVE  FolderInv'
<1>1. /\ HasUpload(r) /\ UNCHANGED <<ents, received, draft, doomed>>
      /\ dirs' = dirs \/ dirs' = dirs \ {Upload(r)}
  BY DEF RemoveDir, HasUpload, OfUpload
<1>2. Upload(r) \in doomed
  BY DEF RemoveDir, FolderInv, RequestFits
<1>3. FoldersKept
  BY <1>1, <1>2 DEF FoldersKept
<1>4. PICK a \in {"aborted", "locked"} :
        Removed(r, a) /\ (a = "aborted" => Upload(r) \notin dirs')
  BY DEF RemoveDir, NotEmptied
<1>5. CASE Answer(r, Outcome(r, a))
  <2>1. PICK o : o = Outcome(r, a)
    OBVIOUS
  <2>2. /\ Answer(r, o) /\ o # "ok" /\ (o = "notFound" => Upload(r) \in doomed' \cup {NoUp})
        /\ (o = "aborted" => Upload(r) \notin dirs')
    BY <1>1, <1>4, <1>5, <2>1, OutcomeFits
  <2> QED
    BY <1>1, <1>3, <2>2, AnswerFits
<1>6. CASE /\ req[r].kind = "start" /\ req' = [req EXCEPT ![r].up = NoUp, ![r].left = {}]
           /\ Go(r, "sweep") /\ UNCHANGED lockVars /\ Silent
  <2>1. /\ req'[r].up = NoUp /\ req'[r].kind = "start" /\ req'[r].owes = req[r].owes
        /\ pc'[r] = "sweep"
    BY <1>6 DEF Typed, Asked, Go
  <2>2. req[r].owes = "notFound" => NoUp \in doomed' \cup {NoUp}
    OBVIOUS
  <2>3. RequestFits(r)'
    BY <2>1 DEF RequestFits, Knows, UnderLock, HasUpload, OfUpload, Storing, Upload
  <2>4. Alone(r) /\ LocksKept(r)
    <3>1. Alone(r)
      BY StepTyped DEF Step
    <3> QED
      BY <1>6, <3>1 DEF LocksKept, lockVars
  <2> QED
    BY <1>3, <1>6, <2>3, <2>4, QuietFits
<1> QED
  BY <1>4, <1>5, <1>6 DEF Removed

(* Every step of a request that is at work.                                 *)
LEMMA StepFits ==
  ASSUME Typed, FolderInv, NEW r \in Slots, Step(r)
  PROVE  FolderInv'
BY LockFits, ReadFits, WriteFits, DraftFits, RenameFits, CheckFits, StoreFits, JoinFits,
   SweepFits, StartFits, ProbeFits, BeginRemovalFits, RemoveOneFits, RemoveDirFits DEF Step

(* Every step keeps the folders.                                           *)
LEMMA NextFits ==
  ASSUME Typed, FolderInv, [Next]_vars
  PROVE  FolderInv'
<1>1. ASSUME NEW r \in Slots, DropWaiting(r) PROVE FolderInv'
  <2>1. Untouched /\ Silent
    BY <1>1 DEF DropWaiting, Untouched, lockVars, Quiet, sessionVars
  <2>2. Alone(r) /\ pc'[r] = "idle" /\ req'[r] = NoRequest
    BY <1>1, NoRequestTyped DEF DropWaiting, Typed, Alone, HasUpload, OfUpload, Storing
  <2>3. RequestFits(r)'
    BY <2>2, IdleFits
  <2> QED
    BY <2>1, <2>2, <2>3, UntouchedKeeps, QuietFits
<1>2. CASE UNCHANGED <<dirs, ents, received, draft, doomed, locked, pc, req, answers, acked>>
  BY <1>2 DEF FolderInv, FolderFits, RequestFits, Knows, HasUpload, Upload
<1>3. CASE Crash
  <2>1. \A u \in Ups : FolderFits(u)'
    BY <1>3 DEF Crash, FolderInv, FolderFits, sessionVars, Silent, clientVars
  <2>2. \A r \in Slots : pc'[r] = "idle" /\ req'[r] = NoRequest
    BY <1>3 DEF Crash
  <2>3. \A r \in Slots : RequestFits(r)'
    BY <2>2, IdleFits
  <2> QED
    BY <2>1, <2>3 DEF FolderInv
<1>4. ASSUME NEW r \in Slots, DropHandler(r) PROVE FolderInv'
  BY <1>2, <1>4 DEF DropHandler, Silent, clientVars, Quiet, sessionVars
<1>5. ASSUME NEW u \in Ups, Age(u) PROVE FolderInv'
  BY <1>2, <1>5 DEF Age, Silent, clientVars, lockVars
<1>6. CASE Harm
  BY <1>2, <1>6 DEF Harm, Silent, clientVars, lockVars, sessionVars
<1>7. CASE UNCHANGED vars
  BY <1>2, <1>7 DEF vars, sessionVars, lockVars, clientVars
<1> QED
  BY <1>1, <1>3, <1>4, <1>5, <1>6, <1>7, RequestFolders, StepFits DEF Next

(* The uploads of an earlier server have their folders and their parts.     *)
LEMMA InitFits == Init => FolderInv
<1> SUFFICES ASSUME Init PROVE FolderInv
  OBVIOUS
<1>1. \A u \in Ups : FolderFits(u)
  BY UploadAssumption DEF Init, FolderFits, OfSent, UploadAssumption
<1>2. \A r \in Slots : RequestFits(r)
  BY DEF Init, RequestFits, Knows, UnderLock, HasUpload, OfUpload, Storing, NoRequest, Upload
<1> QED
  BY <1>1, <1>2 DEF FolderInv

(* The folders fit what clients were told, in every state.                 *)
LEMMA FoldersFit == Spec => []FolderInv
<1>1. Init => Typed /\ FolderInv
  BY InitTyped, InitFits
<1>2. Typed /\ FolderInv /\ [Next]_vars => (Typed /\ FolderInv)'
  BY NextTyped, NextFits
<1> QED
  BY <1>1, <1>2, PTL DEF Spec

(* A part a client was told is stored stays in the manifest and on disk    *)
(* until the upload's removal begins, however many requests work in the    *)
(* folder (ManifestLock).                                                  *)
THEOREM AckedPartsStay == Spec => []AckedPartsKept
<1>1. FolderInv => AckedPartsKept
  BY DEF FolderInv, FolderFits, AckedPartsKept
<1> QED
  BY <1>1, FoldersFit, PTL

(* Only an upload whose removal has begun is called gone (gone_if_removed, *)
(* assemble).                                                              *)
THEOREM GoneMeansGone == Spec => []GoneIsTrue
<1>1. FolderInv => GoneIsTrue
  BY DEF FolderInv, FolderFits, GoneIsTrue
<1> QED
  BY <1>1, FoldersFit, PTL

(* No request brings back an upload that a client was told is aborted      *)
(* (abort_upload).                                                         *)
THEOREM AbortedStaysGone == Spec => []AbortedIsGone
<1>1. FolderInv => AbortedIsGone
  BY DEF FolderInv, FolderFits, AbortedIsGone
<1> QED
  BY <1>1, FoldersFit, PTL

=============================================================================
