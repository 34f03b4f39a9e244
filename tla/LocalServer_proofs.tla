------------------------- MODULE LocalServer_proofs -------------------------
(***************************************************************************)
(* Every event changes the state of one window, by one of the functions    *)
(* that step is made of.  So the invariant speaks of one window's state a, *)
(* a lemma says of each function that it keeps it, and a lemma on actions  *)
(* brings them together.                                                   *)
(***************************************************************************)
EXTENDS LocalServer, FiniteSetTheorems, TLAPS

Asked(a) == \E s \in ProbeStages : a.probes[s] > 0

(* At most one probe is under way.                                         *)
OneAtMost(a) ==
  \A s, t \in ProbeStages :
    a.probes[s] > 0 /\ a.probes[t] > 0 => s = t /\ a.probes[s] = 1

Waiting == {"probing", "checking", "lost"}

Attended(a) ==
  /\ a.phase \in Waiting => Asked(a)
  /\ a.phase \in {"starting", "own"} => \E x \in a.watch : x.gen = a.gen

Accounted(a) ==
  a.server.stage \in Running =>
    /\ a.phase \in {"starting", "own"} /\ ~a.stopped
    /\ a.server.open = a.open
    /\ a.phase = "own" => a.server.stage = "listening"

(* A probe is under way only in the phases that wait for one.              *)
Single(a) == ~a.stopped => OneAtMost(a) /\ (a.phase \notin Waiting => ~Asked(a))

(* Only a server that listens says so.                                     *)
SaidTrue(a) == a.server.said => a.server.stage \in {"listening", "dead"}

(* A window that closed starts nothing any more.                           *)
StaysStopped(a) == a.stopped => a.phase \in {"idle", "port_taken", "failed"}

(* Watchers are of this generation or an earlier one, and the one that saw *)
(* the end of the present server has reaped it.                            *)
WatchersPast(a) ==
  \A x \in a.watch :
    x.gen <= a.gen /\ (x.stage = "joining" /\ x.gen = a.gen => a.server.stage = "none")

AppInv(a) ==
  /\ a \in AppType
  /\ Attended(a) /\ Accounted(a) /\ Single(a)
  /\ SaidTrue(a) /\ StaysStopped(a) /\ WatchersPast(a)

ServerInv ==
  /\ app \in [Windows -> AppType]
  /\ \A w \in Windows : AppInv(app[w])

--------------------------------------------------------------------------------
(* A server is started only where none runs and no probe is under way.     *)
MayStart(a) ==
  /\ a \in AppType /\ ~a.stopped /\ ~Asked(a)
  /\ a.server.stage \notin Running /\ SaidTrue(a) /\ WatchersPast(a)

LEMMA ProbeKeeps ==
  ASSUME NEW a \in AppType, ~Asked(a), a.phase \in Waiting, ~a.stopped,
         a.server.stage \notin Running, SaidTrue(a), WatchersPast(a)
  PROVE  AppInv(Probe(a))
<1> DEFINE b == Probe(a)
<1>1. /\ b = [a EXCEPT !.probes = [a.probes EXCEPT !["asking"] = a.probes["asking"] + 1]]
      /\ a.probes \in [ProbeStages -> Nat]
  BY DEF Probe, AppType
<1>2. \A s \in ProbeStages : a.probes[s] = 0
  BY <1>1 DEF Asked
<1>3. b \in AppType
  BY <1>1 DEF AppType, ProbeStages
<1>4. \A s \in ProbeStages : b.probes[s] = IF s = "asking" THEN 1 ELSE 0
  BY <1>1, <1>2 DEF AppType, ProbeStages
<1>5. /\ b.phase = a.phase /\ b.gen = a.gen /\ b.watch = a.watch
      /\ b.server = a.server /\ b.stopped = a.stopped
  BY <1>1 DEF AppType
<1>6. Attended(b) /\ Single(b)
  BY <1>4, <1>5 DEF Attended, Single, Asked, OneAtMost, Waiting, ProbeStages
<1>7. Accounted(b) /\ SaidTrue(b) /\ StaysStopped(b) /\ WatchersPast(b)
  BY <1>5 DEF Accounted, SaidTrue, StaysStopped, WatchersPast
<1>8. QED
  BY <1>3, <1>6, <1>7 DEF AppInv

LEMMA StartKeeps ==
  ASSUME NEW a, MayStart(a), NEW starting \in BOOLEAN
  PROVE  AppInv(Start(a, starting))
<1> DEFINE c == [a EXCEPT !.phase = "starting", !.open = a.wanted]
           b == Start(a, starting)
<1>1. a \in AppType /\ c \in AppType /\ b = Spawn(c, starting)
  BY DEF MayStart, AppType, Phases, Start
<1>2. /\ c.gen = a.gen /\ c.watch = a.watch /\ c.server = a.server
      /\ c.stopped = a.stopped /\ c.probes = a.probes /\ c.open = a.wanted
      /\ c.phase = "starting"
  BY <1>1 DEF AppType
<1>3. CASE starting
  <2>1. b = [c EXCEPT !.gen = @ + 1, !.server = Server("booting", c.open),
                      !.watch = @ \cup {Watcher(c.gen + 1)}]
    BY <1>1, <1>3 DEF Spawn
  <2>2. /\ Watcher(c.gen + 1) \in WatcherType /\ Watcher(c.gen + 1).gen = c.gen + 1
        /\ Watcher(c.gen + 1).stage = "watching"
        /\ Server("booting", c.open) \in ServerType
    BY <1>1 DEF Watcher, WatcherType, Server, ServerType, AppType, Running
  <2>3. b \in AppType
    <3>1. c.watch \cup {Watcher(c.gen + 1)} \in SUBSET WatcherType /\ c.gen + 1 \in Nat
      BY <1>1, <2>2 DEF AppType
    <3>2. QED
      BY <1>1, <2>1, <2>2, <3>1 DEF AppType
  <2>4. /\ b.gen = a.gen + 1 /\ b.watch = a.watch \cup {Watcher(a.gen + 1)}
        /\ b.server = Server("booting", b.open) /\ b.stopped = a.stopped
        /\ b.probes = a.probes /\ b.phase = "starting"
    BY <1>1, <1>2, <2>1 DEF AppType
  <2>5. ~Asked(b) /\ ~b.stopped
    BY <2>4 DEF MayStart, Asked
  <2>6. Attended(b) /\ Single(b) /\ StaysStopped(b)
    BY <2>2, <2>4, <2>5, <1>2 DEF Attended, Single, StaysStopped, Waiting, OneAtMost, Asked
  <2>7. Accounted(b) /\ SaidTrue(b)
    BY <2>4, <2>5 DEF Accounted, SaidTrue, Server
  <2>8. \A x \in a.watch : x.gen \in Nat /\ x.gen <= a.gen
    BY <1>1 DEF MayStart, WatchersPast, AppType, WatcherType
  <2>9. WatchersPast(b)
    BY <1>1, <1>2, <2>2, <2>4, <2>8 DEF WatchersPast, AppType
  <2>10. QED
    BY <2>3, <2>6, <2>7, <2>9 DEF AppInv
<1>4. CASE ~starting
  <2>1. b = [c EXCEPT !.phase = "failed"]
    BY <1>1, <1>4 DEF Spawn
  <2>2. b \in AppType
    BY <1>1, <2>1 DEF AppType, Phases
  <2>3. /\ b.gen = a.gen /\ b.watch = a.watch /\ b.server = a.server
        /\ b.stopped = a.stopped /\ b.probes = a.probes /\ b.phase = "failed"
    BY <1>1, <1>2, <2>1 DEF AppType
  <2>4. ~Asked(b) /\ SaidTrue(b) /\ WatchersPast(b) /\ b.server.stage \notin Running
    BY <2>3 DEF MayStart, Asked, SaidTrue, WatchersPast
  <2>5. Attended(b) /\ Single(b) /\ StaysStopped(b) /\ Accounted(b)
    BY <2>3, <2>4 DEF Attended, Single, StaysStopped, Waiting, OneAtMost, Asked, Accounted
  <2>6. QED
    BY <2>2, <2>4, <2>5 DEF AppInv
<1>5. QED
  BY <1>3, <1>4

LEMMA KillStops ==
  ASSUME NEW a, AppInv(a)
  PROVE  /\ Kill(a) \in AppType /\ Kill(a).server.stage = "none"
         /\ SaidTrue(Kill(a)) /\ WatchersPast(Kill(a))
         /\ Kill(a).stopped = a.stopped /\ Kill(a).probes = a.probes
         /\ Kill(a).phase = a.phase
<1> DEFINE b == Kill(a)
<1>1. NoServer \in ServerType /\ NoServer.stage = "none" /\ ~NoServer.said
  BY DEF NoServer, Server, ServerType
<1>2. a \in AppType /\ b = [a EXCEPT !.gen = a.gen + 1, !.server = NoServer]
  BY DEF AppInv, Kill
<1>3. b \in AppType
  <2>1. a.gen + 1 \in Nat
    BY <1>2 DEF AppType
  <2>2. QED
    BY <1>1, <1>2, <2>1 DEF AppType
<1>4. /\ b.gen = a.gen + 1 /\ b.watch = a.watch /\ b.server = NoServer
      /\ b.stopped = a.stopped /\ b.probes = a.probes /\ b.phase = a.phase
  BY <1>2 DEF AppType
<1>5. \A x \in a.watch : x.gen \in Nat /\ x.gen <= a.gen
  BY <1>2 DEF AppInv, WatchersPast, AppType, WatcherType
<1>6. WatchersPast(b)
  BY <1>1, <1>2, <1>4, <1>5 DEF WatchersPast, AppType
<1>7. QED
  BY <1>1, <1>3, <1>4, <1>6 DEF SaidTrue

(* What the person wants and how many jobs run is no part of the invariant. *)
LEMMA SettingsKeep ==
  ASSUME NEW a, AppInv(a), NEW open \in BOOLEAN, NEW n \in Nat
  PROVE  AppInv([a EXCEPT !.wanted = open]) /\ AppInv([a EXCEPT !.jobs = n])
<1>1. a \in AppType
  BY DEF AppInv
<1>2. ASSUME NEW b \in AppType, b.phase = a.phase, b.gen = a.gen, b.watch = a.watch,
             b.server = a.server, b.stopped = a.stopped, b.probes = a.probes,
             b.open = a.open
      PROVE  AppInv(b)
  BY <1>2 DEF AppInv, Attended, Accounted, Single, SaidTrue, StaysStopped,
              WatchersPast, Asked, OneAtMost
<1>3. AppInv([a EXCEPT !.wanted = open])
  <2>1. [a EXCEPT !.wanted = open] \in AppType
    BY <1>1 DEF AppType
  <2>2. QED
    BY <1>1, <1>2, <2>1 DEF AppType
<1>4. AppInv([a EXCEPT !.jobs = n])
  <2>1. [a EXCEPT !.jobs = n] \in AppType
    BY <1>1 DEF AppType
  <2>2. QED
    BY <1>1, <1>2, <2>1 DEF AppType
<1>5. QED
  BY <1>3, <1>4

LEMMA RestartKeeps ==
  ASSUME NEW a, AppInv(a), NEW starting \in BOOLEAN
  PROVE  AppInv(RestartIfWanted(a, starting))
<1>1. CASE Restarts(a)
  <2>1. a.phase \in {"starting", "own"} /\ a.stopped \in BOOLEAN
    BY <1>1 DEF Restarts, AppInv, AppType
  <2>2. ~a.stopped /\ ~Asked(a)
    BY <2>1 DEF AppInv, StaysStopped, Single, Waiting
  <2>3. MayStart(Kill(a))
    BY <2>2, KillStops DEF MayStart, Asked, Running
  <2>4. QED
    BY <1>1, <2>3, StartKeeps DEF RestartIfWanted
<1>2. CASE ~Restarts(a)
  BY <1>2 DEF RestartIfWanted
<1>3. QED
  BY <1>1, <1>2

(* A phase that neither waits nor has a server.                            *)
Resting(p) == p \in Phases \ (Waiting \cup {"starting", "own"})

LEMMA RestKeeps ==
  ASSUME NEW a \in AppType, NEW p, Resting(p), SaidTrue(a), WatchersPast(a),
         a.server.stage \notin Running,
         IF a.stopped THEN p \in {"idle", "port_taken", "failed"} ELSE ~Asked(a)
  PROVE  AppInv([a EXCEPT !.phase = p])
<1> DEFINE b == [a EXCEPT !.phase = p]
<1>1. b \in AppType
  BY DEF AppType, Resting
<1>2. /\ b.phase = p /\ b.gen = a.gen /\ b.watch = a.watch /\ b.server = a.server
      /\ b.stopped = a.stopped /\ b.probes = a.probes
  BY DEF AppType
<1>3. QED
  BY <1>1, <1>2 DEF AppInv, Attended, Accounted, Single, SaidTrue, StaysStopped,
                    WatchersPast, Asked, OneAtMost, Resting, Waiting

--------------------------------------------------------------------------------
(* The events, one after another.                                          *)

LEMMA RequestedKeeps ==
  ASSUME NEW a, AppInv(a), ~a.stopped, NEW open \in BOOLEAN, NEW starting \in BOOLEAN
  PROVE  AppInv(Requested(a, open, starting))
<1> DEFINE b == [a EXCEPT !.wanted = open]
           c == [b EXCEPT !.phase = "probing"]
           S == {"idle", "port_taken", "failed", "found", "checking"}
<1>1. AppInv(b) /\ a \in AppType /\ b \in AppType
  BY SettingsKeep, 0 \in Nat DEF AppInv
<1>2. CASE a.phase \in S
  <2>1. c \in AppType
    BY <1>1 DEF AppType, Phases
  <2>2. /\ c.phase = "probing" /\ c.gen = a.gen /\ c.watch = a.watch
        /\ c.server = a.server /\ c.stopped = a.stopped /\ c.probes = a.probes
    BY <1>1 DEF AppType
  <2>3. /\ c.server.stage \notin Running /\ SaidTrue(c) /\ WatchersPast(c)
        /\ ~c.stopped
    BY <1>2, <2>2 DEF AppInv, Accounted, SaidTrue, WatchersPast
  <2>4. CASE AsksAgain(a)
    <3>1. ~Asked(c)
      BY <1>2, <2>2, <2>4 DEF AsksAgain, AppInv, Single, Asked, Waiting
    <3>2. AppInv(Probe(c))
      BY <2>1, <2>2, <2>3, <3>1, ProbeKeeps DEF Waiting
    <3>3. QED
      BY <1>2, <2>4, <3>2 DEF Requested
  <2>5. CASE ~AsksAgain(a)
    <3>1. Asked(c) /\ OneAtMost(c)
      BY <2>2, <2>5 DEF AsksAgain, AppInv, Attended, Single, Asked, OneAtMost, Waiting
    <3>2. AppInv(c)
      BY <2>1, <2>2, <2>3, <3>1 DEF AppInv, Attended, Accounted, Single, StaysStopped,
                                    Waiting
    <3>3. QED
      BY <1>2, <2>5, <3>2 DEF Requested
  <2>6. QED
    BY <2>4, <2>5
<1>3. CASE a.phase \notin S
  BY <1>1, <1>3, RestartKeeps DEF Requested
<1>4. QED
  BY <1>2, <1>3

LEMMA CheckedKeeps ==
  ASSUME NEW a, AppInv(a), a.phase = "found"
  PROVE  AppInv(Checked(a))
<1> DEFINE c == [a EXCEPT !.phase = "checking"]
<1>1. a \in AppType /\ c \in AppType
  BY DEF AppInv, AppType, Phases
<1>2. /\ c.phase = "checking" /\ c.gen = a.gen /\ c.watch = a.watch
      /\ c.server = a.server /\ c.stopped = a.stopped /\ c.probes = a.probes
  BY <1>1 DEF AppType
<1>3. /\ c.server.stage \notin Running /\ SaidTrue(c) /\ WatchersPast(c)
      /\ ~c.stopped /\ ~Asked(c)
  BY <1>1, <1>2 DEF AppInv, Accounted, SaidTrue, WatchersPast, StaysStopped, Single,
                    Asked, Waiting
<1>4. AppInv(Probe(c))
  BY <1>1, <1>2, <1>3, ProbeKeeps DEF Waiting
<1>5. QED
  BY <1>4 DEF Checked

LEMMA StoppedKeeps ==
  ASSUME NEW a, AppInv(a)
  PROVE  AppInv([Stopped(a) EXCEPT !.stopped = TRUE])
<1> DEFINE K == Kill([a EXCEPT !.phase = "failed"])
<1>1. a \in AppType
  BY DEF AppInv
<1>2. ASSUME NEW b \in AppType, NEW p, Resting(p), p \in {"idle", "port_taken", "failed"},
             b.phase = p, SaidTrue(b), WatchersPast(b), b.server.stage \notin Running
      PROVE  AppInv([b EXCEPT !.stopped = TRUE])
  <2> DEFINE c == [b EXCEPT !.stopped = TRUE]
  <2>1. c \in AppType
    BY DEF AppType
  <2>2. /\ c.phase = p /\ c.gen = b.gen /\ c.watch = b.watch /\ c.server = b.server
        /\ c.stopped
    BY <1>2 DEF AppType
  <2>3. QED
    BY <1>2, <2>1, <2>2 DEF AppInv, Attended, Accounted, Single, SaidTrue, StaysStopped,
                            WatchersPast, Resting, Waiting
<1>3. CASE a.phase \in {"starting", "own"}
  <2>1. K = [Kill(a) EXCEPT !.phase = "failed"]
    BY <1>1 DEF Kill, AppType
  <2>2. K \in AppType
    BY <2>1, KillStops DEF AppType, Phases
  <2>3. /\ K.phase = "failed" /\ K.gen = Kill(a).gen /\ K.watch = Kill(a).watch
        /\ K.server = Kill(a).server
    BY <2>1, KillStops DEF AppType
  <2>4. SaidTrue(K) /\ WatchersPast(K) /\ K.server.stage \notin Running
    BY <2>3, KillStops DEF SaidTrue, WatchersPast, Running
  <2>5. AppInv([K EXCEPT !.stopped = TRUE])
    BY <1>2, <2>2, <2>3, <2>4 DEF Resting, Phases, Waiting
  <2>6. QED
    BY <1>3, <2>5 DEF Stopped
<1>4. CASE a.phase \in {"probing", "found", "checking", "lost"}
  <2> DEFINE b == [a EXCEPT !.phase = "idle"]
  <2>1. b \in AppType
    BY <1>1 DEF AppType, Phases
  <2>2. b.phase = "idle" /\ b.gen = a.gen /\ b.watch = a.watch /\ b.server = a.server
    BY <1>1 DEF AppType
  <2>3. SaidTrue(b) /\ WatchersPast(b) /\ b.server.stage \notin Running
    BY <1>4, <2>2 DEF AppInv, SaidTrue, WatchersPast, Accounted
  <2>4. AppInv([b EXCEPT !.stopped = TRUE])
    BY <1>2, <2>1, <2>2, <2>3 DEF Resting, Phases, Waiting
  <2>5. QED
    BY <1>4, <2>4 DEF Stopped
<1>5. CASE a.phase \notin {"starting", "own", "probing", "found", "checking", "lost"}
  <2>1. Resting(a.phase) /\ a.phase \in {"idle", "port_taken", "failed"}
    BY <1>1, <1>5 DEF AppType, Phases, Resting, Waiting
  <2>2. SaidTrue(a) /\ WatchersPast(a) /\ a.server.stage \notin Running
    BY <1>5 DEF AppInv, Accounted
  <2>3. Stopped(a) = a
    BY <1>5 DEF Stopped
  <2>4. QED
    BY <1>1, <1>2, <2>1, <2>2, <2>3
<1>6. QED
  BY <1>3, <1>4, <1>5

(* A probe's answer is used up before it is acted on.                      *)
LEMMA ReportKeeps ==
  ASSUME NEW a, AppInv(a), NEW answer \in Answers, a.probes[answer] > 0,
         NEW starting \in BOOLEAN
  PROVE  AppInv(Probed([a EXCEPT !.probes[answer] = @ - 1], answer, starting))
<1> DEFINE b == [a EXCEPT !.probes[answer] = @ - 1]
<1>1. /\ a \in AppType /\ answer \in ProbeStages /\ a.probes \in [ProbeStages -> Nat]
      /\ b = [a EXCEPT !.probes = [a.probes EXCEPT ![answer] = a.probes[answer] - 1]]
  BY DEF AppInv, AppType, Answers, ProbeStages
<1>2. a.probes[answer] - 1 \in Nat
  BY <1>1
<1>3. [a.probes EXCEPT ![answer] = a.probes[answer] - 1] \in [ProbeStages -> Nat]
  BY <1>1, <1>2
<1>4. b \in AppType
  BY <1>1, <1>3 DEF AppType
<1>5. /\ b.phase = a.phase /\ b.gen = a.gen /\ b.watch = a.watch /\ b.server = a.server
      /\ b.stopped = a.stopped /\ b.open = a.open
      /\ b.probes = [a.probes EXCEPT ![answer] = a.probes[answer] - 1]
  BY <1>1 DEF AppType
<1>6. /\ SaidTrue(b) /\ WatchersPast(b) /\ StaysStopped(b) /\ Accounted(b)
  BY <1>5 DEF AppInv, SaidTrue, WatchersPast, StaysStopped, Accounted
<1>7. ~a.stopped => a.phase \in Waiting /\ ~Asked(b)
  <2>1. SUFFICES ASSUME ~a.stopped PROVE a.phase \in Waiting /\ ~Asked(b)
    OBVIOUS
  <2>2. OneAtMost(a) /\ Asked(a) /\ a.phase \in Waiting
    BY <1>1, <2>1 DEF AppInv, Single, Asked
  <2>3. \A s \in ProbeStages : a.probes[s] > 0 => s = answer /\ a.probes[answer] = 1
    BY <1>1, <2>2 DEF OneAtMost
  <2>4. \A s \in ProbeStages : b.probes[s] > 0 => FALSE
    BY <1>1, <1>5, <2>3
  <2>5. QED
    BY <2>2, <2>4 DEF Asked
<1>8. CASE a.stopped
  <2>1. a.phase \in {"idle", "port_taken", "failed"}
    BY <1>8 DEF AppInv, StaysStopped
  <2>2. Probed(b, answer, starting) = b
    BY <1>5, <2>1 DEF Probed
  <2>3. AppInv(b)
    BY <1>4, <1>5, <1>6, <1>8, <2>1 DEF AppInv, Attended, Single, Waiting
  <2>4. QED
    BY <2>2, <2>3
<1>9. CASE ~a.stopped
  <2>1. /\ a.phase \in Waiting /\ ~Asked(b) /\ ~b.stopped
        /\ b.server.stage \notin Running
    BY <1>5, <1>6, <1>7, <1>9 DEF Accounted, Waiting
  <2>2. MayStart(b)
    BY <1>4, <1>6, <2>1 DEF MayStart
  <2>3. \A p : Resting(p) => AppInv([b EXCEPT !.phase = p])
    BY <1>4, <1>6, <2>1, RestKeeps
  <2>4. Resting("found") /\ Resting("port_taken") /\ Resting("failed")
    BY DEF Resting, Phases, Waiting
  <2>5. CASE answer = "crate"
    <3>1. Probed(b, answer, starting) = [b EXCEPT !.phase = "found"]
      BY <1>5, <2>1, <2>5 DEF Probed, Waiting
    <3>2. QED
      BY <2>3, <2>4, <3>1
  <2>6. CASE answer # "crate" /\ a.phase = "lost"
    <3>1. CASE AsksOn(b, answer)
      <4> DEFINE c == [b EXCEPT !.left = b.left - 1]
      <4>1. Probed(b, answer, starting) = Probe(c)
        BY <1>5, <2>6, <3>1 DEF Probed
      <4>2. b.left - 1 \in Nat
        BY <1>4, <3>1 DEF AsksOn, AppType
      <4>3. c \in AppType
        BY <1>4, <4>2 DEF AppType
      <4>4. /\ c.phase = "lost" /\ c.gen = b.gen /\ c.watch = b.watch
            /\ c.server = b.server /\ c.stopped = b.stopped /\ c.probes = b.probes
        BY <1>4, <1>5, <2>6 DEF AppType
      <4>5. /\ ~Asked(c) /\ SaidTrue(c) /\ WatchersPast(c) /\ ~c.stopped
            /\ c.server.stage \notin Running
        BY <1>6, <2>1, <4>4 DEF Asked, SaidTrue, WatchersPast
      <4>6. QED
        BY <4>1, <4>3, <4>4, <4>5, ProbeKeeps DEF Waiting
    <3>2. CASE ~AsksOn(b, answer)
      <4>1. Probed(b, answer, starting) = [b EXCEPT !.phase = "failed"]
        BY <1>5, <2>6, <3>2 DEF Probed
      <4>2. QED
        BY <2>3, <2>4, <4>1
    <3>3. QED
      BY <3>1, <3>2
  <2>7. CASE answer = "free" /\ a.phase \in {"probing", "checking"}
    <3>1. Probed(b, answer, starting) = Start(b, starting)
      BY <1>5, <2>7 DEF Probed
    <3>2. QED
      BY <2>2, <3>1, StartKeeps
  <2>8. CASE answer = "other" /\ a.phase \in {"probing", "checking"}
    <3>1. Probed(b, answer, starting) = [b EXCEPT !.phase = "port_taken"]
      BY <1>5, <2>8 DEF Probed
    <3>2. QED
      BY <2>3, <2>4, <3>1
  <2>9. QED
    BY <2>1, <2>5, <2>6, <2>7, <2>8 DEF Answers, Waiting
<1>10. QED
  BY <1>8, <1>9

(* A probe that only comes further is still one.                           *)
LEMMA ProbeMoveKeeps ==
  ASSUME NEW a, AppInv(a), NEW from \in ProbeStages, NEW to \in ProbeStages,
         from # to, a.probes[from] > 0
  PROVE  AppInv(ProbeMoves(a, from, to))
<1> DEFINE b == ProbeMoves(a, from, to)
           q == [s \in ProbeStages |-> CASE s = from -> a.probes[s] - 1
                                         [] s = to -> a.probes[s] + 1
                                         [] OTHER -> a.probes[s]]
<1>1. a \in AppType /\ a.probes \in [ProbeStages -> Nat]
  BY DEF AppInv, AppType
<1>2. q \in [ProbeStages -> Nat]
  BY <1>1
<1>3. b = [a EXCEPT !.probes = q]
  <2> DEFINE r == [a.probes EXCEPT ![from] = a.probes[from] - 1,
                                   ![to] = a.probes[to] + 1]
  <2>1. b = [a EXCEPT !.probes = r]
    BY <1>1 DEF ProbeMoves, AppType
  <2>2. r = q
    BY <1>1
  <2>3. QED
    BY <2>1, <2>2
<1>4. b \in AppType
  BY <1>1, <1>2, <1>3 DEF AppType
<1>5. /\ b.phase = a.phase /\ b.gen = a.gen /\ b.watch = a.watch /\ b.server = a.server
      /\ b.stopped = a.stopped /\ b.open = a.open /\ b.probes = q
  BY <1>1, <1>3 DEF AppType
<1>6. Asked(a) /\ Asked(b)
  <2>1. q[to] > 0
    BY <1>1
  <2>2. QED
    BY <1>5, <2>1 DEF Asked
<1>7. OneAtMost(a) => OneAtMost(b)
  <2>1. SUFFICES ASSUME OneAtMost(a),
                        NEW s \in ProbeStages, NEW t \in ProbeStages, q[s] > 0, q[t] > 0
                 PROVE  s = t /\ q[s] = 1
    BY <1>5 DEF OneAtMost
  <2>2. \A u \in ProbeStages : a.probes[u] > 0 => u = from /\ a.probes[from] = 1
    BY <2>1 DEF OneAtMost
  <2>3. \A u \in ProbeStages : q[u] = IF u = to THEN 1 ELSE 0
    BY <1>1, <2>2
  <2>4. QED
    BY <2>1, <2>3
<1>8. QED
  BY <1>4, <1>5, <1>6, <1>7 DEF AppInv, Attended, Accounted, Single, SaidTrue,
                                StaysStopped, WatchersPast

(* A watcher that leaves, its generation being over, is missed by nobody.  *)
LEMMA LeaveKeeps ==
  ASSUME NEW a, AppInv(a), NEW x \in a.watch, x.gen # a.gen
  PROVE  AppInv([a EXCEPT !.watch = @ \ {x}])
<1> DEFINE b == [a EXCEPT !.watch = a.watch \ {x}]
<1>1. a \in AppType /\ b \in AppType
  BY DEF AppInv, AppType
<1>2. /\ b.phase = a.phase /\ b.gen = a.gen /\ b.watch = a.watch \ {x}
      /\ b.server = a.server /\ b.stopped = a.stopped /\ b.open = a.open
      /\ b.probes = a.probes
  BY <1>1 DEF AppType
<1>3. QED
  BY <1>1, <1>2 DEF AppInv, Attended, Accounted, Single, SaidTrue, StaysStopped,
                    WatchersPast, Asked, OneAtMost

(* The server that exited is reaped by the watcher of its generation.      *)
LEMMA SeeExitKeeps ==
  ASSUME NEW a, AppInv(a), NEW x \in a.watch, x.gen = a.gen, NEW locked \in BOOLEAN
  PROVE  AppInv([a EXCEPT !.server = NoServer,
           !.watch = (@ \ {x}) \cup {[x EXCEPT !.stage = "joining", !.lockedOut = locked]}])
<1> DEFINE y == [x EXCEPT !.stage = "joining", !.lockedOut = locked]
           W == (a.watch \ {x}) \cup {y}
           b == [a EXCEPT !.server = NoServer, !.watch = W]
<1>1. a \in AppType /\ x \in WatcherType
  BY DEF AppInv, AppType
<1>2. y \in WatcherType /\ y.gen = x.gen
  BY <1>1 DEF WatcherType
<1>3. NoServer \in ServerType /\ NoServer.stage = "none" /\ ~NoServer.said
  BY DEF NoServer, Server, ServerType
<1>4. W \in SUBSET WatcherType
  BY <1>1, <1>2 DEF AppType
<1>5. b \in AppType
  BY <1>1, <1>3, <1>4 DEF AppType
<1>6. /\ b.phase = a.phase /\ b.gen = a.gen /\ b.watch = W
      /\ b.server = NoServer /\ b.stopped = a.stopped /\ b.open = a.open
      /\ b.probes = a.probes
  BY <1>1 DEF AppType
<1>7. /\ y \in b.watch /\ y.gen = b.gen
      /\ \A z \in b.watch : z \in a.watch \/ z = y
  BY <1>2, <1>6
<1>8. b.gen \in Nat /\ WatchersPast(b)
  BY <1>1, <1>3, <1>6, <1>7 DEF AppInv, WatchersPast, AppType
<1>9. QED
  BY <1>3, <1>5, <1>6, <1>7, <1>8 DEF AppInv, Attended, Accounted, Single, SaidTrue,
                                 StaysStopped, Asked, OneAtMost, Running

(* The exit is reported: by now the server is gone.                        *)
LEMMA ExitedKeeps ==
  ASSUME NEW a, AppInv(a), NEW x \in a.watch, x.stage = "joining", x.gen = a.gen
  PROVE  AppInv(ChildExited([a EXCEPT !.watch = @ \ {x}], x.lockedOut))
<1> DEFINE b == [a EXCEPT !.watch = a.watch \ {x}]
<1>1. a \in AppType /\ b \in AppType /\ x \in WatcherType
  BY DEF AppInv, AppType
<1>2. /\ b.phase = a.phase /\ b.gen = a.gen /\ b.watch = a.watch \ {x}
      /\ b.server = a.server /\ b.stopped = a.stopped /\ b.open = a.open
      /\ b.probes = a.probes /\ b.stopped \in BOOLEAN
  BY <1>1 DEF AppType
<1>3. /\ b.server.stage \notin Running /\ SaidTrue(b) /\ WatchersPast(b)
      /\ StaysStopped(b) /\ Single(b)
  BY <1>2 DEF AppInv, WatchersPast, Running, SaidTrue, StaysStopped, Single, Asked, OneAtMost
<1>4. CASE a.phase = "starting"
  <2> DEFINE n == IF x.lockedOut THEN LockedOutProbes ELSE 0
             c == [b EXCEPT !.phase = "lost", !.left = n]
  <2>1. n \in Nat
    BY BoundsAssumption
  <2>2. c \in AppType
    BY <1>1, <2>1 DEF AppType, Phases
  <2>3. /\ c.phase = "lost" /\ c.gen = b.gen /\ c.watch = b.watch
        /\ c.server = b.server /\ c.stopped = b.stopped /\ c.probes = b.probes
    BY <1>1 DEF AppType
  <2>4. ~c.stopped /\ ~Asked(c)
    BY <1>2, <1>3, <1>4, <2>3 DEF StaysStopped, Single, Asked, Waiting
  <2>5. AppInv(Probe(c))
    BY <1>3, <2>2, <2>3, <2>4, ProbeKeeps DEF SaidTrue, WatchersPast, Waiting
  <2>6. QED
    BY <1>2, <1>4, <2>5 DEF ChildExited
<1>5. CASE a.phase = "own"
  <2>1. ~b.stopped /\ ~Asked(b)
    BY <1>2, <1>3, <1>5 DEF StaysStopped, Single, Waiting
  <2>2. AppInv([b EXCEPT !.phase = "failed"])
    BY <1>1, <1>3, <2>1, RestKeeps DEF Resting, Phases, Waiting
  <2>3. QED
    BY <1>2, <1>5, <2>2 DEF ChildExited
<1>6. CASE a.phase \notin {"starting", "own"}
  <2>1. AppInv(b)
    BY <1>1, <1>2, <1>3, <1>6 DEF AppInv, Attended, Accounted, Asked
  <2>2. QED
    BY <1>2, <1>6, <2>1 DEF ChildExited
<1>7. QED
  BY <1>4, <1>5, <1>6

LEMMA ListeningKeeps ==
  ASSUME NEW a, AppInv(a), a.phase = "starting", a.server.stage \in Running, a.server.said
  PROVE  AppInv([a EXCEPT !.phase = "own"])
<1> DEFINE b == [a EXCEPT !.phase = "own"]
<1>1. a \in AppType /\ b \in AppType
  BY DEF AppInv, AppType, Phases
<1>2. /\ b.phase = "own" /\ b.gen = a.gen /\ b.watch = a.watch
      /\ b.server = a.server /\ b.stopped = a.stopped /\ b.open = a.open
      /\ b.probes = a.probes
  BY <1>1 DEF AppType
<1>3. a.server.stage = "listening"
  BY DEF AppInv, SaidTrue, Running
<1>4. QED
  BY <1>1, <1>2, <1>3 DEF AppInv, Attended, Accounted, Single, SaidTrue, StaysStopped,
                          WatchersPast, Asked, OneAtMost, Waiting

LEMMA DeadlineKeeps ==
  ASSUME NEW a, AppInv(a), a.phase = "starting"
  PROVE  AppInv(Kill([a EXCEPT !.phase = "failed"]))
<1>1. a \in AppType /\ ~a.stopped /\ ~Asked(a)
  BY DEF AppInv, AppType, StaysStopped, Single, Waiting
<1>2. Kill([a EXCEPT !.phase = "failed"]) = [Kill(a) EXCEPT !.phase = "failed"]
  BY <1>1 DEF Kill, AppType
<1>3. ~Kill(a).stopped /\ ~Asked(Kill(a)) /\ Kill(a).server.stage \notin Running
  BY <1>1, KillStops DEF Asked, Running
<1>4. QED
  BY <1>2, <1>3, KillStops, RestKeeps DEF Resting, Phases, Waiting

(* What a server may become without its window having a hand in it.        *)
Follows(s, t) ==
  /\ t \in ServerType /\ t.open = s.open /\ s.stage \in Running /\ t.stage # "none"
  /\ t.said => t.stage \in {"listening", "dead"}
  /\ s.stage = "listening" => t.stage \in {"listening", "dead"}

LEMMA ServerStepKeeps ==
  ASSUME NEW a, AppInv(a), NEW t, Follows(a.server, t)
  PROVE  AppInv([a EXCEPT !.server = t])
<1> DEFINE b == [a EXCEPT !.server = t]
<1>1. a \in AppType /\ b \in AppType
  BY DEF AppInv, AppType, Follows
<1>2. /\ b.phase = a.phase /\ b.gen = a.gen /\ b.watch = a.watch
      /\ b.server = t /\ b.stopped = a.stopped /\ b.open = a.open
      /\ b.probes = a.probes
  BY <1>1 DEF AppType
<1>3. a.server.stage # "none"
  BY DEF Follows, Running
<1>4. WatchersPast(b)
  BY <1>2, <1>3 DEF AppInv, WatchersPast
<1>5. Accounted(b)
  BY <1>2 DEF AppInv, Accounted, Follows, Running
<1>6. QED
  BY <1>1, <1>2, <1>4, <1>5 DEF AppInv, Attended, Single, SaidTrue, StaysStopped,
                                Asked, OneAtMost, Follows

LEMMA CountedOutKeeps ==
  ASSUME NEW a, AppInv(a), NEW starting \in BOOLEAN
  PROVE  AppInv(CountedOut(a, starting))
<1>1. a.jobs \in Nat
  BY DEF AppInv, AppType
<1>2. (IF a.jobs > 0 THEN a.jobs - 1 ELSE 0) \in Nat
  BY <1>1
<1>3. AppInv(Uncounted(a))
  BY <1>2, SettingsKeep, TRUE \in BOOLEAN DEF Uncounted
<1>4. QED
  BY <1>3, RestartKeeps DEF CountedOut

--------------------------------------------------------------------------------
(* From one window's state to the specification.                           *)

RestType ==
  /\ job \in [Windows -> [Jobs -> {"none", "starting", "running", "ending"}]]
  /\ foreign \in {"none", "program", "docker", "left"}
  /\ inputs \in Nat /\ starts \in Nat /\ crashes \in Nat /\ moves \in Nat

Inv == ServerInv /\ RestType

LEMMA WindowKeeps ==
  ASSUME ServerInv, NEW w \in Windows, NEW a, AppInv(a),
         app' = [app EXCEPT ![w] = a]
  PROVE  ServerInv'
BY DEF ServerInv, AppInv

LEMMA InitInv == Init => Inv
<1> SUFFICES ASSUME Init PROVE Inv
  OBVIOUS
<1> DEFINE a == [phase |-> "idle", open |-> FALSE, left |-> 0, wanted |-> FALSE,
                 jobs |-> 0, stopped |-> FALSE, gen |-> 0, server |-> NoServer,
                 watch |-> {}, probes |-> [s \in ProbeStages |-> 0]]
<1>1. app = [w \in Windows |-> a]
  BY DEF Init
<1>2. NoServer \in ServerType /\ NoServer.stage = "none" /\ ~NoServer.said
  BY DEF NoServer, Server, ServerType
<1>3. a \in AppType
  BY <1>2 DEF AppType, Phases
<1>4. ~Asked(a)
  BY DEF Asked
<1>5. AppInv(a)
  BY <1>2, <1>3, <1>4 DEF AppInv, Attended, Accounted, Single, SaidTrue, StaysStopped,
                          WatchersPast, OneAtMost, Asked, Waiting, Running
<1>6. ServerInv
  BY <1>1, <1>3, <1>5 DEF ServerInv
<1>7. RestType
  BY DEF Init, RestType
<1>8. QED
  BY <1>6, <1>7 DEF Inv

LEMMA InputKeeps ==
  ASSUME Inv, NEW w \in Windows, Request(w) \/ Configure(w) \/ Check(w) \/ Stop(w)
  PROVE  Inv'
<1>1. AppInv(app[w])
  BY DEF Inv, ServerInv
<1>2. CASE Request(w)
  <2>1. ~app[w].stopped /\ Input(w)
    BY <1>2 DEF Request, Input
  <2>2. PICK open \in BOOLEAN, starting \in BOOLEAN :
          app' = [app EXCEPT ![w] = Requested(app[w], open, starting)]
    BY <1>2 DEF Request
  <2>3. ServerInv'
    BY <1>1, <2>1, <2>2, RequestedKeeps, WindowKeeps DEF Inv
  <2>4. QED
    BY <2>1, <2>3 DEF Inv, RestType, Input
<1>3. CASE Configure(w)
  <2>1. Input(w)
    BY <1>3 DEF Configure
  <2>2. PICK open \in BOOLEAN, starting \in BOOLEAN :
          app' = [app EXCEPT ![w] = Configured(app[w], open, starting)]
    BY <1>3 DEF Configure
  <2>3. AppInv(Configured(app[w], open, starting))
    BY <1>1, SettingsKeep, RestartKeeps, 0 \in Nat DEF Configured
  <2>4. ServerInv'
    BY <2>2, <2>3, WindowKeeps DEF Inv
  <2>5. QED
    BY <2>1, <2>4 DEF Inv, RestType, Input
<1>4. CASE Check(w)
  <2>1. ServerInv'
    BY <1>1, <1>4, CheckedKeeps, WindowKeeps DEF Inv, Check
  <2>2. QED
    BY <1>4, <2>1 DEF Inv, RestType, Check
<1>5. CASE Stop(w)
  <2>1. Input(w) /\ app' = [app EXCEPT ![w] = [Stopped(app[w]) EXCEPT !.stopped = TRUE]]
    BY <1>5 DEF Stop
  <2>2. ServerInv'
    BY <1>1, <2>1, StoppedKeeps, WindowKeeps DEF Inv
  <2>3. QED
    BY <2>1, <2>2 DEF Inv, RestType, Input
<1>6. QED
  BY <1>2, <1>3, <1>4, <1>5

(* What App(w, a) leaves alone.                                            *)
LEMMA AppKeeps ==
  ASSUME Inv, NEW w \in Windows, NEW a, App(w, a), AppInv(a)
  PROVE  Inv'
BY WindowKeeps DEF App, Inv, RestType

LEMMA ProbeStepKeeps ==
  ASSUME Inv, NEW w \in Windows, Connect(w) \/ Hear(w) \/ Report(w)
  PROVE  Inv'
<1>1. AppInv(app[w])
  BY DEF Inv, ServerInv
<1>2. CASE Connect(w)
  <2>1. PICK to \in {"connected", "free"} : App(w, ProbeMoves(app[w], "asking", to))
    BY <1>2 DEF Connect
  <2>2. app[w].probes["asking"] > 0
    BY <1>2 DEF Connect
  <2>3. AppInv(ProbeMoves(app[w], "asking", to))
    BY <1>1, <2>2, ProbeMoveKeeps DEF ProbeStages, Answers
  <2>4. QED
    BY <2>1, <2>3, AppKeeps
<1>3. CASE Hear(w)
  <2>1. PICK to \in {"crate", "other"} : App(w, ProbeMoves(app[w], "connected", to))
    BY <1>3 DEF Hear
  <2>2. app[w].probes["connected"] > 0
    BY <1>3 DEF Hear
  <2>3. AppInv(ProbeMoves(app[w], "connected", to))
    BY <1>1, <2>2, ProbeMoveKeeps DEF ProbeStages, Answers
  <2>4. QED
    BY <2>1, <2>3, AppKeeps
<1>4. CASE Report(w)
  <2>1. PICK answer \in Answers, starting \in BOOLEAN :
          /\ app[w].probes[answer] > 0
          /\ App(w, Probed([app[w] EXCEPT !.probes[answer] = @ - 1], answer, starting))
    BY <1>4 DEF Report
  <2>2. AppInv(Probed([app[w] EXCEPT !.probes[answer] = @ - 1], answer, starting))
    BY <1>1, <2>1, ReportKeeps
  <2>3. QED
    BY <2>1, <2>2, AppKeeps
<1>5. QED
  BY <1>2, <1>3, <1>4

LEMMA WatchKeeps ==
  ASSUME Inv, NEW w \in Windows, Watch(w)
  PROVE  Inv'
<1> DEFINE a == app[w]
<1>1. AppInv(a) /\ a \in AppType
  BY DEF Inv, ServerInv
<1>2. PICK x \in a.watch : WatchStep(w, x)
  BY DEF Watch
<1>3. CASE SeeExit(w, x)
  <2>1. a.server.lockedOut \in BOOLEAN /\ x.gen = a.gen
    BY <1>1, <1>3 DEF AppType, ServerType, SeeExit
  <2>2. App(w, [a EXCEPT !.server = NoServer,
           !.watch = (@ \ {x}) \cup
             {[x EXCEPT !.stage = "joining", !.lockedOut = a.server.lockedOut]}])
    BY <1>3 DEF SeeExit
  <2>3. QED
    BY <1>1, <2>1, <2>2, SeeExitKeeps, AppKeeps
<1>4. CASE ReportExit(w, x)
  <2> DEFINE b == [a EXCEPT !.watch = @ \ {x}]
  <2>1. b.gen = a.gen
    BY <1>1 DEF AppType
  <2>2. CASE x.gen = a.gen
    <3>1. App(w, ChildExited(b, x.lockedOut)) /\ x.stage = "joining"
      BY <1>4, <2>1, <2>2 DEF ReportExit, Current
    <3>2. QED
      BY <1>1, <2>2, <3>1, ExitedKeeps, AppKeeps
  <2>3. CASE x.gen # a.gen
    <3>1. App(w, b)
      BY <1>4, <2>1, <2>3 DEF ReportExit, Current
    <3>2. QED
      BY <1>1, <2>3, <3>1, LeaveKeeps, AppKeeps
  <2>4. QED
    BY <2>2, <2>3
<1>5. CASE SeeListening(w, x)
  BY <1>1, <1>5, ListeningKeeps, AppKeeps DEF SeeListening
<1>6. CASE SeeDeadline(w, x)
  BY <1>1, <1>6, DeadlineKeeps, AppKeeps DEF SeeDeadline
<1>7. CASE Leave(w, x)
  BY <1>1, <1>7, LeaveKeeps, AppKeeps DEF Leave
<1>8. QED
  BY <1>2, <1>3, <1>4, <1>5, <1>6, <1>7 DEF WatchStep

LEMMA ServerKeeps ==
  ASSUME Inv, NEW w \in Windows, ServerStep(w) \/ Crash(w)
  PROVE  Inv'
<1> DEFINE s == app[w].server
<1>1. AppInv(app[w]) /\ s \in ServerType
  BY DEF Inv, ServerInv, AppType
<1>2. s.said => s.stage \in {"listening", "dead"}
  BY <1>1 DEF AppInv, SaidTrue
<1>3. ASSUME NEW t, ServerBecomes(w, t), Follows(s, t) PROVE Inv'
  BY <1>1, <1>3, ServerStepKeeps, AppKeeps DEF ServerBecomes
<1>4. s.stage \in Running => Follows(s, Dead(s))
  BY <1>1 DEF Follows, Dead, ServerType
<1>5. CASE TakeFolder(w)
  <2>1. s.stage = "booting" /\ ~s.said
    BY <1>2, <1>5 DEF TakeFolder
  <2>2. Follows(s, [Dead(s) EXCEPT !.lockedOut = TRUE]) /\ Follows(s, [s EXCEPT !.stage = "locked"])
    BY <1>1, <2>1 DEF Follows, Dead, ServerType, Running
  <2>3. QED
    BY <1>3, <1>5, <2>2 DEF TakeFolder
<1>6. CASE Bind(w)
  <2>1. s.stage = "locked" /\ ~s.said
    BY <1>2, <1>6 DEF Bind
  <2>2. Follows(s, Dead(s)) /\ Follows(s, [s EXCEPT !.stage = "listening"])
    BY <1>1, <2>1 DEF Follows, Dead, ServerType, Running
  <2>3. QED
    BY <1>3, <1>6, <2>2 DEF Bind
<1>7. CASE Say(w)
  <2>1. Follows(s, [s EXCEPT !.said = TRUE])
    BY <1>1, <1>7 DEF Say, Follows, ServerType, Running
  <2>2. QED
    BY <1>3, <1>7, <2>1 DEF Say
<1>8. CASE Crash(w)
  <2>1. s.stage \in Running /\ app' = [app EXCEPT ![w] = [app[w] EXCEPT !.server = Dead(s)]]
    BY <1>8 DEF Crash
  <2>2. AppInv([app[w] EXCEPT !.server = Dead(s)])
    BY <1>1, <1>4, <2>1, ServerStepKeeps
  <2>3. ServerInv'
    BY <2>1, <2>2, WindowKeeps DEF Inv
  <2>4. QED
    BY <1>8, <2>3 DEF Inv, RestType, Crash
<1>9. QED
  BY <1>5, <1>6, <1>7, <1>8 DEF ServerStep

LEMMA JobKeeps ==
  ASSUME Inv, NEW w \in Windows, NEW j \in Jobs, StartJob(w, j) \/ JobStep(w, j)
  PROVE  Inv'
<1>1. AppInv(app[w])
  BY DEF Inv, ServerInv
<1>2. \A stage \in {"none", "starting", "running", "ending"} :
        JobBecomes(w, j, stage) =>
          job' \in [Windows -> [Jobs -> {"none", "starting", "running", "ending"}]]
  BY DEF JobBecomes, Inv, RestType
<1>3. CASE StartJob(w, j)
  <2>1. ServerInv'
    BY <1>3 DEF StartJob, Inv, ServerInv
  <2>2. QED
    BY <1>2, <1>3, <2>1 DEF StartJob, Inv, RestType
<1>4. CASE SpawnJob(w, j)
  <2>1. app[w].jobs + 1 \in Nat
    BY <1>1 DEF AppInv, AppType
  <2>2. AppInv([app[w] EXCEPT !.jobs = app[w].jobs + 1])
    BY <1>1, <2>1, SettingsKeep, TRUE \in BOOLEAN
  <2>3. app' = [app EXCEPT ![w] = [app[w] EXCEPT !.jobs = app[w].jobs + 1]]
    BY <1>4 DEF SpawnJob
  <2>4. ServerInv'
    BY <2>2, <2>3, WindowKeeps DEF Inv
  <2>5. QED
    BY <1>2, <1>4, <2>4 DEF SpawnJob, Inv, RestType
<1>5. CASE EndJob(w, j)
  <2>1. ServerInv'
    BY <1>5 DEF EndJob, Inv, ServerInv
  <2>2. QED
    BY <1>2, <1>5, <2>1 DEF EndJob, Inv, RestType
<1>6. CASE JobEnded(w, j)
  <2>1. PICK starting \in BOOLEAN : app' = [app EXCEPT ![w] = CountedOut(app[w], starting)]
    BY <1>6 DEF JobEnded
  <2>2. ServerInv'
    BY <1>1, <2>1, CountedOutKeeps, WindowKeeps DEF Inv
  <2>3. QED
    BY <1>2, <1>6, <2>2 DEF JobEnded, Inv, RestType
<1>7. QED
  BY <1>3, <1>4, <1>5, <1>6 DEF JobStep

LEMMA NextKeeps == Inv /\ [Next]_vars => Inv'
<1> SUFFICES ASSUME Inv, [Next]_vars PROVE Inv'
  OBVIOUS
<1>1. CASE ForeignMoves
  BY <1>1 DEF ForeignMoves, Inv, ServerInv, RestType, AppInv
<1>2. CASE UNCHANGED vars
  BY <1>2 DEF vars, Inv, ServerInv, RestType, AppInv
<1>3. ASSUME NEW w \in Windows,
             \/ Request(w) \/ Configure(w) \/ Check(w) \/ Stop(w)
             \/ Connect(w) \/ Hear(w) \/ Report(w) \/ Watch(w)
             \/ ServerStep(w) \/ Crash(w)
             \/ \E j \in Jobs : StartJob(w, j) \/ JobStep(w, j)
      PROVE  Inv'
  BY <1>3, InputKeeps, ProbeStepKeeps, WatchKeeps, ServerKeeps, JobKeeps
<1>4. QED
  BY <1>1, <1>2, <1>3 DEF Next

LEMMA Invariance == Spec => []Inv
BY InitInv, NextKeeps, PTL DEF Spec

--------------------------------------------------------------------------------
(* Type correctness, for any windows, jobs and bounds.                     *)
THEOREM TypeCorrect == Spec => []TypeOK
<1>1. Inv => TypeOK
  BY DEF Inv, ServerInv, RestType, TypeOK
<1>2. QED
  BY <1>1, Invariance, PTL

(* Whatever the screens wait for, a probe or a watcher will report.        *)
THEOREM WaitsAreAttended == Spec => []WaitsAttended
<1>1. Inv => WaitsAttended
  BY DEF Inv, ServerInv, AppInv, Attended, Asked, Waiting, WaitsAttended
<1>2. QED
  BY <1>1, Invariance, PTL

(* A server that runs is the one its window speaks of.                     *)
THEOREM ServersAccounted == Spec => []ServerAccounted
<1>1. Inv => ServerAccounted
  BY DEF Inv, ServerInv, AppInv, Accounted, ServerAccounted
<1>2. QED
  BY <1>1, Invariance, PTL

(* No old answer about the address decides about a later question.         *)
THEOREM ProbesDoNotMeet == Spec => []OneProbe
<1>1. Inv => OneProbe
  BY DEF Inv, ServerInv, AppInv, Single, OneAtMost, OneProbe
<1>2. QED
  BY <1>1, Invariance, PTL

--------------------------------------------------------------------------------
(* The count of a window's jobs moves only with its jobs, and a ready      *)
(* server is started anew only at a count of zero.                         *)
Spares(a, b) ==
  /\ b.jobs = a.jobs
  /\ a.phase = "own" /\ b.phase = "starting" => a.jobs = 0

LEMMA SpawnSpares ==
  ASSUME NEW a \in AppType, NEW starting \in BOOLEAN
  PROVE  Start(a, starting).jobs = a.jobs
<1> DEFINE c == [a EXCEPT !.phase = "starting", !.open = a.wanted]
<1>1. c \in AppType /\ c.jobs = a.jobs
  BY DEF AppType, Phases
<1>2. CASE starting
  BY <1>1, <1>2 DEF Start, Spawn, AppType
<1>3. CASE ~starting
  BY <1>1, <1>3 DEF Start, Spawn, AppType
<1>4. QED
  BY <1>2, <1>3

LEMMA KillSpares ==
  ASSUME NEW a \in AppType
  PROVE  /\ Kill(a) \in AppType
         /\ Kill(a).jobs = a.jobs /\ Kill(a).phase = a.phase
<1>1. NoServer \in ServerType /\ a.gen + 1 \in Nat
  BY DEF NoServer, Server, ServerType, AppType
<1>2. Kill(a) = [a EXCEPT !.gen = a.gen + 1, !.server = NoServer]
  BY DEF Kill
<1>3. QED
  BY <1>1, <1>2 DEF AppType

LEMMA RestartSpares ==
  ASSUME NEW a \in AppType, NEW starting \in BOOLEAN
  PROVE  Spares(a, RestartIfWanted(a, starting))
<1>1. CASE Restarts(a)
  BY <1>1, KillSpares, SpawnSpares DEF RestartIfWanted, Restarts, Spares
<1>2. CASE ~Restarts(a)
  BY <1>2 DEF RestartIfWanted, Spares
<1>3. QED
  BY <1>1, <1>2

LEMMA ProbeSpares ==
  ASSUME NEW a \in AppType
  PROVE  Probe(a).jobs = a.jobs /\ Probe(a).phase = a.phase
BY DEF Probe, AppType

LEMMA RequestedSpares ==
  ASSUME NEW a \in AppType, NEW open \in BOOLEAN, NEW starting \in BOOLEAN
  PROVE  Spares(a, Requested(a, open, starting)) /\ Spares(a, Configured(a, open, starting))
<1> DEFINE b == [a EXCEPT !.wanted = open]
           c == [b EXCEPT !.phase = "probing"]
<1>1. /\ b \in AppType /\ b.jobs = a.jobs /\ b.phase = a.phase
      /\ c \in AppType /\ c.jobs = a.jobs /\ c.phase = "probing"
  BY DEF AppType, Phases
<1>2. Spares(a, RestartIfWanted(b, starting))
  <2> HIDE DEF b
  <2>1. QED
    BY <1>1, RestartSpares DEF Spares
<1>3. Spares(a, c) /\ Spares(a, Probe(c))
  <2> HIDE DEF c
  <2>1. QED
    BY <1>1, ProbeSpares DEF Spares
<1>4. QED
  BY <1>2, <1>3 DEF Requested, Configured


LEMMA ReportSpares ==
  ASSUME NEW a \in AppType, NEW answer \in Answers, NEW starting \in BOOLEAN,
         a.probes[answer] > 0
  PROVE  Spares(a, Probed([a EXCEPT !.probes[answer] = @ - 1], answer, starting))
<1> DEFINE b == [a EXCEPT !.probes[answer] = @ - 1]
<1> SUFFICES Spares(a, Probed(b, answer, starting))
  OBVIOUS
<1>1. b \in AppType /\ b.jobs = a.jobs /\ b.phase = a.phase
  <2>1. /\ b = [a EXCEPT !.probes = [a.probes EXCEPT ![answer] = a.probes[answer] - 1]]
        /\ a.probes \in [ProbeStages -> Nat] /\ a.probes[answer] - 1 \in Nat
    BY DEF AppType, ProbeStages
  <2>2. [a.probes EXCEPT ![answer] = a.probes[answer] - 1] \in [ProbeStages -> Nat]
    BY <2>1
  <2>3. QED
    BY <2>1, <2>2 DEF AppType
<1>2. CASE a.phase \in {"probing", "checking", "lost"}
  <2>1. Spares(a, Probed(b, answer, starting)) <=> Probed(b, answer, starting).jobs = b.jobs
    BY <1>1, <1>2 DEF Spares
  <2> HIDE DEF b
  <2>2. Start(b, starting).jobs = b.jobs
    BY <1>1, SpawnSpares
  <2>3. Probe([b EXCEPT !.left = @ - 1]).jobs = b.jobs
    BY <1>1 DEF AppType, Probe
  <2>4. /\ [b EXCEPT !.phase = "found"].jobs = b.jobs
        /\ [b EXCEPT !.phase = "port_taken"].jobs = b.jobs
        /\ [b EXCEPT !.phase = "failed"].jobs = b.jobs
    BY <1>1 DEF AppType
  <2>5. Probed(b, answer, starting).jobs = b.jobs
    BY <2>2, <2>3, <2>4 DEF Probed
  <2>6. QED
    BY <2>1, <2>5
<1>3. CASE a.phase \notin {"probing", "checking", "lost"}
  <2> HIDE DEF b
  <2>1. Probed(b, answer, starting) = b
    BY <1>1, <1>3 DEF Probed
  <2>2. QED
    BY <1>1, <2>1 DEF Spares
<1>4. QED
  BY <1>2, <1>3

LEMMA ExitSpares ==
  ASSUME NEW a \in AppType, NEW x, NEW lockedOut
  PROVE  /\ Spares(a, [a EXCEPT !.watch = @ \ {x}])
         /\ Spares(a, ChildExited([a EXCEPT !.watch = @ \ {x}], lockedOut))
<1> DEFINE b == [a EXCEPT !.watch = @ \ {x}]
<1>1. b.jobs = a.jobs /\ b.phase = a.phase
  BY DEF AppType
<1>2. \A n : Probe([b EXCEPT !.phase = "lost", !.left = n]).jobs = b.jobs
  BY DEF AppType, Probe
<1>3. \A n : Probe([b EXCEPT !.phase = "lost", !.left = n]).phase = "lost"
  BY DEF AppType, Probe
<1>4. [b EXCEPT !.phase = "failed"].jobs = b.jobs /\ [b EXCEPT !.phase = "failed"].phase = "failed"
  BY DEF AppType
<1> HIDE DEF b
<1>5. Spares(a, ChildExited(b, lockedOut))
  BY <1>1, <1>2, <1>3, <1>4 DEF ChildExited, Spares
<1>6. QED
  BY <1>1, <1>5 DEF Spares, b


(* Every event but those of the jobs themselves.                           *)
LEMMA EventSpares ==
  ASSUME Inv, NEW w \in Windows,
         \/ Request(w) \/ Configure(w) \/ Check(w) \/ Stop(w)
         \/ Connect(w) \/ Hear(w) \/ Report(w) \/ Watch(w)
         \/ ServerStep(w) \/ Crash(w)
  PROVE  /\ \A v \in Windows : Spares(app[v], app'[v])
         /\ job' = job
<1> DEFINE a == app[w]
<1>1. app \in [Windows -> AppType] /\ a \in AppType
  BY DEF Inv, ServerInv
<1>2. ASSUME NEW b, app' = [app EXCEPT ![w] = b], Spares(a, b)
      PROVE  \A v \in Windows : Spares(app[v], app'[v])
  BY <1>1, <1>2 DEF Spares
<1>3. ASSUME NEW b, App(w, b), Spares(a, b)
      PROVE  (\A v \in Windows : Spares(app[v], app'[v])) /\ job' = job
  BY <1>2, <1>3 DEF App
<1>4. CASE Request(w) \/ Configure(w)
  <2>1. PICK open \in BOOLEAN, starting \in BOOLEAN :
          \/ app' = [app EXCEPT ![w] = Requested(a, open, starting)]
          \/ app' = [app EXCEPT ![w] = Configured(a, open, starting)]
    BY <1>4 DEF Request, Configure
  <2>2. job' = job
    BY <1>4 DEF Request, Configure, Input
  <2>3. QED
    BY <1>1, <1>2, <2>1, <2>2, RequestedSpares
<1>5. CASE Check(w)
  <2>1. a.phase = "found" /\ app' = [app EXCEPT ![w] = Checked(a)] /\ job' = job
    BY <1>5 DEF Check
  <2>2. [a EXCEPT !.phase = "checking"] \in AppType
    BY <1>1 DEF AppType, Phases
  <2>3. Checked(a).jobs = a.jobs
    BY <1>1, <2>1, <2>2, ProbeSpares DEF Checked, AppType
  <2>4. Spares(a, Checked(a))
    BY <2>1, <2>3 DEF Spares
  <2>5. QED
    BY <1>2, <2>1, <2>4
<1>6. CASE Stop(w)
  <2> DEFINE b == [Stopped(a) EXCEPT !.stopped = TRUE]
  <2>1. app' = [app EXCEPT ![w] = b] /\ job' = job
    BY <1>6 DEF Stop, Input
  <2>2. CASE a.phase \in {"starting", "own"}
    <3>1. [a EXCEPT !.phase = "failed"] \in AppType
      BY <1>1 DEF AppType, Phases
    <3>2. /\ Stopped(a) \in AppType /\ Stopped(a).jobs = a.jobs
          /\ Stopped(a).phase = "failed"
      BY <1>1, <2>2, <3>1, KillSpares DEF Stopped, AppType
    <3>3. Spares(a, b)
      BY <3>2 DEF Spares, AppType
    <3>4. QED
      BY <1>2, <2>1, <3>3
  <2>3. CASE a.phase \notin {"starting", "own"}
    <3>1. Stopped(a) \in AppType /\ Stopped(a).jobs = a.jobs
      BY <1>1, <2>3 DEF Stopped, AppType, Phases
    <3>2. Spares(a, b)
      BY <2>3, <3>1 DEF Spares, AppType
    <3>3. QED
      BY <1>2, <2>1, <3>2
  <2>4. QED
    BY <2>2, <2>3
<1>7. ASSUME NEW from, NEW to, App(w, ProbeMoves(a, from, to))
      PROVE  (\A v \in Windows : Spares(app[v], app'[v])) /\ job' = job
  <2>1. Spares(a, ProbeMoves(a, from, to))
    BY <1>1 DEF ProbeMoves, Spares, AppType
  <2>2. QED
    BY <1>3, <1>7, <2>1
<1>8. CASE Connect(w) \/ Hear(w)
  BY <1>7, <1>8 DEF Connect, Hear
<1>9. CASE Report(w)
  BY <1>1, <1>3, <1>9, ReportSpares DEF Report
<1>10. CASE Watch(w)
  <2>1. PICK x \in a.watch : WatchStep(w, x)
    BY <1>10 DEF Watch
  <2>2. CASE SeeExit(w, x)
    <3>1. \A s, t : Spares(a, [a EXCEPT !.server = s, !.watch = t])
      BY <1>1 DEF Spares, AppType
    <3>2. PICK t : App(w, [a EXCEPT !.server = NoServer, !.watch = t])
      BY <2>2 DEF SeeExit
    <3>3. QED
      BY <1>3, <3>1, <3>2
  <2>3. CASE ReportExit(w, x)
    BY <1>1, <1>3, <2>3, ExitSpares DEF ReportExit
  <2>4. CASE SeeListening(w, x)
    <3>1. Spares(a, [a EXCEPT !.phase = "own"])
      BY <1>1 DEF Spares, AppType
    <3>2. QED
      BY <1>3, <2>4, <3>1 DEF SeeListening
  <2>5. CASE SeeDeadline(w, x)
    <3>1. [a EXCEPT !.phase = "failed"] \in AppType
      BY <1>1 DEF AppType, Phases
    <3>2. Spares(a, Kill([a EXCEPT !.phase = "failed"]))
      BY <1>1, <3>1, KillSpares DEF Spares, AppType
    <3>3. QED
      BY <1>3, <2>5, <3>2 DEF SeeDeadline
  <2>6. CASE Leave(w, x)
    BY <1>1, <1>3, <2>6, ExitSpares DEF Leave
  <2>7. QED
    BY <2>1, <2>2, <2>3, <2>4, <2>5, <2>6 DEF WatchStep
<1>11. \A s : Spares(a, [a EXCEPT !.server = s])
  BY <1>1 DEF Spares, AppType
<1>12. CASE ServerStep(w)
  <2>1. PICK s : ServerBecomes(w, s)
    BY <1>12 DEF ServerStep, TakeFolder, Bind, Say
  <2>2. QED
    BY <1>3, <1>11, <2>1 DEF ServerBecomes
<1>13. CASE Crash(w)
  <2>1. app' = [app EXCEPT ![w] = [a EXCEPT !.server = Dead(a.server)]] /\ job' = job
    BY <1>13 DEF Crash
  <2>2. QED
    BY <1>2, <1>11, <2>1
<1>14. QED
  BY <1>4, <1>5, <1>6, <1>8, <1>9, <1>10, <1>12, <1>13

(* The count is exact: spawn_job counts a job before its thread starts,    *)
(* and a job stays counted until its slot has been free again.             *)
Counted(w) == {j \in Jobs : job[w][j] \in {"running", "ending"}}

JobsCounted ==
  \A w \in Windows : IsFiniteSet(Counted(w)) /\ app[w].jobs = Cardinality(Counted(w))


(* What a step of a window's job does to the count.                        *)
JobsMove(w, j) ==
  \/ /\ app' = app /\ Counted(w)' = Counted(w)
  \/ /\ app' = [app EXCEPT ![w].jobs = @ + 1]
     /\ j \notin Counted(w) /\ Counted(w)' = Counted(w) \cup {j}
  \/ /\ j \in Counted(w) /\ Counted(w)' = Counted(w) \ {j}
     /\ job[w][j] = "ending"
     /\ \E starting \in BOOLEAN :
          app' = [app EXCEPT ![w] = RestartIfWanted(Uncounted(app[w]), starting)]

LEMMA JobStepsMove ==
  ASSUME Inv, NEW w \in Windows, NEW j \in Jobs, StartJob(w, j) \/ JobStep(w, j)
  PROVE  /\ JobsMove(w, j)
         /\ \A v \in Windows \ {w} : Counted(v)' = Counted(v) /\ app'[v] = app[v]
<1> USE DEF Inv, ServerInv, RestType, JobBecomes, Counted
<1>1. \A v \in Windows \ {w} : job'[v] = job[v] /\ app'[v] = app[v]
  BY DEF StartJob, JobStep, SpawnJob, EndJob, JobEnded
<1>2. CASE StartJob(w, j)
  BY <1>2 DEF StartJob, JobsMove
<1>3. CASE SpawnJob(w, j)
  BY <1>3 DEF SpawnJob, JobsMove
<1>4. CASE EndJob(w, j)
  BY <1>4 DEF EndJob, JobsMove
<1>5. CASE JobEnded(w, j)
  BY <1>5 DEF JobEnded, JobsMove, CountedOut
<1>6. QED
  BY <1>1, <1>2, <1>3, <1>4, <1>5 DEF JobStep

(* What counting a job out leaves.                                         *)
LEMMA CountsOut ==
  ASSUME NEW a \in AppType, NEW starting \in BOOLEAN
  PROVE  /\ RestartIfWanted(Uncounted(a), starting).jobs = IF a.jobs > 0 THEN a.jobs - 1 ELSE 0
         /\ a.phase = "own" /\ RestartIfWanted(Uncounted(a), starting).phase = "starting"
              => a.jobs <= 1
<1> DEFINE b == Uncounted(a)
<1>1. /\ b \in AppType /\ b.phase = a.phase
      /\ b.jobs = IF a.jobs > 0 THEN a.jobs - 1 ELSE 0
  BY DEF Uncounted, AppType
<1> HIDE DEF b
<1>2. Spares(b, RestartIfWanted(b, starting))
  BY <1>1, RestartSpares
<1>3. a.jobs \in Nat
  BY DEF AppType
<1>4. QED
  BY <1>1, <1>2, <1>3 DEF Spares, b

LEMMA JobsCountedStep ==
  ASSUME Inv, JobsCounted, [Next]_vars
  PROVE  JobsCounted'
<1>1. ASSUME NEW w \in Windows, NEW j \in Jobs, StartJob(w, j) \/ JobStep(w, j)
      PROVE  JobsCounted'
  <2>1. app \in [Windows -> AppType] /\ app[w] \in AppType /\ app[w].jobs \in Nat
    BY DEF Inv, ServerInv, AppType
  <2>2. /\ IsFiniteSet(Counted(w)) /\ app[w].jobs = Cardinality(Counted(w))
        /\ Counted(w) = {} <=> Cardinality(Counted(w)) = 0
    BY FS_EmptySet DEF JobsCounted
  <2>3. IsFiniteSet(Counted(w)') /\ app'[w].jobs = Cardinality(Counted(w)')
    <3>1. CASE app' = app /\ Counted(w)' = Counted(w)
      BY <2>2, <3>1
    <3>2. CASE /\ app' = [app EXCEPT ![w].jobs = @ + 1]
               /\ j \notin Counted(w) /\ Counted(w)' = Counted(w) \cup {j}
      <4>1. app'[w].jobs = app[w].jobs + 1
        BY <2>1, <3>2 DEF AppType
      <4>2. QED
        BY <2>2, <3>2, <4>1, FS_AddElement
    <3>3. CASE /\ j \in Counted(w) /\ Counted(w)' = Counted(w) \ {j}
               /\ \E starting \in BOOLEAN :
                    app' = [app EXCEPT ![w] = RestartIfWanted(Uncounted(app[w]), starting)]
      <4>1. app[w].jobs > 0
        BY <2>1, <2>2, <3>3
      <4>2. app'[w].jobs = app[w].jobs - 1
        BY <2>1, <3>3, <4>1, CountsOut
      <4>3. QED
        BY <2>2, <3>3, <4>2, FS_RemoveElement
    <3>4. QED
      BY <1>1, <3>1, <3>2, <3>3, JobStepsMove DEF JobsMove
  <2>4. QED
    BY <1>1, <2>3, JobStepsMove DEF JobsCounted
<1>2. ASSUME job' = job, \A v \in Windows : Spares(app[v], app'[v])
      PROVE  JobsCounted'
  BY <1>2 DEF JobsCounted, Counted, Spares
<1>3. CASE app' = app /\ job' = job
  BY <1>3 DEF JobsCounted, Counted
<1>4. QED
  BY <1>1, <1>2, <1>3, EventSpares DEF Next, ForeignMoves, vars

LEMMA RestartStep ==
  ASSUME Inv, JobsCounted, [Next]_vars, NEW w \in Windows,
         app[w].phase = "own", app'[w].phase = "starting", NEW j \in Jobs
  PROVE  job[w][j] # "running"
<1>1. app \in [Windows -> AppType] /\ app[w] \in AppType /\ app[w].jobs \in Nat
  BY DEF Inv, ServerInv, AppType
<1>2. /\ IsFiniteSet(Counted(w)) /\ app[w].jobs = Cardinality(Counted(w))
  BY DEF JobsCounted
<1>3. CASE Spares(app[w], app'[w])
  <2>1. Counted(w) = {}
    BY <1>2, <1>3, FS_EmptySet DEF Spares
  <2>2. QED
    BY <2>1 DEF Counted
<1>4. ASSUME NEW k \in Jobs, StartJob(w, k) \/ JobStep(w, k)
      PROVE  job[w][j] # "running"
  <2>1. CASE app' = app
    BY <2>1
  <2>2. CASE app' = [app EXCEPT ![w].jobs = @ + 1]
    <3>1. app'[w].phase = app[w].phase
      BY <1>1, <2>2 DEF AppType
    <3>2. QED
      BY <3>1
  <2>3. CASE /\ k \in Counted(w) /\ job[w][k] = "ending"
             /\ \E starting \in BOOLEAN :
                  app' = [app EXCEPT ![w] = RestartIfWanted(Uncounted(app[w]), starting)]
    <3>1. app[w].jobs <= 1
      BY <1>1, <2>3, CountsOut
    <3>2. IsFiniteSet(Counted(w) \ {k}) /\ Cardinality(Counted(w) \ {k}) = app[w].jobs - 1
      BY <1>2, <2>3, FS_RemoveElement
    <3>3. Cardinality(Counted(w) \ {k}) = 0
      BY <1>1, <3>1, <3>2, FS_CardinalityType
    <3>4. Counted(w) \ {k} = {}
      BY <3>2, <3>3, FS_EmptySet
    <3>5. QED
      BY <2>3, <3>4 DEF Counted
  <2>4. QED
    BY <1>4, <2>1, <2>2, <2>3, JobStepsMove DEF JobsMove
<1>5. ASSUME NEW v \in Windows, v # w, NEW k \in Jobs, StartJob(v, k) \/ JobStep(v, k)
      PROVE  FALSE
  BY <1>5, JobStepsMove
<1>6. CASE app' = app
  BY <1>6
<1>7. QED
  BY <1>3, <1>4, <1>5, <1>6, EventSpares DEF Next, ForeignMoves, vars

(* A change of the network setting never cuts off a job that works with    *)
(* the window's ready server: step restarts it at a count of zero, and the *)
(* count covers every job from before its thread starts.                   *)
THEOREM RestartsSpareJobs == Spec => RestartSparesJobs
<1>1. Init => JobsCounted
  <2> SUFFICES ASSUME Init, NEW w \in Windows
               PROVE  IsFiniteSet(Counted(w)) /\ app[w].jobs = Cardinality(Counted(w))
    BY DEF JobsCounted
  <2>1. Counted(w) = {} /\ app[w].jobs = 0
    BY DEF Init, Counted
  <2>2. QED
    BY <2>1, FS_EmptySet
<1>2. Inv /\ JobsCounted /\ [Next]_vars => JobsCounted'
  BY JobsCountedStep
<1>3. Inv /\ JobsCounted /\ [Next]_vars =>
        [\A w \in Windows :
           app[w].phase = "own" /\ app'[w].phase = "starting" =>
             \A j \in Jobs : job[w][j] # "running"]_vars
  BY RestartStep
<1>4. QED
  BY <1>1, <1>2, <1>3, InitInv, NextKeeps, PTL DEF Spec, RestartSparesJobs
================================================================================
