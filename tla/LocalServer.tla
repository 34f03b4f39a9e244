----------------------------- MODULE LocalServer -----------------------------
(***************************************************************************)
(* local_server.rs: the Message Crate that the desktop app starts for      *)
(* itself, in every open window of the app.  All windows are told the same *)
(* address and the same data folder.                                       *)
(*                                                                         *)
(* One pure function, step, decides what follows an event; a window applies *)
(* it under one lock and kills and starts its server there, so every event *)
(* is one action.  Outside the lock run the probes of the address, the     *)
(* thread that watches a server, the desktop jobs, and the servers.        *)
(***************************************************************************)
EXTENDS Integers, FiniteSets

CONSTANTS
  Windows,
  Jobs,             \* the threads that can be a window's desktop job
  LockedOutProbes,  \* LOCKED_OUT_PROBES
  MaxInputs,        \* bounds: what persons and screens do in all,
  MaxJobs,          \* desktop jobs,
  MaxCrashes,       \* servers that stop by themselves,
  MaxForeign        \* and programs that come to the address or leave it

ASSUME BoundsAssumption ==
  {LockedOutProbes, MaxInputs, MaxJobs, MaxCrashes, MaxForeign} \subseteq Nat

VARIABLES
  app,      \* of each window: its state and the server it started
  job,      \* of each window: what its job threads do
  foreign,  \* what else is at the address
  inputs, starts, crashes, moves    \* counts, for the bounds

vars == <<app, job, foreign, inputs, starts, crashes, moves>>

(* Answers of a probe, and a probe that has none yet.                      *)
Answers == {"free", "crate", "other"}
ProbeStages == {"asking", "connected"} \cup Answers

(* A server process: what it has come to, how it was started, whether its  *)
(* listening line was read, and whether it wrote that it was locked out.   *)
Server(stage, open) ==
  [stage |-> stage, open |-> open, said |-> FALSE, lockedOut |-> FALSE]
NoServer == Server("none", FALSE)

Running == {"booting", "locked", "listening"}

Init ==
  /\ app = [w \in Windows |->
       [phase |-> "idle", open |-> FALSE, left |-> 0, wanted |-> FALSE,
        jobs |-> 0, stopped |-> FALSE, gen |-> 0, server |-> NoServer,
        watch |-> {}, probes |-> [s \in ProbeStages |-> 0]]]
  /\ job = [w \in Windows |-> [j \in Jobs |-> "none"]]
  /\ foreign \in {"none", "program", "docker", "left"}
  /\ inputs = 0 /\ starts = 0 /\ crashes = 0 /\ moves = 0

--------------------------------------------------------------------------------
(* The outside: the address and the lock of the data folder.  A server left *)
(* running by a window that crashed holds both.                            *)

Listening(w) == app[w].server.stage = "listening"
PortTaken == foreign # "none" \/ \E w \in Windows : Listening(w)
CrateAnswers == foreign \in {"docker", "left"} \/ \E w \in Windows : Listening(w)
FolderLocked ==
  foreign = "left" \/ \E w \in Windows : app[w].server.stage \in {"locked", "listening"}

--------------------------------------------------------------------------------
(* What step asks for, done to one window's state a.                       *)

Probe(a) == [a EXCEPT !.probes["asking"] = @ + 1]

(* The server is killed and waited for; who watched it will find that it   *)
(* is another generation's.                                                *)
Kill(a) == [a EXCEPT !.gen = @ + 1, !.server = NoServer]

Watcher(g) == [gen |-> g, stage |-> "watching", lockedOut |-> FALSE]

(* Mutant: nobody is told of a program that cannot be started.             *)
SpawnQuietly(a, starting) ==
  IF starting
  THEN [a EXCEPT !.gen = @ + 1, !.server = Server("booting", a.open),
                 !.watch = @ \cup {Watcher(a.gen + 1)}]
  ELSE a

(* The program starts, or cannot be started.                               *)
Spawn(a, starting) ==
  IF starting
  THEN [a EXCEPT !.gen = @ + 1, !.server = Server("booting", a.open),
                 !.watch = @ \cup {Watcher(a.gen + 1)}]
  ELSE [a EXCEPT !.phase = "failed"]

Start(a, starting) ==
  Spawn([a EXCEPT !.phase = "starting", !.open = a.wanted], starting)

(* Mutant: a ready server is restarted in the middle of a job.             *)
RestartAnyway(a) == a.phase \in {"starting", "own"} /\ a.open # a.wanted

(* A server that starts is restarted at once, a ready one when no job runs. *)
Restarts(a) ==
  /\ a.open # a.wanted
  /\ a.phase = "starting" \/ (a.phase = "own" /\ a.jobs = 0)

RestartIfWanted(a, starting) ==
  IF Restarts(a) THEN Start(Kill(a), starting) ELSE a

(* Mutant: a check is taken to be under way whenever another was found.    *)
TrustFound(a) == a.phase \notin {"found", "checking"}

(* A check that is under way will answer for the start as well.            *)
AsksAgain(a) == a.phase # "checking"

Requested(a, open, starting) ==
  LET b == [a EXCEPT !.wanted = open]
      c == [b EXCEPT !.phase = "probing"] IN
  IF a.phase \in {"idle", "port_taken", "failed", "found", "checking"}
  THEN IF AsksAgain(a) THEN Probe(c) ELSE c
  ELSE RestartIfWanted(b, starting)

Configured(a, open, starting) == RestartIfWanted([a EXCEPT !.wanted = open], starting)

Checked(a) == IF a.phase = "found" THEN Probe([a EXCEPT !.phase = "checking"]) ELSE a

(* Another server holds the data folder and may still come to listen.      *)
AsksOn(a, answer) == a.left > 0 /\ answer = "free"

Probed(a, answer, starting) ==
  CASE a.phase \in {"probing", "checking", "lost"} /\ answer = "crate" ->
         [a EXCEPT !.phase = "found"]
    [] a.phase \in {"probing", "checking"} /\ answer = "free" -> Start(a, starting)
    [] a.phase \in {"probing", "checking"} /\ answer = "other" ->
         [a EXCEPT !.phase = "port_taken"]
    [] a.phase = "lost" /\ answer # "crate" ->
         IF AsksOn(a, answer) THEN Probe([a EXCEPT !.left = @ - 1])
         ELSE [a EXCEPT !.phase = "failed"]
    [] OTHER -> a

ChildExited(a, lockedOut) ==
  CASE a.phase = "starting" ->
         Probe([a EXCEPT !.phase = "lost",
                         !.left = IF lockedOut THEN LockedOutProbes ELSE 0])
    [] a.phase = "own" -> [a EXCEPT !.phase = "failed"]
    [] OTHER -> a

(* Mutant: a probe under way may still start a server.                     *)
StopServerOnly(a) ==
  IF a.phase \in {"starting", "own"} THEN Kill([a EXCEPT !.phase = "failed"]) ELSE a

(* Nothing is started any more, not even by a probe under way.             *)
Stopped(a) ==
  CASE a.phase \in {"starting", "own"} -> Kill([a EXCEPT !.phase = "failed"])
    [] a.phase \in {"probing", "found", "checking", "lost"} -> [a EXCEPT !.phase = "idle"]
    [] OTHER -> a

--------------------------------------------------------------------------------
(* The screens and the person.                                             *)

Input(w) ==
  /\ ~app[w].stopped /\ inputs < MaxInputs
  /\ inputs' = inputs + 1
  /\ UNCHANGED <<job, foreign, starts, crashes, moves>>

Request(w) ==
  /\ Input(w)
  /\ \E open, starting \in BOOLEAN :
       app' = [app EXCEPT ![w] = Requested(@, open, starting)]

Configure(w) ==
  /\ Input(w)
  /\ \E open, starting \in BOOLEAN :
       app' = [app EXCEPT ![w] = Configured(@, open, starting)]

(* The screens ask for the state now and then.                             *)
Check(w) ==
  /\ ~app[w].stopped /\ app[w].phase = "found"
  /\ app' = [app EXCEPT ![w] = Checked(@)]
  /\ UNCHANGED <<job, foreign, inputs, starts, crashes, moves>>

(* The app closes.                                                         *)
Stop(w) ==
  /\ Input(w)
  /\ app' = [app EXCEPT ![w] = [Stopped(@) EXCEPT !.stopped = TRUE]]

--------------------------------------------------------------------------------
(* A probe: a thread that connects, asks what answers, and reports.        *)

App(w, a) ==
  /\ app' = [app EXCEPT ![w] = a]
  /\ UNCHANGED <<job, foreign, inputs, starts, crashes, moves>>

ProbeMoves(a, from, to) == [a EXCEPT !.probes[from] = @ - 1, !.probes[to] = @ + 1]

Connect(w) ==
  /\ app[w].probes["asking"] > 0
  /\ App(w, ProbeMoves(app[w], "asking", IF PortTaken THEN "connected" ELSE "free"))

(* The server that took the connection may be gone before it answers.      *)
Hear(w) ==
  /\ app[w].probes["connected"] > 0
  /\ App(w, ProbeMoves(app[w], "connected", IF CrateAnswers THEN "crate" ELSE "other"))

Report(w) ==
  \E answer \in Answers, starting \in BOOLEAN :
    /\ app[w].probes[answer] > 0
    /\ App(w, Probed([app[w] EXCEPT !.probes[answer] = @ - 1], answer, starting))

--------------------------------------------------------------------------------
(* The thread that watches one generation of the server.                   *)

Current(a, x) == x.gen = a.gen

(* The server exited: it is reaped, and its output is read to the end.     *)
SeeExit(w, x) ==
  LET a == app[w] IN
  /\ x.stage = "watching" /\ x.gen = a.gen
  /\ a.server.stage \notin Running
  /\ App(w, [a EXCEPT !.server = NoServer,
       !.watch = (@ \ {x}) \cup
         {[x EXCEPT !.stage = "joining", !.lockedOut = a.server.lockedOut]}])

(* The lock was let go meanwhile: another generation may run.              *)
ReportExit(w, x) ==
  LET a == [app[w] EXCEPT !.watch = @ \ {x}] IN
  /\ x.stage = "joining"
  /\ App(w, IF Current(a, x) THEN ChildExited(a, x.lockedOut) ELSE a)

SeeListening(w, x) ==
  LET a == app[w] IN
  /\ x.stage = "watching" /\ x.gen = a.gen
  /\ a.server.stage \in Running /\ a.server.said /\ a.phase = "starting"
  /\ App(w, [a EXCEPT !.phase = "own"])

(* START_TIMEOUT is over.                                                  *)
SeeDeadline(w, x) ==
  LET a == app[w] IN
  /\ x.stage = "watching" /\ x.gen = a.gen
  /\ a.server.stage \in Running /\ ~a.server.said /\ a.phase = "starting"
  /\ App(w, Kill([a EXCEPT !.phase = "failed"]))

Leave(w, x) ==
  /\ x.stage = "watching" /\ x.gen # app[w].gen
  /\ App(w, [app[w] EXCEPT !.watch = @ \ {x}])

WatchStep(w, x) ==
  \/ SeeExit(w, x) \/ ReportExit(w, x) \/ SeeListening(w, x)
  \/ SeeDeadline(w, x) \/ Leave(w, x)

Watch(w) == \E x \in app[w].watch : WatchStep(w, x)

--------------------------------------------------------------------------------
(* The server itself, from its start to its listening line.                *)

ServerBecomes(w, s) == App(w, [app[w] EXCEPT !.server = s])

Dead(s) == [s EXCEPT !.stage = "dead"]

(* acquire_for_serve: it keeps the lock of the data folder, or ends.       *)
TakeFolder(w) ==
  LET s == app[w].server IN
  /\ s.stage = "booting"
  /\ ServerBecomes(w, IF FolderLocked THEN [Dead(s) EXCEPT !.lockedOut = TRUE]
                      ELSE [s EXCEPT !.stage = "locked"])

(* After the Demo Account is made: TcpListener::bind.                      *)
Bind(w) ==
  LET s == app[w].server IN
  /\ s.stage = "locked"
  /\ ServerBecomes(w, IF PortTaken THEN Dead(s) ELSE [s EXCEPT !.stage = "listening"])

(* It says that it listens and the app's thread reads the line.            *)
Say(w) ==
  LET s == app[w].server IN
  /\ s.stage = "listening" /\ ~s.said
  /\ ServerBecomes(w, [s EXCEPT !.said = TRUE])

ServerStep(w) == TakeFolder(w) \/ Bind(w) \/ Say(w)

Crash(w) ==
  /\ app[w].server.stage \in Running /\ crashes < MaxCrashes
  /\ app' = [app EXCEPT ![w].server = Dead(@)]
  /\ crashes' = crashes + 1
  /\ UNCHANGED <<job, foreign, inputs, starts, moves>>

ForeignMoves ==
  /\ moves < MaxForeign
  /\ moves' = moves + 1
  /\ \/ foreign # "none" /\ foreign' = "none"
     \/ ~PortTaken /\ foreign' \in {"program", "docker"}
  /\ UNCHANGED <<app, job, inputs, starts, crashes>>

--------------------------------------------------------------------------------
(* Desktop jobs (commands/jobs.rs): one slot in each window, and the count *)
(* that the window's server is told.                                       *)

SlotTaken(w) == \E j \in Jobs : job[w][j] \in {"starting", "running"}

JobBecomes(w, j, stage) == job' = [job EXCEPT ![w][j] = stage]

StartJob(w, j) ==
  /\ ~app[w].stopped /\ starts < MaxJobs
  /\ job[w][j] = "none" /\ ~SlotTaken(w)
  /\ JobBecomes(w, j, "starting")
  /\ starts' = starts + 1
  /\ UNCHANGED <<app, foreign, inputs, crashes, moves>>

(* spawn_job counts the job and then starts its thread.                    *)
SpawnJob(w, j) ==
  /\ job[w][j] = "starting"
  /\ JobBecomes(w, j, "running")
  /\ app' = [app EXCEPT ![w].jobs = @ + 1]
  /\ UNCHANGED <<foreign, inputs, starts, crashes, moves>>

(* The work is over and the slot free: another job may start ...           *)
EndJob(w, j) ==
  /\ job[w][j] = "running"
  /\ JobBecomes(w, j, "ending")
  /\ UNCHANGED <<app, foreign, inputs, starts, crashes, moves>>

Uncounted(a) == [a EXCEPT !.jobs = IF @ > 0 THEN @ - 1 ELSE 0]

(* Mutant: the end of a job is not the moment to restart.                  *)
CountOnly(a, starting) == Uncounted(a)

CountedOut(a, starting) == RestartIfWanted(Uncounted(a), starting)

(* ... before this one is counted out, which restarts the server at need.  *)
JobEnded(w, j) ==
  /\ job[w][j] = "ending"
  /\ JobBecomes(w, j, "none")
  /\ \E starting \in BOOLEAN : app' = [app EXCEPT ![w] = CountedOut(@, starting)]
  /\ UNCHANGED <<foreign, inputs, starts, crashes, moves>>

JobStep(w, j) == SpawnJob(w, j) \/ EndJob(w, j) \/ JobEnded(w, j)

--------------------------------------------------------------------------------
Next ==
  \/ ForeignMoves
  \/ \E w \in Windows :
       \/ Request(w) \/ Configure(w) \/ Check(w) \/ Stop(w)
       \/ Connect(w) \/ Hear(w) \/ Report(w) \/ Watch(w)
       \/ ServerStep(w) \/ Crash(w)
       \/ \E j \in Jobs : StartJob(w, j) \/ JobStep(w, j)

Spec == Init /\ [][Next]_vars

(* Threads of the app run on, and a job comes to an end.  Of a server      *)
(* nothing is assumed: it may hang for ever.                               *)
Fairness ==
  \A w \in Windows :
    /\ WF_vars(Connect(w)) /\ WF_vars(Hear(w)) /\ WF_vars(Report(w))
    /\ WF_vars(Watch(w))
    /\ \A j \in Jobs : WF_vars(JobStep(w, j))

FairSpec == Spec /\ Fairness

--------------------------------------------------------------------------------
(* Correctness.                                                            *)

Phases == {"idle", "probing", "starting", "own", "found", "checking", "lost",
           "port_taken", "failed"}
WatcherType ==
  [gen : Nat, stage : {"watching", "joining"}, lockedOut : BOOLEAN]
ServerType ==
  [stage : {"none", "dead"} \cup Running, open : BOOLEAN, said : BOOLEAN,
   lockedOut : BOOLEAN]
AppType ==
  [phase : Phases, open : BOOLEAN, left : Nat, wanted : BOOLEAN, jobs : Nat,
   stopped : BOOLEAN, gen : Nat, server : ServerType,
   watch : SUBSET WatcherType, probes : [ProbeStages -> Nat]]

TypeOK ==
  /\ app \in [Windows -> AppType]
  /\ job \in [Windows -> [Jobs -> {"none", "starting", "running", "ending"}]]
  /\ foreign \in {"none", "program", "docker", "left"}
  /\ inputs \in Nat /\ starts \in Nat /\ crashes \in Nat /\ moves \in Nat

(* Whatever the screens are told to wait for, somebody is at work on: a    *)
(* probe, or the watcher of the generation that runs.                      *)
WaitsAttended ==
  \A w \in Windows :
    LET a == app[w] IN
    /\ a.phase \in {"probing", "checking", "lost"} =>
         \E s \in ProbeStages : a.probes[s] > 0
    /\ a.phase \in {"starting", "own"} => \E x \in a.watch : x.gen = a.gen

(* A server that runs is the one the window speaks of: started the way it  *)
(* says, listening when it says so, and there is none after the close.     *)
ServerAccounted ==
  \A w \in Windows :
    LET a == app[w] IN
    a.server.stage \in Running =>
      /\ a.phase \in {"starting", "own"} /\ ~a.stopped
      /\ a.server.open = a.open
      /\ a.phase = "own" => a.server.stage = "listening"

(* The address is asked by one probe at a time until the app closes: no    *)
(* old answer decides about a later question.                              *)
OneProbe ==
  \A w \in Windows, s, t \in ProbeStages :
    /\ ~app[w].stopped /\ app[w].probes[s] > 0
    /\ app[w].probes[t] > 0
    => s = t /\ app[w].probes[s] = 1

(* The network setting never cuts off a job of the window that works with  *)
(* a ready server.                                                         *)
RestartSparesJobs ==
  [][\A w \in Windows :
       app[w].phase = "own" /\ app'[w].phase = "starting" =>
         \A j \in Jobs : job[w][j] # "running"]_vars

(* The screens never wait for ever for a start, whatever the server does.  *)
StartSettles ==
  \A w \in Windows :
    app[w].phase \in {"probing", "starting", "lost"} ~>
      app[w].phase \notin {"probing", "starting", "lost"}

(* A ready server does not stay open to the network, or closed, against    *)
(* the setting.                                                            *)
SettingApplied ==
  \A w \in Windows :
    app[w].phase = "own" /\ app[w].open # app[w].wanted ~>
      app[w].phase # "own" \/ app[w].open = app[w].wanted

(* Window v runs a job with the server of window w.                        *)
WorksWith(v, w) ==
  /\ v # w /\ app[v].phase = "found" /\ \E j \in Jobs : job[v][j] = "running"
  /\ Listening(w) /\ foreign = "none"

(* "The only work a kill can interrupt is an import this app was running." *)
KillCutsOwnWorkOnly ==
  [][\A v, w \in Windows : WorksWith(v, w) => app'[w].gen = app[w].gen]_vars

================================================================================
