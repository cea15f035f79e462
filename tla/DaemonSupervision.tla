------------------------- MODULE DaemonSupervision -------------------------
(***************************************************************************)
(* The macOS app and its Python daemon: DaemonSupervisor, ProcessManager    *)
(* and DaemonMessenger on the app's main actor, and the daemon processes    *)
(* they spawn, ask, time out, kill and restart.                             *)
(*                                                                         *)
(* A step of the app is what the main actor runs between two suspensions.   *)
(* Tasks run in the order in which they were queued (jobs); the handlers    *)
(* and timers of the background, a process that has ended, a sleep that is  *)
(* over, come in at any moment.  The clock is left out: a timer may run out *)
(* whenever it is armed (the machine may have slept), the fairness says     *)
(* when it must.                                                            *)
(***************************************************************************)
EXTENDS Naturals, Sequences, FiniteSets, Progress

CONSTANTS
    Daemons,      \* processes: one that nobody refers to any more is used again
    CrashLimit,   \* crashLoopThreshold
    MaxJobs,      \* bound: no one asks for more while so many jobs are queued
    None

ASSUME SupervisionConstants ==
    /\ CrashLimit \in Nat \ {0}
    /\ MaxJobs \in Nat
    /\ None \notin Daemons \cup {"crashed", "exited"}

VARIABLES
    state,      \* DaemonSupervisor.state; restarting lasts no longer than a step
    pm,         \* the ProcessManager
    jobs,       \* tasks queued on the main actor
    asking,     \* asking[k][d]: health checks of kind k that wait for d's answer
    stop,       \* the shutdown() under way: the process it waits for
    life,       \* what each process does
    notice,     \* how a process ended whose termination handler has not run
    overtaken   \* history: a process was spawned before the last was cleared away

vars == <<state, pm, jobs, asking, stop, life, notice, overtaken>>
world == <<life, notice>>

Checks == {"start", "wake"}
Jobs == {"start", "wake", "stop", "startPong", "wakePong"}

Managers ==
    [process : Daemons \cup {None}, messenger : Daemons \cup {None},
     heard : Daemons \cup {None},   \* whose stdout still reaches handleStdoutLine
     watchdog : BOOLEAN, crashes : 0..CrashLimit, halted : BOOLEAN]

\* process, the pipes and the messenger, which the code sets to nil together.
Cleared(m) == [m EXCEPT !.process = None, !.messenger = None, !.heard = None,
                        !.watchdog = FALSE]

\* resetCrashHistory()
Forgiven(m) == [m EXCEPT !.crashes = 0, !.halted = FALSE]

\* isRunning
Alive(d) == d \in Daemons /\ life[d] # "absent"

Queued(what) == \E i \in DOMAIN jobs : jobs[i] = what
Now(what) == jobs # <<>> /\ Head(jobs) = what
Done == jobs' = Tail(jobs)
DoneThen(what) == jobs' = Append(Tail(jobs), what)

\* Nothing in the app refers to d any more.
Forgotten(d) ==
    /\ life[d] = "absent" /\ notice[d] = None
    /\ d \notin {pm.process, pm.messenger, stop}

\* d has ended; a health check that waits for it waits for ever, and is dropped.
Ended(d, how) ==
    /\ life' = [life EXCEPT ![d] = "absent"]
    /\ notice' = [notice EXCEPT ![d] = how]
    /\ asking' = [k \in Checks |-> [asking[k] EXCEPT ![d] = 0]]

\* MUTANT of Crashed: the crash that reaches the limit does not halt.
CrashedOnward(m) == [m EXCEPT !.crashes = IF @ < CrashLimit THEN @ + 1 ELSE @]

\* recordCrash(); what the window forgets is Age.
Crashed(m) ==
    LET n == IF m.crashes < CrashLimit THEN m.crashes + 1 ELSE CrashLimit IN
    [m EXCEPT !.crashes = n, !.halted = @ \/ n = CrashLimit]

-----------------------------------------------------------------------------
Init ==
    /\ state = "notStarted"
    /\ pm = [process |-> None, messenger |-> None, heard |-> None,
             watchdog |-> FALSE, crashes |-> 0, halted |-> FALSE]
    /\ jobs = <<>>
    /\ asking = [k \in Checks |-> [d \in Daemons |-> 0]]
    /\ stop = None
    /\ life = [d \in Daemons |-> "absent"]
    /\ notice = [d \in Daemons |-> None]
    /\ overtaken = FALSE

-----------------------------------------------------------------------------
\* What the user and the system ask for.

\* A window appears: start().  It is ignored while starting or ready.
Open ==
    /\ Len(jobs) < MaxJobs
    /\ state \notin {"starting", "ready"}
    /\ state' = "starting"
    /\ jobs' = Append(jobs, "start")
    /\ UNCHANGED <<pm, asking, stop, world, overtaken>>

\* A window disappears: shutdown().  Bound: one shutdown at a time.
Close ==
    /\ Len(jobs) < MaxJobs
    /\ stop = None /\ ~Queued("stop")
    /\ state' = "shuttingDown"
    /\ jobs' = Append(jobs, "stop")
    /\ UNCHANGED <<pm, asking, stop, world, overtaken>>

\* The button of the failure alert: retry().
Retry ==
    /\ Len(jobs) < MaxJobs
    /\ state = "failed"
    /\ pm' = Forgiven(pm)
    /\ state' = "starting"
    /\ jobs' = Append(jobs, "start")
    /\ UNCHANGED <<asking, stop, world, overtaken>>

\* The machine wakes up: handleWake().  Bound: one wake at a time.
Wake ==
    /\ Len(jobs) < MaxJobs
    /\ state \in {"ready", "notStarted"}
    /\ ~Queued("wake") /\ \A d \in Daemons : asking["wake"][d] = 0
    /\ jobs' = Append(jobs, "wake")
    /\ UNCHANGED <<state, pm, asking, stop, world, overtaken>>

-----------------------------------------------------------------------------
\* The tasks of the main actor.

\* ping is written; the task waits, for as long as it takes.
Ask(k, d) == asking' = [asking EXCEPT ![k][d] = @ + 1]

\* The end of some process has not reached the manager, or a stop is under way.
Pending == stop # None \/ \E d \in Daemons : notice[d] # None

\* startAsync(): spawn() throws, because the crash loop halted it or the process
\* cannot be run.
SpawnFails ==
    /\ Now("start") /\ Done
    /\ pm.halted \/ ~Alive(pm.process)
    /\ state' = "failed"
    /\ UNCHANGED <<pm, asking, stop, world, overtaken>>

\* MUTANT of Launch: it does not arm the watchdog.
LaunchUnwatched(m, d) == [m EXCEPT !.process = d, !.messenger = d, !.heard = d]

\* A new process with its pipes and its messenger; the watchdog is armed.
Launch(m, d) ==
    [m EXCEPT !.process = d, !.messenger = d, !.heard = d, !.watchdog = TRUE]

\* MUTANT of Spawnable: spawn() does not look whether the process still runs.
SpawnableAnyway == ~pm.halted

\* spawn() gets as far as to run a process.
Spawnable == ~pm.halted /\ ~Alive(pm.process)

\* startAsync(): a new process, then the health check.  The messenger is there at
\* once, so the wait for it never waits.
Spawn ==
    /\ Now("start") /\ Done
    /\ Spawnable
    /\ \E d \in Daemons : Forgotten(d)
    /\ LET d == CHOOSE d \in Daemons : Forgotten(d) IN
       /\ pm' = Launch(pm, d)
       /\ life' = [life EXCEPT ![d] = "up"]
       /\ Ask("start", d)
    /\ overtaken' = (overtaken \/ Pending)
    /\ UNCHANGED <<state, stop, notice>>

\* startAsync(): "called while daemon already running", then the health check.
SpawnAgain ==
    /\ Now("start") /\ Done
    /\ ~pm.halted /\ Alive(pm.process)
    /\ Ask("start", pm.messenger)
    /\ UNCHANGED <<state, pm, stop, world, overtaken>>

\* MUTANT of CheckAfterWake: the failed check says restarting and starts nothing.
CheckAfterWakeOnly ==
    /\ Now("wake")
    /\ Done
    /\ IF Alive(pm.messenger)
         THEN Ask("wake", pm.messenger) /\ UNCHANGED <<state, pm>>
         ELSE /\ state' = "restarting"
              /\ pm' = Forgiven(pm)
              /\ UNCHANGED asking
    /\ UNCHANGED <<stop, world, overtaken>>

\* The health check after a wake; it fails at once when there is no messenger or
\* the pipe is broken, and then restarts, whatever the state has become.
CheckAfterWake ==
    /\ Now("wake")
    /\ IF Alive(pm.messenger)
         THEN Ask("wake", pm.messenger) /\ Done /\ UNCHANGED <<state, pm>>
         ELSE /\ state' = "starting"
              /\ pm' = Forgiven(pm)
              /\ DoneThen("start")
              /\ UNCHANGED asking
    /\ UNCHANGED <<stop, world, overtaken>>

\* A health check goes on with its answer.
HealthChecked ==
    /\ Now("startPong") \/ Now("wakePong")
    /\ Done
    /\ pm' = [pm EXCEPT !.watchdog = TRUE]
    /\ state' = IF Now("startPong") THEN "ready" ELSE state
    /\ UNCHANGED <<asking, stop, world, overtaken>>

\* shutdown() with nothing to stop, or SIGTERM to the process.
BeginStop ==
    /\ Now("stop") /\ Done
    /\ IF Alive(pm.process)
         THEN /\ pm' = [pm EXCEPT !.heard = None]
              /\ stop' = pm.process
              /\ UNCHANGED state
         ELSE /\ pm' = [pm EXCEPT !.process = None]
              /\ state' = "shutDown"
              /\ UNCHANGED stop
    /\ UNCHANGED <<asking, world, overtaken>>

RunJob == SpawnFails \/ Spawn \/ SpawnAgain \/ CheckAfterWake \/ HealthChecked \/ BeginStop

-----------------------------------------------------------------------------
\* What comes in from the background.

\* shutdown() after five seconds, the process still runs: SIGKILL, and 200 ms.
KillStopped ==
    /\ Alive(stop)
    /\ Ended(stop, "crashed")
    /\ UNCHANGED <<state, pm, jobs, stop, overtaken>>

\* MUTANT of FinishStop: it leaves the manager's process to the termination handler.
FinishStopKeeping ==
    /\ stop # None /\ ~Alive(stop)
    /\ pm' = [pm EXCEPT !.watchdog = FALSE, !.messenger = None]
    /\ state' = "shutDown"
    /\ stop' = None
    /\ UNCHANGED <<jobs, asking, world, overtaken>>

\* shutdown() when the process has ended: whatever the manager holds by now is
\* dropped.
FinishStop ==
    /\ stop # None /\ ~Alive(stop)
    /\ pm' = Cleared(pm)
    /\ state' = "shutDown"
    /\ stop' = None
    /\ UNCHANGED <<jobs, asking, world, overtaken>>

\* MUTANT of CrashHandled: the crash is not counted; the watchdog counts its own.
CrashHandledUncounted(d) ==
    /\ notice[d] = "crashed"
    /\ notice' = [notice EXCEPT ![d] = None]
    /\ pm' = Cleared(pm)
    /\ state' = IF pm.halted THEN "failed" ELSE "starting"
    /\ jobs' = IF pm.halted THEN jobs ELSE Append(jobs, "start")
    /\ UNCHANGED <<asking, stop, life, overtaken>>

\* handleTermination() of a crash: restart, unless the crash loop halts.  The
\* manager drops its process, whichever process has ended.
CrashHandled(d) ==
    /\ notice[d] = "crashed"
    /\ notice' = [notice EXCEPT ![d] = None]
    /\ LET m == Crashed(pm) IN
       /\ pm' = Cleared(m)
       /\ state' = IF m.halted THEN "failed" ELSE "starting"
       /\ jobs' = IF m.halted THEN jobs ELSE Append(jobs, "start")
    /\ UNCHANGED <<asking, stop, life, overtaken>>

\* handleTermination() with status 0 or 15: no hook is called.
ExitHandled(d) ==
    /\ notice[d] = "exited"
    /\ notice' = [notice EXCEPT ![d] = None]
    /\ pm' = Cleared(pm)
    /\ UNCHANGED <<state, jobs, asking, stop, life, overtaken>>

\* MUTANT of WatchdogFires: the crash is counted and the process lives on.
WatchdogFiresSparing ==
    /\ pm.watchdog
    /\ LET m == Crashed(pm) IN
       /\ pm' = [m EXCEPT !.watchdog = FALSE]
       /\ state' = IF m.crashes = CrashLimit THEN "failed" ELSE state
    /\ UNCHANGED <<world, asking, jobs, stop, overtaken>>

\* Thirty seconds without a line: kill the process and count a crash; the
\* termination handler will count another.
WatchdogFires ==
    /\ pm.watchdog
    /\ LET m == Crashed(pm) IN
       /\ pm' = [m EXCEPT !.watchdog = FALSE]
       /\ state' = IF m.crashes = CrashLimit THEN "failed" ELSE state
    /\ IF Alive(pm.process) THEN Ended(pm.process, "crashed")
                            ELSE UNCHANGED <<world, asking>>
    /\ UNCHANGED <<jobs, stop, overtaken>>

\* A crash gets older than crashLoopWindow.
Age ==
    /\ pm.crashes > 0
    /\ pm' = [pm EXCEPT !.crashes = @ - 1]
    /\ UNCHANGED <<state, jobs, asking, stop, world, overtaken>>

-----------------------------------------------------------------------------
\* The daemon processes.

\* pong, read by the handler of the current pipe; the task that waits is queued.
Pong(d, k) ==
    /\ life[d] = "up" /\ pm.heard = d /\ asking[k][d] > 0
    /\ asking' = [asking EXCEPT ![k][d] = @ - 1]
    /\ jobs' = Append(jobs, IF k = "start" THEN "startPong" ELSE "wakePong")
    /\ pm' = [pm EXCEPT !.watchdog = TRUE]
    /\ UNCHANGED <<state, stop, world, overtaken>>

\* The process dies of a signal or with an error.
Die(d) ==
    /\ Alive(d)
    /\ Ended(d, "crashed")
    /\ UNCHANGED <<state, pm, jobs, stop, overtaken>>

\* amain() returns after SIGTERM or SIGINT, the app's or anybody's, or when its
\* stdin ends, a thread that works on a request permitting: status 0.
Leave(d) ==
    /\ life[d] = "up"
    /\ Ended(d, "exited")
    /\ UNCHANGED <<state, pm, jobs, stop, overtaken>>

\* The process stops answering and writes no heartbeat.
Freeze(d) ==
    /\ life[d] = "up"
    /\ life' = [life EXCEPT ![d] = "frozen"]
    /\ UNCHANGED <<state, pm, jobs, asking, stop, notice, overtaken>>

User == Open \/ Close \/ Retry \/ Wake

Next ==
    \/ User \/ RunJob
    \/ KillStopped \/ FinishStop \/ WatchdogFires \/ Age
    \/ \E d \in Daemons : \/ CrashHandled(d) \/ ExitHandled(d)
                          \/ \E k \in Checks : Pong(d, k)
                          \/ Die(d) \/ Leave(d) \/ Freeze(d)

Spec == Init /\ [][Next]_vars

\* No line has come for thirty seconds.
Silent == ~\E d \in Daemons : pm.heard = d /\ life[d] = "up"

\* The main actor and the kernel go on, timers run out, and a daemon that is not
\* frozen gets round to a ping, because the operations it runs end.  Nothing else
\* is owed; nobody has to open a window.
Fairness ==
    /\ WF_vars(RunJob)
    /\ WF_vars(KillStopped \/ FinishStop)
    /\ WF_vars(Silent /\ WatchdogFires)
    /\ \A d \in Daemons :
         /\ WF_vars(CrashHandled(d) \/ ExitHandled(d))
         /\ \A k \in Checks : WF_vars(Pong(d, k))

FairSpec == Spec /\ Fairness

-----------------------------------------------------------------------------
\* The type of every variable.
TypeOK ==
    /\ state \in {"notStarted", "starting", "ready", "failed", "shuttingDown", "shutDown"}
    /\ pm \in Managers
    /\ jobs \in Seq(Jobs)
    /\ asking \in [Checks -> [Daemons -> Nat]]
    /\ stop \in Daemons \cup {None}
    /\ life \in [Daemons -> {"absent", "up", "frozen"}]
    /\ notice \in [Daemons -> {"crashed", "exited", None}]
    /\ overtaken \in BOOLEAN

\* At most one daemon runs, and the manager holds it, as long as none was spawned
\* while the end of another was still under way: the termination handler and the
\* end of shutdown() drop whatever process the manager holds by then.
OneDaemonUnlessOvertaken ==
    ~overtaken => \A d \in Daemons : Alive(d) => pm.process = d

\* A manager with a process has its messenger, so "no stdout within 5s" is never
\* seen: startAsync() waits for a messenger that spawn() has made already.
MessengerAtOnce == pm.process # None => pm.messenger = pm.process

\* DAEM-06: daemons are spawned again and again only if the crashes are spread
\* over more than the window, or somebody asks for them again and again.
CrashLoopEnds == []<><<Spawn>>_vars => []<><<Age \/ User>>_vars

\* The process that the manager holds is watched, or its end is on its way to the
\* manager: one that stops talking is killed, in whatever state the app is.
DaemonWatched == pm.process # None => pm.watchdog \/ notice[pm.process] # None

\* Each spawn uses up a wake, a crash or a request: what may still be spawned before a
\* crash gets old or somebody asks for more.
Waiting(what) == Cardinality({i \in DOMAIN jobs : jobs[i] = what})
Chances == <<Waiting("wake"), CrashLimit - pm.crashes, Waiting("start")>>

\* DAEM-06: why crash loops end.  No crash, exit, hang or shutdown gives the app
\* another chance to spawn, and no sequence of them does; a wake does, once.
SpawnsRunOut ==
    [][~(Age \/ User) => /\ Chances' = Chances \/ Below(Chances', Chances)
                         /\ Spawn => Below(Chances', Chances)]_vars

\* No process is being started for ever: it answers, or it is given up, also when
\* it hangs, dies or is killed before its answer is read.
LaunchResolved ==
    \A d \in Daemons :
        state = "starting" /\ pm.process = d ~> state # "starting" \/ pm.process # d
=============================================================================
