----------------------- MODULE DaemonSupervisionProofs -----------------------
(***************************************************************************)
(* What holds of the supervision of the daemon for any number of processes *)
(* and any crash limit.  One daemon at a time needs to know, besides who    *)
(* runs, that nobody does while the end of a process is still under way.    *)
(* Second, the process that the manager holds is watched; third, the app    *)
(* runs out of spawns, counted by a triple of numbers that only the clock   *)
(* and the world outside can raise.                                         *)
(***************************************************************************)
EXTENDS DaemonSupervision, SequenceTheorems, FiniteSetTheorems, WellFoundedInduction,
        TLAPS

\* As long as no process was spawned too early: the process that shutdown() waits
\* for is the manager's, or the manager has dropped its own.
StopsItsOwn == ~overtaken /\ stop # None => pm.process \in {stop, None}

\* As long as no process was spawned too early: while a termination handler is
\* owed, no process runs.
QuietUntilHandled ==
    ~overtaken => \A d \in Daemons : notice[d] # None => \A e \in Daemons : ~Alive(e)

\* The inductive invariant behind OneDaemonUnlessOvertaken.
Supervised == OneDaemonUnlessOvertaken /\ StopsItsOwn /\ QuietUntilHandled

-----------------------------------------------------------------------------
\* The manager's record stays one whatever the helpers make of it.
LEMMA ManagerTypes ==
    ASSUME NEW m \in Managers
    PROVE  /\ Cleared(m) \in Managers /\ Forgiven(m) \in Managers
           /\ Crashed(m) \in Managers
           /\ \A d \in Daemons : Launch(m, d) \in Managers
<1>1. ASSUME NEW n \in 0..CrashLimit, NEW h \in BOOLEAN
      PROVE  [m EXCEPT !.crashes = n, !.halted = h] \in Managers
  BY DEF Managers
<1>2. Cleared(m) \in Managers /\ \A d \in Daemons : Launch(m, d) \in Managers
  BY DEF Managers, Cleared, Launch
<1>3. Forgiven(m) \in Managers
  <2>1. 0 \in 0..CrashLimit
    BY SupervisionConstants
  <2> QED BY <2>1, <1>1 DEF Forgiven
<1>4. Crashed(m) \in Managers
  <2> DEFINE n == IF m.crashes < CrashLimit THEN m.crashes + 1 ELSE CrashLimit
             h == m.halted \/ n = CrashLimit
  <2>1. n \in 0..CrashLimit
    BY SupervisionConstants DEF Managers
  <2>2. m.halted \in BOOLEAN
    BY DEF Managers
  <2>3. h \in BOOLEAN
    BY <2>2
  <2>4. Crashed(m) = [m EXCEPT !.crashes = n, !.halted = h]
    BY Zenon DEF Crashed
  <2> QED BY <1>1, <2>1, <2>3, <2>4
<1> QED BY <1>2, <1>3, <1>4

\* A health check more is a number of health checks.
LEMMA AskTypes ==
    ASSUME TypeOK, NEW k \in Checks, NEW d \in Daemons, Ask(k, d)
    PROVE  asking' \in [Checks -> [Daemons -> Nat]]
<1> DEFINE a == [asking[k] EXCEPT ![d] = @ + 1]
<1>1. a \in [Daemons -> Nat]
  BY DEF TypeOK
<1>2. asking' = [asking EXCEPT ![k] = a]
  BY DEF Ask
<1> HIDE DEF a
<1> QED BY <1>1, <1>2 DEF TypeOK

\* The process and the messenger of the manager come and go together.
LEMMA ManagerParts ==
    ASSUME NEW m \in Managers, NEW d
    PROVE  /\ Cleared(m).process = None /\ Cleared(m).messenger = None
           /\ Forgiven(m).process = m.process /\ Forgiven(m).messenger = m.messenger
           /\ Crashed(m).process = m.process /\ Crashed(m).messenger = m.messenger
           /\ Launch(m, d).process = d /\ Launch(m, d).messenger = d
BY DEF Managers, Cleared, Forgiven, Crashed, Launch

\* The queue of tasks loses its first and gains one at its end.
LEMMA JobTypes ==
    ASSUME NEW q \in Seq(Jobs), NEW what \in Jobs
    PROVE  /\ Append(q, what) \in Seq(Jobs)
           /\ q # <<>> => Tail(q) \in Seq(Jobs) /\ Append(Tail(q), what) \in Seq(Jobs)
BY AppendProperties, HeadTailProperties

\* The initial states have the types.
LEMMA InitType == Init => TypeOK
<1>1. 0 \in 0..CrashLimit
  BY SupervisionConstants
<1> SUFFICES ASSUME Init PROVE TypeOK
  OBVIOUS
<1>2. pm \in Managers
  BY <1>1 DEF Init, Managers
<1>3. jobs \in Seq(Jobs)
  BY EmptySeq DEF Init
<1>4. asking \in [Checks -> [Daemons -> Nat]]
  BY DEF Init
<1> QED BY <1>2, <1>3, <1>4 DEF Init, TypeOK

\* The end of a process has the types.
LEMMA EndedType ==
    ASSUME TypeOK, NEW d \in Daemons, NEW how \in {"crashed", "exited"}, Ended(d, how)
    PROVE  /\ asking' \in [Checks -> [Daemons -> Nat]]
           /\ life' \in [Daemons -> {"absent", "up", "frozen"}]
           /\ notice' \in [Daemons -> {"crashed", "exited", None}]
BY DEF TypeOK, Ended

\* Every step of the app, the system and the daemons keeps the types.
LEMMA NextType == TypeOK /\ MessengerAtOnce /\ [Next]_vars => TypeOK'
<1> SUFFICES ASSUME TypeOK, MessengerAtOnce, [Next]_vars PROVE TypeOK'
  OBVIOUS
<1> USE SupervisionConstants DEF world
<1>1. CASE UNCHANGED vars
  BY <1>1 DEF TypeOK, vars
<1>2. CASE User
  <2>1. pm' \in Managers
    <3>1. Forgiven(pm) \in Managers
      BY ManagerTypes DEF TypeOK
    <3> QED BY <1>2, <3>1 DEF User, Open, Close, Retry, Wake, TypeOK
  <2>2. jobs' \in Seq(Jobs)
    BY <1>2, JobTypes DEF User, Open, Close, Retry, Wake, TypeOK, Jobs
  <2> QED BY <1>2, <2>1, <2>2 DEF User, Open, Close, Retry, Wake, TypeOK
<1>3. CASE SpawnFails
  <2>1. jobs' \in Seq(Jobs)
    BY <1>3, HeadTailProperties DEF SpawnFails, Now, Done, TypeOK
  <2> QED BY <1>3, <2>1 DEF SpawnFails, TypeOK
<1>4. CASE Spawn
  <2>1. PICK d \in Daemons : /\ pm' = Launch(pm, d)
                             /\ life' = [life EXCEPT ![d] = "up"]
                             /\ Ask("start", d)
    BY <1>4 DEF Spawn
  <2>2. pm' \in Managers
    BY <2>1, ManagerTypes DEF TypeOK
  <2>3. jobs' \in Seq(Jobs)
    BY <1>4, HeadTailProperties DEF Spawn, Now, Done, TypeOK
  <2>4. overtaken' \in BOOLEAN
    BY <1>4 DEF Spawn, TypeOK, Pending
  <2>5. asking' \in [Checks -> [Daemons -> Nat]]
    BY <2>1, AskTypes DEF Checks
  <2> QED BY <1>4, <2>1, <2>2, <2>3, <2>4, <2>5 DEF Spawn, TypeOK
<1>5. CASE SpawnAgain
  <2>1. jobs' \in Seq(Jobs)
    BY <1>5, HeadTailProperties DEF SpawnAgain, Now, Done, TypeOK
  <2>2. asking' \in [Checks -> [Daemons -> Nat]]
    <3>1. pm.messenger \in Daemons
      BY <1>5 DEF SpawnAgain, Alive, MessengerAtOnce
    <3> QED BY <1>5, <3>1, AskTypes DEF SpawnAgain, Checks
  <2> QED BY <1>5, <2>1, <2>2 DEF SpawnAgain, TypeOK
<1>6. CASE CheckAfterWake
  <2>1. jobs # <<>>
    BY <1>6 DEF CheckAfterWake, Now
  <2>2. CASE Alive(pm.messenger)
    <3>1. asking' \in [Checks -> [Daemons -> Nat]]
      BY <1>6, <2>2, AskTypes DEF CheckAfterWake, Alive, Checks
    <3>2. jobs' \in Seq(Jobs)
      <4>1. jobs' = Tail(jobs)
        BY <1>6, <2>2 DEF CheckAfterWake, Done
      <4> QED BY <2>1, <4>1, HeadTailProperties DEF TypeOK
    <3> QED BY <1>6, <2>2, <3>1, <3>2 DEF CheckAfterWake, TypeOK
  <2>3. CASE ~Alive(pm.messenger)
    <3>1. pm' \in Managers
      BY <1>6, <2>3, ManagerTypes DEF CheckAfterWake, TypeOK
    <3>2. jobs' \in Seq(Jobs)
      BY <1>6, <2>1, <2>3, JobTypes DEF CheckAfterWake, DoneThen, TypeOK, Jobs
    <3> QED BY <1>6, <2>3, <3>1, <3>2 DEF CheckAfterWake, TypeOK
  <2> QED BY <2>2, <2>3
<1>7. CASE HealthChecked
  <2>1. jobs' \in Seq(Jobs)
    BY <1>7, HeadTailProperties DEF HealthChecked, Now, Done, TypeOK
  <2> QED BY <1>7, <2>1 DEF HealthChecked, TypeOK, Managers
<1>8. CASE BeginStop
  <2>1. jobs' \in Seq(Jobs)
    BY <1>8, HeadTailProperties DEF BeginStop, Now, Done, TypeOK
  <2>2. pm' \in Managers
    <3>1. pm' \in {[pm EXCEPT !.heard = None], [pm EXCEPT !.process = None]}
      BY <1>8 DEF BeginStop
    <3>2. pm \in Managers
      BY DEF TypeOK
    <3>3. [pm EXCEPT !.heard = None] \in Managers
      BY <3>2 DEF Managers
    <3>4. [pm EXCEPT !.process = None] \in Managers
      BY <3>2 DEF Managers
    <3> QED BY <3>1, <3>3, <3>4
  <2> QED BY <1>8, <2>1, <2>2 DEF BeginStop, TypeOK, Alive
<1>9. CASE KillStopped
  BY <1>9, EndedType DEF KillStopped, TypeOK, Alive
<1>10. CASE FinishStop
  BY <1>10, ManagerTypes DEF FinishStop, TypeOK
<1>11. CASE WatchdogFires
  <2>1. pm' \in Managers
    <3>1. Crashed(pm) \in Managers
      BY ManagerTypes DEF TypeOK
    <3> DEFINE m == Crashed(pm)
    <3>2. pm' = [m EXCEPT !.watchdog = FALSE]
      BY <1>11 DEF WatchdogFires
    <3> HIDE DEF m
    <3> QED BY <3>1, <3>2 DEF Managers, m
  <2>2. CASE Alive(pm.process)
    <3>1. Ended(pm.process, "crashed")
      BY <1>11, <2>2 DEF WatchdogFires
    <3> QED BY <1>11, <2>1, <2>2, <3>1, EndedType DEF WatchdogFires, TypeOK, Alive
  <2>3. CASE ~Alive(pm.process)
    BY <1>11, <2>1, <2>3 DEF WatchdogFires, TypeOK
  <2> QED BY <2>2, <2>3
<1>12. CASE Age
  <2>1. pm.crashes - 1 \in 0..CrashLimit
    BY <1>12 DEF Age, TypeOK, Managers
  <2>2. pm' \in Managers
    BY <1>12, <2>1 DEF Age, TypeOK, Managers
  <2> QED BY <1>12, <2>2 DEF Age, TypeOK
<1>13. ASSUME NEW d \in Daemons, CrashHandled(d) PROVE TypeOK'
  <2>1. pm' \in Managers
    BY <1>13, ManagerTypes DEF CrashHandled, TypeOK
  <2>2. jobs' \in Seq(Jobs)
    BY <1>13, JobTypes DEF CrashHandled, TypeOK, Jobs
  <2> QED BY <1>13, <2>1, <2>2 DEF CrashHandled, TypeOK
<1>14. ASSUME NEW d \in Daemons, ExitHandled(d) PROVE TypeOK'
  BY <1>14, ManagerTypes DEF ExitHandled, TypeOK
<1>15. ASSUME NEW d \in Daemons, NEW k \in Checks, Pong(d, k) PROVE TypeOK'
  <2>1. jobs' \in Seq(Jobs)
    BY <1>15, JobTypes DEF Pong, TypeOK, Jobs
  <2>2. pm' \in Managers
    BY <1>15 DEF Pong, TypeOK, Managers
  <2>3. asking' \in [Checks -> [Daemons -> Nat]]
    BY <1>15 DEF Pong, TypeOK
  <2> QED BY <1>15, <2>1, <2>2, <2>3 DEF Pong, TypeOK
<1>16. ASSUME NEW d \in Daemons, Die(d) \/ Leave(d) PROVE TypeOK'
  BY <1>16, EndedType DEF Die, Leave, TypeOK
<1>17. ASSUME NEW d \in Daemons, Freeze(d) PROVE TypeOK'
  BY <1>17 DEF Freeze, TypeOK
<1> QED
  BY <1>1, <1>2, <1>3, <1>4, <1>5, <1>6, <1>7, <1>8, <1>9, <1>10, <1>11, <1>12,
     <1>13, <1>14, <1>15, <1>16, <1>17 DEF Next, RunJob

\* Every step leaves a manager that has a process with its messenger.
LEMMA NextMessenger == TypeOK /\ MessengerAtOnce /\ [Next]_vars => MessengerAtOnce'
<1> SUFFICES ASSUME TypeOK, MessengerAtOnce, [Next]_vars PROVE MessengerAtOnce'
  OBVIOUS
<1> USE SupervisionConstants DEF MessengerAtOnce, world
<1>0. pm \in Managers
  BY DEF TypeOK
<1>1. CASE pm' = pm
  BY <1>1
<1>2. CASE Retry \/ CheckAfterWake
  BY <1>0, <1>2, ManagerParts DEF Retry, CheckAfterWake
<1>3. CASE Spawn
  BY <1>0, <1>3, ManagerParts DEF Spawn
<1>4. CASE HealthChecked \/ Age
  BY <1>0, <1>4 DEF HealthChecked, Age, Managers
<1>5. CASE BeginStop
  BY <1>0, <1>5 DEF BeginStop, Managers
<1>6. CASE FinishStop \/ \E d \in Daemons : ExitHandled(d)
  BY <1>0, <1>6, ManagerParts DEF FinishStop, ExitHandled
<1>7. ASSUME NEW d \in Daemons, CrashHandled(d) PROVE MessengerAtOnce'
  <2>1. pm' = Cleared(Crashed(pm)) /\ Crashed(pm) \in Managers
    BY <1>0, <1>7, ManagerTypes DEF CrashHandled
  <2> QED BY <2>1, ManagerParts
<1>8. CASE WatchdogFires
  <2>1. PICK m \in Managers : m = Crashed(pm)
    BY <1>0, ManagerTypes
  <2>2. pm' = [m EXCEPT !.watchdog = FALSE]
    BY <1>8, <2>1 DEF WatchdogFires
  <2>3. m.process = pm.process /\ m.messenger = pm.messenger
    BY <1>0, <2>1, ManagerParts
  <2> QED BY <2>2, <2>3 DEF Managers
<1>9. ASSUME NEW d \in Daemons, NEW k \in Checks, Pong(d, k) PROVE MessengerAtOnce'
  BY <1>0, <1>9 DEF Pong, Managers
<1> QED
  BY <1>1, <1>2, <1>3, <1>4, <1>5, <1>6, <1>7, <1>8, <1>9
     DEF vars, Next, User, RunJob, Open, Close, Wake, SpawnFails, SpawnAgain,
         KillStopped, Die, Leave, Freeze

\* Initially there is no process.
LEMMA InitMessenger == Init => MessengerAtOnce
BY DEF Init, MessengerAtOnce

(***************************************************************************)
(* Type correctness: the state restarting, for one, never outlasts a step. *)
(***************************************************************************)
THEOREM TypeCorrect == Spec => []TypeOK
BY InitType, InitMessenger, NextType, NextMessenger, PTL DEF Spec

(***************************************************************************)
(* A manager with a process has its messenger at once: the five seconds    *)
(* that startAsync() would wait for one are never waited.                  *)
(***************************************************************************)
THEOREM MessengerComesWithProcess == Spec => []MessengerAtOnce
BY InitType, InitMessenger, NextType, NextMessenger, PTL DEF Spec

-----------------------------------------------------------------------------
\* What a step does to the processes that run.
LEMMA EndedQuiet ==
    ASSUME TypeOK, NEW d \in Daemons, NEW how, Ended(d, how)
    PROVE  /\ life'[d] = "absent"
           /\ \A e \in Daemons \ {d} : life'[e] = life[e] /\ notice'[e] = notice[e]
BY DEF TypeOK, Ended

\* A process that ends was the only one, so none is left while its handler is owed.
LEMMA EndedSupervised ==
    ASSUME TypeOK, Supervised, NEW d \in Daemons, NEW how, Alive(d), Ended(d, how),
           stop' = stop, overtaken' = overtaken,
           pm'.process = pm.process
    PROVE  Supervised'
<1>1. ~overtaken => \A e \in Daemons : ~Alive(e)'
  BY EndedQuiet DEF Supervised, OneDaemonUnlessOvertaken, Alive
<1> QED BY <1>1 DEF Supervised, OneDaemonUnlessOvertaken, StopsItsOwn, QuietUntilHandled

\* A step that neither starts nor ends a process, nor drops the manager's one.
LEMMA SameSupervised ==
    ASSUME Supervised, pm'.process = pm.process, stop' = stop, overtaken' = overtaken,
           \A d \in Daemons : Alive(d)' = Alive(d) /\ notice'[d] \in {notice[d], None}
    PROVE  Supervised'
BY DEF Supervised, OneDaemonUnlessOvertaken, StopsItsOwn, QuietUntilHandled

\* Initially no process runs.
LEMMA InitSupervised == Init => Supervised
BY DEF Init, Supervised, OneDaemonUnlessOvertaken, StopsItsOwn, QuietUntilHandled, Alive

\* Whatever ends, stops, is handled or spawned, and in whatever order: the manager
\* does not lose the one process that runs.
LEMMA NextSupervised == TypeOK /\ Supervised /\ [Next]_vars => Supervised'
<1> SUFFICES ASSUME TypeOK, Supervised, [Next]_vars PROVE Supervised'
  OBVIOUS
<1> USE SupervisionConstants DEF world
<1>0. pm \in Managers
  BY DEF TypeOK
<1>1. CASE UNCHANGED vars
  BY <1>1, SameSupervised DEF vars, Alive
<1>2. CASE User \/ CheckAfterWake
  <2>1. pm'.process = pm.process
    BY <1>0, <1>2, ManagerParts DEF User, Open, Close, Retry, Wake, CheckAfterWake
  <2> QED BY <1>2, <2>1, SameSupervised
          DEF User, Open, Close, Retry, Wake, CheckAfterWake, Alive
<1>3. CASE SpawnFails \/ SpawnAgain
  BY <1>3, SameSupervised DEF SpawnFails, SpawnAgain, Alive
<1>4. CASE HealthChecked \/ Age
  <2>1. pm'.process = pm.process
    BY <1>0, <1>4 DEF HealthChecked, Age, Managers
  <2> QED BY <1>4, <2>1, SameSupervised DEF HealthChecked, Age, Alive
<1>5. CASE Spawn
  <2>1. PICK d \in Daemons : pm' = Launch(pm, d) /\ life' = [life EXCEPT ![d] = "up"]
    BY <1>5 DEF Spawn
  <2>2. pm'.process = d
    BY <1>0, <2>1, ManagerParts
  <2>3. ~overtaken' => stop' = None /\ \A e \in Daemons : notice'[e] = None
    BY <1>5 DEF Spawn, Pending
  <2>4. ~overtaken' => \A e \in Daemons : ~Alive(e)
    BY <1>5 DEF Spawn, Spawnable, Supervised, OneDaemonUnlessOvertaken
  <2>5. \A e \in Daemons : Alive(e)' => Alive(e) \/ e = d
    BY <2>1 DEF Alive, TypeOK
  <2> QED BY <2>2, <2>3, <2>4, <2>5
          DEF Supervised, OneDaemonUnlessOvertaken, StopsItsOwn, QuietUntilHandled
<1>6. CASE BeginStop
  <2>1. CASE Alive(pm.process)
    <3>1. pm'.process = pm.process /\ stop' = pm.process
      BY <1>0, <1>6, <2>1 DEF BeginStop, Managers
    <3> QED BY <1>6, <3>1 DEF BeginStop, Supervised, OneDaemonUnlessOvertaken,
               StopsItsOwn, QuietUntilHandled, Alive
  <2>2. CASE ~Alive(pm.process)
    <3>1. pm'.process = None /\ stop' = stop
      BY <1>0, <1>6, <2>2 DEF BeginStop, Managers
    <3> QED BY <1>6, <2>2, <3>1 DEF BeginStop, Supervised, OneDaemonUnlessOvertaken,
               StopsItsOwn, QuietUntilHandled, Alive
  <2> QED BY <2>1, <2>2
<1>7. CASE KillStopped
  BY <1>7, EndedSupervised DEF KillStopped, Alive
<1>8. CASE FinishStop
  <2>1. pm'.process = None
    BY <1>0, <1>8, ManagerParts DEF FinishStop
  <2>2. ~overtaken => \A e \in Daemons : ~Alive(e)
    BY <1>8 DEF FinishStop, Supervised, OneDaemonUnlessOvertaken, StopsItsOwn
  <2> QED BY <1>8, <2>1, <2>2 DEF FinishStop, Supervised, OneDaemonUnlessOvertaken,
             StopsItsOwn, QuietUntilHandled, Alive
<1>9. ASSUME NEW d \in Daemons, CrashHandled(d) \/ ExitHandled(d) PROVE Supervised'
  <2>1. pm'.process = None
    <3>1. CASE ExitHandled(d)
      BY <1>0, <3>1, ManagerParts DEF ExitHandled
    <3>2. CASE CrashHandled(d)
      <4>1. pm' = Cleared(Crashed(pm)) /\ Crashed(pm) \in Managers
        BY <1>0, <3>2, ManagerTypes DEF CrashHandled
      <4> QED BY <4>1, ManagerParts
    <3> QED BY <1>9, <3>1, <3>2
  <2>2. ~overtaken => \A e \in Daemons : ~Alive(e)
    BY <1>9 DEF CrashHandled, ExitHandled, Supervised, QuietUntilHandled
  <2>3. \A e \in Daemons : Alive(e)' = Alive(e)
    BY <1>9 DEF CrashHandled, ExitHandled, Alive
  <2>4. stop' = stop /\ overtaken' = overtaken
    BY <1>9 DEF CrashHandled, ExitHandled
  <2> QED BY <2>1, <2>2, <2>3, <2>4 DEF Supervised,
             OneDaemonUnlessOvertaken, StopsItsOwn, QuietUntilHandled
<1>10. CASE WatchdogFires
  <2>1. PICK m \in Managers : m = Crashed(pm)
    BY <1>0, ManagerTypes
  <2>2. pm'.process = pm.process
    <3>1. pm' = [m EXCEPT !.watchdog = FALSE]
      BY <1>10, <2>1 DEF WatchdogFires
    <3> QED BY <1>0, <2>1, <3>1, ManagerParts DEF Managers
  <2>3. CASE Alive(pm.process)
    BY <1>10, <2>2, <2>3, EndedSupervised DEF WatchdogFires, Alive
  <2>4. CASE ~Alive(pm.process)
    BY <1>10, <2>2, <2>4, SameSupervised DEF WatchdogFires, Alive
  <2> QED BY <2>3, <2>4
<1>11. ASSUME NEW d \in Daemons, NEW k \in Checks, Pong(d, k) PROVE Supervised'
  <2>1. pm'.process = pm.process
    BY <1>0, <1>11 DEF Pong, Managers
  <2> QED BY <1>11, <2>1, SameSupervised DEF Pong, Alive
<1>12. ASSUME NEW d \in Daemons, Die(d) \/ Leave(d) PROVE Supervised'
  BY <1>12, EndedSupervised DEF Die, Leave, Alive
<1>13. ASSUME NEW d \in Daemons, Freeze(d) PROVE Supervised'
  <2>1. \A e \in Daemons : Alive(e)' = Alive(e)
    BY <1>13 DEF Freeze, Alive, TypeOK
  <2> QED BY <1>13, <2>1, SameSupervised DEF Freeze
<1> QED
  BY <1>1, <1>2, <1>3, <1>4, <1>5, <1>6, <1>7, <1>8, <1>9, <1>10, <1>11, <1>12, <1>13
     DEF Next, RunJob

(***************************************************************************)
(* One daemon at a time: unless a process was spawned while the end of      *)
(* another, or a shutdown, was still under way, whatever runs is the        *)
(* manager's process, for any number of processes and any crash limit.      *)
(***************************************************************************)
THEOREM OneDaemonAtATime == Spec => []OneDaemonUnlessOvertaken
<1>1. Supervised => OneDaemonUnlessOvertaken
  BY DEF Supervised
<1> QED
  BY <1>1, InitType, InitMessenger, NextType, NextMessenger, InitSupervised,
     NextSupervised, PTL DEF Spec

-----------------------------------------------------------------------------
\* What the helpers make of the watchdog and of the number of crashes.
LEMMA ManagerCounts ==
    ASSUME NEW m \in Managers, NEW d
    PROVE  /\ Launch(m, d).watchdog /\ Forgiven(m).watchdog = m.watchdog
           /\ Cleared(m).crashes = m.crashes /\ Launch(m, d).crashes = m.crashes
           /\ m.crashes <= Crashed(m).crashes /\ Crashed(m).crashes <= CrashLimit
           /\ ~Crashed(m).halted => m.crashes < Crashed(m).crashes
<1>1. /\ Launch(m, d).watchdog /\ Forgiven(m).watchdog = m.watchdog
      /\ Cleared(m).crashes = m.crashes /\ Launch(m, d).crashes = m.crashes
  BY DEF Managers, Cleared, Forgiven, Launch
<1>2. m.crashes \in Nat /\ m.crashes <= CrashLimit /\ CrashLimit \in Nat
  BY SupervisionConstants DEF Managers
<1> DEFINE n == IF m.crashes < CrashLimit THEN m.crashes + 1 ELSE CrashLimit
<1>3. Crashed(m).crashes = n /\ (n = CrashLimit => Crashed(m).halted)
  BY DEF Managers, Crashed
<1> QED BY <1>1, <1>2, <1>3

\* The process of the manager runs or has ended, and then its handler is owed.
Noticed == pm.process # None => Alive(pm.process) \/ notice[pm.process] # None

\* The inductive invariant behind DaemonWatched.
Watched == DaemonWatched /\ Noticed

LEMMA InitWatched == Init => Watched
BY DEF Init, Watched, DaemonWatched, Noticed

\* Watchdog, handlers and processes in any order.
LEMMA NextWatched == TypeOK /\ Watched /\ [Next]_vars => Watched'
<1> SUFFICES ASSUME TypeOK, Watched, [Next]_vars PROVE Watched'
  OBVIOUS
<1> USE SupervisionConstants DEF world
<1>0. pm \in Managers
  BY DEF TypeOK
<1> DEFINE Dropped == pm'.process = None
           Same == /\ pm'.process = pm.process /\ (pm.watchdog => pm'.watchdog)
                   /\ life' = life /\ notice' = notice
\* No process, no duty; and a process as watched as it was.
<1>1. Dropped => Watched'
  BY DEF Watched, DaemonWatched, Noticed
<1>2. Same => Watched'
  BY DEF Watched, DaemonWatched, Noticed, Alive
<1>3. CASE UNCHANGED vars
  BY <1>2, <1>3 DEF vars
<1>4. CASE User \/ CheckAfterWake
  <2>1. pm' = pm \/ pm' = Forgiven(pm)
    BY <1>4 DEF User, Open, Close, Retry, Wake, CheckAfterWake
  <2> QED BY <1>0, <1>2, <1>4, <2>1, ManagerParts, ManagerCounts
          DEF User, Open, Close, Retry, Wake, CheckAfterWake
<1>5. CASE SpawnFails \/ SpawnAgain
  BY <1>2, <1>5 DEF SpawnFails, SpawnAgain
<1>6. CASE HealthChecked \/ Age
  BY <1>0, <1>2, <1>6 DEF HealthChecked, Age, Managers
<1>7. CASE Spawn
  <2>1. PICK d \in Daemons : pm' = Launch(pm, d) /\ life' = [life EXCEPT ![d] = "up"]
    BY <1>7 DEF Spawn
  <2>2. pm'.process = d /\ pm'.watchdog
    BY <1>0, <2>1, ManagerParts, ManagerCounts
  <2>3. life'[d] = "up"
    BY <2>1 DEF TypeOK
  <2> QED BY <2>2, <2>3 DEF Watched, DaemonWatched, Noticed, Alive
<1>8. CASE BeginStop
  BY <1>0, <1>1, <1>2, <1>8 DEF BeginStop, Managers
<1>9. CASE FinishStop \/ \E d \in Daemons : ExitHandled(d)
  BY <1>0, <1>1, <1>9, ManagerParts DEF FinishStop, ExitHandled
<1>10. ASSUME NEW d \in Daemons, CrashHandled(d) PROVE Watched'
  <2>1. pm' = Cleared(Crashed(pm)) /\ Crashed(pm) \in Managers
    BY <1>0, <1>10, ManagerTypes DEF CrashHandled
  <2> QED BY <1>1, <2>1, ManagerParts
<1>11. ASSUME NEW d \in Daemons, NEW how \in {"crashed", "exited"}, Ended(d, how),
              pm'.process = pm.process, pm.process # d => pm'.watchdog = pm.watchdog
       PROVE  Watched'
  <2>1. notice'[d] = how /\ \A e \in Daemons \ {d} : life'[e] = life[e] /\ notice'[e] = notice[e]
    BY <1>11, EndedQuiet DEF Ended, TypeOK
  <2>2. CASE pm.process = d
    BY <1>11, <2>1, <2>2 DEF Watched, DaemonWatched, Noticed
  <2>3. CASE pm.process # d
    BY <1>0, <1>11, <2>1, <2>3 DEF Watched, DaemonWatched, Noticed, Alive, Managers
  <2> QED BY <2>2, <2>3
<1>12. CASE KillStopped
  BY <1>11, <1>12 DEF KillStopped, Alive
<1>13. ASSUME NEW d \in Daemons, Die(d) \/ Leave(d) PROVE Watched'
  BY <1>11, <1>13 DEF Die, Leave
<1>14. CASE WatchdogFires
  <2>1. PICK m \in Managers : m = Crashed(pm)
    BY <1>0, ManagerTypes
  <2>2. pm' = [m EXCEPT !.watchdog = FALSE]
    BY <1>14, <2>1 DEF WatchdogFires
  <2>3. pm'.process = pm.process
    BY <1>0, <2>1, <2>2, ManagerParts DEF Managers
  <2>4. CASE Alive(pm.process)
    <3>1. Ended(pm.process, "crashed") /\ pm.process \in Daemons
      BY <1>14, <2>4 DEF WatchdogFires, Alive
    <3> QED BY <1>11, <2>3, <3>1
  <2>5. CASE ~Alive(pm.process)
    BY <1>14, <2>3, <2>5 DEF WatchdogFires, Watched, DaemonWatched, Noticed, Alive
  <2> QED BY <2>4, <2>5
<1>15. ASSUME NEW d \in Daemons, NEW k \in Checks, Pong(d, k) PROVE Watched'
  BY <1>0, <1>2, <1>15 DEF Pong, Managers
<1>16. ASSUME NEW d \in Daemons, Freeze(d) PROVE Watched'
  <2>1. \A e \in Daemons : Alive(e)' = Alive(e)
    BY <1>16 DEF Freeze, Alive, TypeOK
  <2> QED BY <1>0, <1>16, <2>1 DEF Freeze, Watched, DaemonWatched, Noticed, Managers
<1> QED
  BY <1>3, <1>4, <1>5, <1>6, <1>7, <1>8, <1>9, <1>10, <1>12, <1>13, <1>14, <1>15, <1>16
     DEF Next, RunJob

(***************************************************************************)
(* Whatever process the manager holds, the watchdog is armed for it or its  *)
(* termination handler is owed, for any number of processes and crashes.    *)
(***************************************************************************)
THEOREM HangsAreNoticed == Spec => []DaemonWatched
<1>1. Watched => DaemonWatched
  BY DEF Watched
<1> QED
  BY <1>1, InitType, InitMessenger, NextType, NextMessenger, InitWatched, NextWatched,
     PTL DEF Spec

-----------------------------------------------------------------------------
(***************************************************************************)
(* Spawns run out.                                                          *)
(***************************************************************************)

\* Where a task is in a queue.
Places(q, what) == {i \in DOMAIN q : q[i] = what}

\* How often it is there.
LEMMA PlacesCount ==
    ASSUME NEW q \in Seq(Jobs), NEW what
    PROVE  IsFiniteSet(Places(q, what)) /\ Cardinality(Places(q, what)) \in Nat
<1>1. IsFiniteSet(1..Len(q))
  BY FS_Interval, LenProperties
<1>2. Places(q, what) \subseteq 1..Len(q)
  BY LenProperties DEF Places
<1> QED BY <1>1, <1>2, FS_Subset, FS_CardinalityType

\* One task more at the end of the queue.
LEMMA PlacesAppend ==
    ASSUME NEW q \in Seq(Jobs), NEW job \in Jobs, NEW what
    PROVE  Cardinality(Places(Append(q, job), what))
               = Cardinality(Places(q, what)) + (IF job = what THEN 1 ELSE 0)
<1> DEFINE n == Len(q) + 1
<1>1. /\ n \in Nat /\ DOMAIN q = 1..Len(q) /\ DOMAIN Append(q, job) = 1..n
      /\ \A i \in 1..Len(q) : Append(q, job)[i] = q[i]
      /\ Append(q, job)[n] = job /\ n \notin DOMAIN q
  BY AppendProperties, LenProperties
<1>2. 1..n = DOMAIN q \cup {n}
  BY <1>1, LenProperties
<1> HIDE DEF n
<1>3. CASE job = what
  <2>1. Places(Append(q, job), what) = Places(q, what) \cup {n}
    BY <1>1, <1>2, <1>3 DEF Places
  <2>2. n \notin Places(q, what)
    BY <1>1 DEF Places
  <2>3. Cardinality(Places(q, what) \cup {n}) = Cardinality(Places(q, what)) + 1
    BY <2>2, PlacesCount, FS_AddElement
  <2> QED BY <1>3, <2>1, <2>3
<1>4. CASE job # what
  <2>1. Places(Append(q, job), what) = Places(q, what)
    BY <1>1, <1>2, <1>4 DEF Places
  <2> QED BY <1>4, <2>1, PlacesCount
<1> QED BY <1>3, <1>4

\* The first task of the queue gone.
LEMMA PlacesTail ==
    ASSUME NEW q \in Seq(Jobs), q # <<>>, NEW what
    PROVE  Cardinality(Places(q, what))
               = Cardinality(Places(Tail(q), what)) + (IF Head(q) = what THEN 1 ELSE 0)
<1> DEFINE t == Tail(q)
           B == Places(t, what)
           A == Places(q, what) \ {1}
           g == [i \in B |-> i + 1]
<1>1. /\ t \in Seq(Jobs) /\ Len(q) \in Nat \ {0} /\ Len(t) = Len(q) - 1
      /\ DOMAIN q = 1..Len(q) /\ DOMAIN t = 1..Len(t)
      /\ \A i \in 1..Len(t) : t[i] = q[i + 1]
      /\ q[1] = Head(q)
  BY HeadTailProperties, LenProperties, EmptySeq
<1>2. \A i \in 1..Len(t) : i \in Int /\ i + 1 \in DOMAIN q /\ i + 1 # 1
  BY <1>1
<1>3. \A j \in DOMAIN q \ {1} : j - 1 \in DOMAIN t /\ (j - 1) + 1 = j
  BY <1>1
<1> HIDE DEF t
<1>4. g \in Bijection(B, A)
  <2>1. g \in [B -> A]
    BY <1>1, <1>2 DEF Places
  <2>2. \A a, b \in B : g[a] = g[b] => a = b
    BY <1>1, <1>2 DEF Places
  <2>3. \A j \in A : \E i \in B : g[i] = j
    BY <1>1, <1>3 DEF Places
  <2> QED BY <2>1, <2>2, <2>3 DEF Bijection, Injection, Surjection, IsInjective
<1>5. IsFiniteSet(B) /\ Cardinality(B) \in Nat /\ IsFiniteSet(Places(q, what))
      /\ Cardinality(Places(q, what)) \in Nat
  BY <1>1, PlacesCount
<1>6. IsFiniteSet(A) /\ Cardinality(A) = Cardinality(B)
  BY <1>4, <1>5, FS_Bijection DEF ExistsBijection
<1>7. B = Places(Tail(q), what)
  BY DEF t
<1>8. CASE Head(q) = what
  <2>1. 1 \in Places(q, what)
    BY <1>1, <1>8 DEF Places
  <2>2. Cardinality(A) = Cardinality(Places(q, what)) - 1
    BY <1>5, <2>1, FS_RemoveElement
  <2> HIDE DEF A, B
  <2> QED BY <1>5, <1>6, <1>7, <1>8, <2>2
<1>9. CASE Head(q) # what
  <2>1. A = Places(q, what)
    BY <1>1, <1>9 DEF Places
  <2> HIDE DEF A, B
  <2> QED BY <1>5, <1>6, <1>7, <1>9, <2>1
<1> QED BY <1>8, <1>9

\* How many tasks of a kind are in a queue.
Count(q, what) == Cardinality(Places(q, what))

LEMMA CountSteps ==
    ASSUME NEW q \in Seq(Jobs), NEW job \in Jobs, NEW what
    PROVE  /\ Count(q, what) \in Nat
           /\ Count(Append(q, job), what) = Count(q, what) + (IF job = what THEN 1 ELSE 0)
           /\ q # <<>> => Count(q, what)
                            = Count(Tail(q), what) + (IF Head(q) = what THEN 1 ELSE 0)
<1>1. Count(q, what) \in Nat
  BY PlacesCount DEF Count
<1>2. Count(Append(q, job), what) = Count(q, what) + (IF job = what THEN 1 ELSE 0)
  BY PlacesAppend DEF Count
<1>3. q # <<>> => Count(q, what)
                    = Count(Tail(q), what) + (IF Head(q) = what THEN 1 ELSE 0)
  BY PlacesTail DEF Count
<1> QED BY <1>1, <1>2, <1>3

\* A task of another kind does not count.
LEMMA CountOther ==
    ASSUME NEW q \in Seq(Jobs), NEW job \in Jobs, NEW what, job # what
    PROVE  Count(Append(q, job), what) = Count(q, what)
<1>1. /\ Count(q, what) \in Nat
      /\ Count(Append(q, job), what) = Count(q, what) + (IF job = what THEN 1 ELSE 0)
  BY CountSteps
<1> QED BY <1>1

\* Triples are compared place by place.
LEMMA BelowCases ==
    ASSUME NEW a1 \in Nat, NEW a2 \in Nat, NEW a3 \in Nat,
           NEW b1 \in Nat, NEW b2 \in Nat, NEW b3 \in Nat
    PROVE  /\ a1 < b1 => Below(<<a1, a2, a3>>, <<b1, b2, b3>>)
           /\ a1 = b1 /\ a2 < b2 => Below(<<a1, a2, a3>>, <<b1, b2, b3>>)
           /\ a1 = b1 /\ a2 = b2 /\ a3 < b3 => Below(<<a1, a2, a3>>, <<b1, b2, b3>>)
<1> DEFINE a == <<a1, a2, a3>>  b == <<b1, b2, b3>>
<1>1. /\ a[1] = a1 /\ a[2] = a2 /\ a[3] = a3 /\ b[1] = b1 /\ b[2] = b2 /\ b[3] = b3
      /\ 1 \in DOMAIN a /\ 2 \in DOMAIN a /\ 3 \in DOMAIN a
  OBVIOUS
<1> HIDE DEF a, b
<1>2. a1 < b1 => Below(a, b)
  <2>1. \A i \in 1..(1 - 1) : FALSE
    OBVIOUS
  <2> QED BY <1>1, <2>1 DEF Below
<1>3. a1 = b1 /\ a2 < b2 => Below(a, b)
  <2>1. \A i \in 1..(2 - 1) : i = 1
    OBVIOUS
  <2> QED BY <1>1, <2>1 DEF Below
<1>4. a1 = b1 /\ a2 = b2 /\ a3 < b3 => Below(a, b)
  <2>1. \A i \in 1..(3 - 1) : i = 1 \/ i = 2
    OBVIOUS
  <2> QED BY <1>1, <2>1 DEF Below
<1> QED BY <1>2, <1>3, <1>4 DEF a, b

\* What a step does to the chances, in terms of the queue and the crashes.
LEMMA ChancesTaken ==
    ASSUME TypeOK, TypeOK'
    PROVE  LET fewer(what) == Count(jobs', what) < Count(jobs, what)
               same(what) == Count(jobs', what) = Count(jobs, what)
           IN  /\ fewer("wake") => Below(Chances', Chances)
               /\ same("wake") /\ pm.crashes < pm'.crashes => Below(Chances', Chances)
               /\ same("wake") /\ pm.crashes = pm'.crashes /\ fewer("start")
                      => Below(Chances', Chances)
               /\ same("wake") /\ pm.crashes = pm'.crashes /\ same("start")
                      => Chances' = Chances
<1>1. PICK a1 \in Nat, a2 \in Nat, a3 \in Nat, a0 \in Nat :
          /\ Count(jobs', "wake") = a1 /\ a2 = CrashLimit - a0 /\ Count(jobs', "start") = a3
          /\ pm'.crashes = a0 /\ Chances' = <<a1, a2, a3>>
  <2>1. Count(jobs', "wake") \in Nat /\ Count(jobs', "start") \in Nat
    BY CountSteps DEF TypeOK, Jobs
  <2>2. pm'.crashes \in Nat /\ CrashLimit - pm'.crashes \in Nat
    BY SupervisionConstants DEF TypeOK, Managers
  <2>3. Chances' = <<Count(jobs', "wake"), CrashLimit - pm'.crashes, Count(jobs', "start")>>
    BY DEF Chances, Waiting, Count, Places
  <2> QED BY <2>1, <2>2, <2>3
<1>2. PICK b1 \in Nat, b2 \in Nat, b3 \in Nat, b0 \in Nat :
          /\ Count(jobs, "wake") = b1 /\ b2 = CrashLimit - b0 /\ Count(jobs, "start") = b3
          /\ pm.crashes = b0 /\ Chances = <<b1, b2, b3>>
  <2>1. Count(jobs, "wake") \in Nat /\ Count(jobs, "start") \in Nat
    BY CountSteps DEF TypeOK, Jobs
  <2>2. pm.crashes \in Nat /\ CrashLimit - pm.crashes \in Nat
    BY SupervisionConstants DEF TypeOK, Managers
  <2>3. Chances = <<Count(jobs, "wake"), CrashLimit - pm.crashes, Count(jobs, "start")>>
    BY DEF Chances, Waiting, Count, Places
  <2> QED BY <2>1, <2>2, <2>3
<1>3. /\ b0 < a0 => a2 < b2
      /\ b0 = a0 => a2 = b2
  BY <1>1, <1>2, SupervisionConstants
<1>4. /\ a1 < b1 => Below(<<a1, a2, a3>>, <<b1, b2, b3>>)
      /\ a1 = b1 /\ a2 < b2 => Below(<<a1, a2, a3>>, <<b1, b2, b3>>)
      /\ a1 = b1 /\ a2 = b2 /\ a3 < b3 => Below(<<a1, a2, a3>>, <<b1, b2, b3>>)
  BY BelowCases
<1>5. a1 < b1 => Below(Chances', Chances)
  BY <1>1, <1>2, <1>4
<1>6. a1 = b1 /\ b0 < a0 => Below(Chances', Chances)
  BY <1>1, <1>2, <1>3, <1>4
<1>7. a1 = b1 /\ b0 = a0 /\ a3 < b3 => Below(Chances', Chances)
  BY <1>1, <1>2, <1>3, <1>4
<1>8. a1 = b1 /\ b0 = a0 /\ a3 = b3 => Chances' = Chances
  BY <1>1, <1>2, <1>3
<1> QED BY <1>1, <1>2, <1>5, <1>6, <1>7, <1>8

\* No step but those of the user and of the clock gives a chance more, and to spawn
\* takes one.
LEMMA NextSpawns ==
    ASSUME TypeOK, TypeOK', [Next]_vars, ~(Age \/ User)
    PROVE  /\ Chances' = Chances \/ Below(Chances', Chances)
           /\ Spawn => Below(Chances', Chances)
<1> DEFINE fewer(what) == Count(jobs', what) < Count(jobs, what)
           same(what) == Count(jobs', what) = Count(jobs, what)
           Goal == /\ Chances' = Chances \/ Below(Chances', Chances)
                   /\ Spawn => Below(Chances', Chances)
<1>0. pm \in Managers /\ jobs \in Seq(Jobs) /\ pm.crashes \in Nat /\ pm'.crashes \in Nat
  BY SupervisionConstants DEF TypeOK, Managers
<1>1. /\ fewer("wake") => Goal
      /\ same("wake") /\ pm.crashes < pm'.crashes => Goal
      /\ same("wake") /\ pm.crashes = pm'.crashes /\ fewer("start") => Goal
  BY ChancesTaken
\* What is not Spawn may leave things as they are.
<1>2. ~Spawn /\ same("wake") /\ pm.crashes = pm'.crashes /\ same("start") => Goal
  BY ChancesTaken
<1> SUFFICES Goal
  OBVIOUS
<1> HIDE DEF Goal
<1>3. CASE Now("start") /\ Done /\ pm'.crashes = pm.crashes
  <2>1. jobs # <<>> /\ Head(jobs) = "start" /\ jobs' = Tail(jobs)
    BY <1>3 DEF Now, Done
  <2>2. PICK t \in Seq(Jobs) : t = Tail(jobs)
    BY <1>0, <2>1, JobTypes DEF Jobs
  <2>3. /\ Count(t, "start") \in Nat /\ Count(t, "wake") \in Nat
        /\ Count(jobs, "start") = Count(t, "start") + 1
        /\ Count(jobs, "wake") = Count(t, "wake") + 0
    <3>1. "wake" \in Jobs
      BY DEF Jobs
    <3>2. \A what : Count(t, what) \in Nat
                    /\ Count(jobs, what) = Count(t, what)
                                              + (IF Head(jobs) = what THEN 1 ELSE 0)
      BY <1>0, <2>1, <2>2, <3>1, CountSteps
    <3> QED BY <2>1, <3>2
  <2>4. fewer("start") /\ same("wake")
    BY <2>1, <2>2, <2>3
  <2> QED BY <1>1, <1>3, <2>4
<1>4. CASE SpawnFails \/ Spawn \/ SpawnAgain
  <2>1. pm'.crashes = pm.crashes
    BY <1>0, <1>4, ManagerCounts DEF SpawnFails, Spawn, SpawnAgain
  <2> QED BY <1>3, <1>4, <2>1 DEF SpawnFails, Spawn, SpawnAgain
<1>5. CASE CheckAfterWake
  <2>1. /\ jobs # <<>> /\ Head(jobs) = "wake"
        /\ jobs' = Tail(jobs) \/ jobs' = Append(Tail(jobs), "start")
    BY <1>5 DEF CheckAfterWake, Now, Done, DoneThen
  <2>2. PICK t \in Seq(Jobs) : t = Tail(jobs)
    BY <1>0, <2>1, JobTypes DEF Jobs
  <2>3. /\ Count(t, "wake") \in Nat
        /\ Count(jobs, "wake") = Count(t, "wake") + 1
        /\ Count(Append(t, "start"), "wake") = Count(t, "wake") + 0
    <3>1. "start" \in Jobs /\ "start" # "wake"
      BY DEF Jobs
    <3>2. /\ Count(t, "wake") \in Nat
          /\ Count(jobs, "wake") = Count(t, "wake") + (IF Head(jobs) = "wake" THEN 1 ELSE 0)
      BY <1>0, <2>1, <2>2, <3>1, CountSteps
    <3>3. Count(Append(t, "start"), "wake") = Count(t, "wake")
      BY <2>2, <3>1, CountOther
    <3> QED BY <2>1, <3>2, <3>3
  <2>4. Count(jobs', "wake") = Count(t, "wake")
    <3>1. CASE jobs' = Tail(jobs)
      BY <2>2, <3>1
    <3>2. CASE jobs' = Append(Tail(jobs), "start")
      BY <2>2, <2>3, <3>2
    <3> QED BY <2>1, <3>1, <3>2
  <2>5. fewer("wake")
    BY <2>3, <2>4
  <2> QED BY <1>1, <2>5
<1> DEFINE OtherDone == /\ jobs # <<>> /\ Head(jobs) \notin {"start", "wake"}
                        /\ jobs' = Tail(jobs)
           OtherQueued == \E job \in Jobs \ {"start", "wake"} : jobs' = Append(jobs, job)
\* Tasks that are neither a start nor a wake do not count.
<1>6. jobs' = jobs \/ OtherDone \/ OtherQueued => same("wake") /\ same("start")
  <2>1. CASE jobs' = jobs
    BY <2>1
  <2>2. CASE OtherDone
    <3>1. PICK t \in Seq(Jobs) : t = Tail(jobs)
      BY <1>0, <2>2, JobTypes DEF Jobs
    <3>2. /\ Count(t, "wake") \in Nat /\ Count(t, "start") \in Nat
          /\ Count(jobs, "wake") = Count(t, "wake") + 0
          /\ Count(jobs, "start") = Count(t, "start") + 0
      BY <1>0, <2>2, <3>1, CountSteps DEF Jobs
    <3> QED BY <2>2, <3>1, <3>2
  <2>3. CASE OtherQueued
    <3>1. PICK job \in Jobs \ {"start", "wake"} : jobs' = Append(jobs, job)
      BY <2>3
    <3>2. /\ Count(jobs, "wake") \in Nat /\ Count(jobs, "start") \in Nat
          /\ Count(Append(jobs, job), "wake") = Count(jobs, "wake") + 0
          /\ Count(Append(jobs, job), "start") = Count(jobs, "start") + 0
      BY <1>0, <3>1, CountSteps
    <3> QED BY <3>1, <3>2
  <2> QED BY <2>1, <2>2, <2>3
<1>7. ASSUME jobs' = jobs \/ OtherDone \/ OtherQueued, pm'.crashes = pm.crashes, ~Spawn
      PROVE  Goal
  BY <1>2, <1>6, <1>7
<1>8. CASE UNCHANGED vars
  <2>1. CASE Spawn
    BY <1>4, <2>1
  <2>2. CASE ~Spawn
    BY <1>7, <1>8, <2>2 DEF vars
  <2> QED BY <2>1, <2>2
<1> HIDE DEF same, fewer
<1>9. CASE Spawn
  BY <1>4, <1>9
<1>10. CASE (HealthChecked \/ BeginStop) /\ ~Spawn
  <2>1. pm'.crashes = pm.crashes
    BY <1>0, <1>10 DEF HealthChecked, BeginStop, Managers
  <2>2. OtherDone
    BY <1>10 DEF HealthChecked, BeginStop, Now, Done
  <2> QED BY <1>7, <1>10, <2>1, <2>2
<1>11. CASE KillStopped /\ ~Spawn
  BY <1>7, <1>11 DEF KillStopped
<1>12. CASE (FinishStop \/ \E d \in Daemons : ExitHandled(d)) /\ ~Spawn
  <2>1. pm' = Cleared(pm) /\ jobs' = jobs
    BY <1>12 DEF FinishStop, ExitHandled
  <2> QED BY <1>0, <1>7, <1>12, <2>1, ManagerCounts
<1>13. CASE WatchdogFires /\ ~Spawn
  <2>1. PICK m \in Managers : m = Crashed(pm)
    BY <1>0, ManagerTypes
  <2>2. pm'.crashes = m.crashes /\ jobs' = jobs
    BY <1>13, <2>1 DEF WatchdogFires, Managers
  <2>3. pm.crashes < pm'.crashes \/ pm'.crashes = pm.crashes
    BY <1>0, <2>1, <2>2, ManagerCounts
  <2> QED BY <1>1, <1>6, <1>7, <1>13, <2>2, <2>3
<1>14. ASSUME NEW d \in Daemons, CrashHandled(d), ~Spawn PROVE Goal
  <2>1. PICK m \in Managers : m = Crashed(pm)
    BY <1>0, ManagerTypes
  <2>2. /\ pm' = Cleared(m)
        /\ jobs' = IF m.halted THEN jobs ELSE Append(jobs, "start")
    BY <1>14, <2>1 DEF CrashHandled
  <2>3. pm'.crashes = m.crashes
    BY <2>1, <2>2, ManagerCounts
  <2>4. CASE m.halted
    <3>1. pm.crashes < pm'.crashes \/ pm'.crashes = pm.crashes
      BY <1>0, <2>1, <2>3, ManagerCounts
    <3> QED BY <1>1, <1>6, <1>7, <1>14, <2>2, <2>4, <3>1
  <2>5. CASE ~m.halted
    <3>1. pm.crashes < pm'.crashes
      BY <1>0, <2>1, <2>3, <2>5, ManagerCounts
    <3>2. /\ Count(jobs, "wake") \in Nat
          /\ Count(Append(jobs, "start"), "wake") = Count(jobs, "wake") + 0
      BY <1>0, CountSteps DEF Jobs
    <3>3. same("wake")
      BY <2>2, <2>5, <3>2 DEF same
    <3> QED BY <1>1, <3>1, <3>3
  <2> QED BY <2>4, <2>5
<1>15. ASSUME NEW d \in Daemons, NEW k \in Checks, Pong(d, k), ~Spawn PROVE Goal
  <2>1. pm'.crashes = pm.crashes
    BY <1>0, <1>15 DEF Pong, Managers
  <2>2. OtherQueued
    BY <1>15 DEF Pong, Jobs
  <2> QED BY <1>7, <1>15, <2>1, <2>2
<1>16. ASSUME NEW d \in Daemons, Die(d) \/ Leave(d) \/ Freeze(d), ~Spawn PROVE Goal
  BY <1>7, <1>16 DEF Die, Leave, Freeze
<1> QED
  BY <1>4, <1>5, <1>8, <1>9, <1>10, <1>11, <1>12, <1>13, <1>14, <1>15, <1>16
     DEF Next, RunJob

(***************************************************************************)
(* Whatever crashes, exits, hangs, stops and answers there are: a step that *)
(* neither the clock nor somebody from outside takes never brings a chance  *)
(* to spawn, and every spawn uses one up.                                   *)
(***************************************************************************)
THEOREM SpawnsDoRunOut == Spec => SpawnsRunOut
<1>1. TypeOK /\ TypeOK' /\ [Next]_vars
          => [~(Age \/ User) => /\ Chances' = Chances \/ Below(Chances', Chances)
                                /\ Spawn => Below(Chances', Chances)]_vars
  BY NextSpawns
<1> QED
  BY <1>1, InitType, InitMessenger, NextType, NextMessenger, PTL DEF Spec, SpawnsRunOut

(***************************************************************************)
(* The chances to spawn are natural numbers.                                *)
(***************************************************************************)
THEOREM ChancesAreNumbers == Spec => [](Chances \in [1..3 -> Nat])
<1>1. TypeOK => Chances \in [1..3 -> Nat]
  <2> SUFFICES ASSUME TypeOK PROVE Chances \in [1..3 -> Nat]
    OBVIOUS
  <2>1. Count(jobs, "wake") \in Nat /\ Count(jobs, "start") \in Nat
    BY CountSteps DEF TypeOK, Jobs
  <2>2. CrashLimit - pm.crashes \in Nat
    BY SupervisionConstants DEF TypeOK, Managers
  <2>3. Chances = <<Count(jobs, "wake"), CrashLimit - pm.crashes, Count(jobs, "start")>>
    BY DEF Chances, Waiting, Count, Places
  <2> QED BY <2>1, <2>2, <2>3
<1> QED BY <1>1, InitType, InitMessenger, NextType, NextMessenger, PTL DEF Spec

\* A sequence of tuples that goes down at every step.
Descends(f) == \A k \in Nat : Below(f[k + 1], f[k])
(***************************************************************************)
(* Tuples of n numbers do not go down for ever: of a run of steps that      *)
(* neither the clock nor somebody outside takes, only finitely many are     *)
(* spawns.                                                                  *)
(***************************************************************************)
THEOREM ChancesEnd ==
    ASSUME NEW n \in Nat
    PROVE  ~\E f \in [Nat -> [1..n -> Nat]] : Descends(f)
<1> DEFINE R == {ss \in Nat \X Nat : ss[1] < ss[2]}
           L == LexProductOrdering(R, Nat, n)
<1>1. IsWellFoundedOn(L, [1..n -> Nat])
  <2>1. IsWellFoundedOn(R, Nat)
    BY NatLessThanWellFounded DEF OpToRel
  <2> HIDE DEF R
  <2> QED BY <2>1, WFLexProductOrdering
<1> SUFFICES ASSUME NEW f \in [Nat -> [1..n -> Nat]], Descends(f)
             PROVE  FALSE
  OBVIOUS
<1>2. ASSUME NEW k \in Nat PROVE <<f[k + 1], f[k]>> \in L
  <2>1. PICK a \in [1..n -> Nat], b \in [1..n -> Nat] : a = f[k + 1] /\ b = f[k]
    <3>1. k + 1 \in Nat
      OBVIOUS
    <3>2. f[k + 1] \in [1..n -> Nat] /\ f[k] \in [1..n -> Nat]
      BY <3>1
    <3> QED BY <3>2
  <2>2. Below(a, b)
    BY <2>1 DEF Descends
  <2>3. PICK j \in 1..n : a[j] < b[j] /\ \A i \in 1..(j - 1) : a[i] = b[i]
    BY <2>2 DEF Below
  <2>4. <<a[j], b[j]>> \in R
    BY <2>3
  <2> HIDE DEF R
  <2>5. <<a, b>> \in L
    BY <2>3, <2>4 DEF LexProductOrdering
  <2> QED BY <2>1, <2>5
<1> HIDE DEF L
<1> QED BY <1>1, <1>2 DEF IsWellFoundedOn

=============================================================================
