------------------------------ MODULE NeemHost ------------------------------
(***************************************************************************)
(* The neem server: the operations of HostController, one at a time, on    *)
(* the RuntimeControllers of one runtime name (a reload makes a new one);  *)
(* each start of a controller makes a worker group, a host runner and the  *)
(* worker threads; and the recovery that a controller runs on its own when *)
(* a member of its group fails.                                            *)
(***************************************************************************)
EXTENDS Naturals, FiniteSets

CONSTANTS
    Controllers, \* 1 .. the most RuntimeControllers a behaviour makes
    Groups,      \* 1 .. the most worker groups it makes
    Threads,     \* the worker threads of a group
    Attempts,    \* the restarts the recovery policy allows
    MaxFaults    \* bound: failures of a behaviour

ASSUME HostAssumption ==
    /\ Controllers \subseteq Nat \ {0} /\ Groups \subseteq Nat \ {0}
    /\ Attempts \in Nat \ {0} /\ MaxFaults \in Nat

VARIABLES
    server,     \* state of the server
    op,         \* the operation under way: start, reload, reloadRuntime, stop or none
    current,    \* the controller in the server's map of runtimes, 0 when none
    built,       \* how many controllers were made
    stopped,    \* controller to its stopped flag
    host,       \* controller to the group of its host runner, 0 when none
    workers,    \* controller to the group of its threads, 0 when none
    recovering, \* controllers with a recovery under way (recoveryPromise)
    restarts,   \* controller to its restartAttempts
    proc,       \* process to what it does: the server's operation and each recovery
    owner,      \* group to the controller that made it, 0 while unmade
    runner,     \* group to the state of its host runner
    thread,     \* group to the states of its threads
    started,    \* group to its threads whose start() has returned
    faults,     \* failures so far
    excused,    \* history: controllers the server stopped while a recovery restarted them, or not at all
    ignored     \* history: controllers with a failure that was dropped

hostVars == <<server, op, current, built, stopped, host, workers, recovering, restarts, proc,
              owner, runner, thread, started, faults, excused, ignored>>
controllerVars == <<stopped, host, workers, recovering, restarts>>
groupVars == <<owner, runner, thread, started>>

Server == 0
Processes == {Server} \cup Controllers
Doing(stage, c, h, w) == [at |-> stage, on |-> c, h |-> h, w |-> w]
IdleProcess == Doing("idle", 0, 0, 0)
ThreadStates == {"none", "starting", "ready", "stopping", "stopped", "failed"}

HostInit ==
    /\ server = "idle" /\ op = "none" /\ current = 0 /\ built = 0
    /\ stopped = [c \in Controllers |-> TRUE]
    /\ host = [c \in Controllers |-> 0] /\ workers = [c \in Controllers |-> 0]
    /\ recovering = {} /\ restarts = [c \in Controllers |-> 0]
    /\ proc = [p \in Processes |-> IdleProcess]
    /\ owner = [g \in Groups |-> 0] /\ runner = [g \in Groups |-> "none"]
    /\ thread = [g \in Groups |-> [t \in Threads |-> "none"]]
    /\ started = [g \in Groups |-> {}]
    /\ faults = 0 /\ excused = {} /\ ignored = {}

Fault == faults < MaxFaults /\ faults' = faults + 1

At(p, stage) == proc[p].at = stage
GoTo(p, stage) == [proc EXCEPT ![p].at = stage]
Restarting(c) == proc[c].at \notin {"idle", "wait"}
ServerOn(c) == proc[Server].at # "idle" /\ proc[Server].on = c

-----------------------------------------------------------------------------
(* Stopping a controller.                                                  *)

(***************************************************************************)
(* The first step of stop(): the flag, and the controller's host runner    *)
(* and threads change hands to the caller.                                 *)
(***************************************************************************)
TakeGroup(p, c, stage) ==
    /\ stopped' = [stopped EXCEPT ![c] = TRUE]
    /\ host' = [host EXCEPT ![c] = 0]
    /\ workers' = [workers EXCEPT ![c] = 0]
    /\ proc' = [proc EXCEPT ![p] = Doing(stage, c, host[c], workers[c])]

(***************************************************************************)
(* host.callStop() has answered, failed or timed out: the threads are told *)
(* to stop. A start() of them that still waits is rejected.                *)
(***************************************************************************)
ToldToStop(s) == IF s \in {"starting", "ready", "failed"} THEN "stopping" ELSE s

StopThreads(p) ==
    /\ proc[p].at \in {"calling", "failing", "cleaning"}
    /\ thread' = IF proc[p].w = 0 THEN thread
                 ELSE [thread EXCEPT ![proc[p].w] = [t \in Threads |-> ToldToStop(@[t])]]
    /\ proc' = GoTo(p, CASE At(p, "calling") -> "stopping"
                         [] At(p, "failing") -> "unwinding"
                         [] OTHER -> "clearing")
    /\ UNCHANGED <<server, op, current, built, faults, controllerVars, owner, runner, started,
                   excused, ignored>>

ThreadsExited(p) ==
    proc[p].w # 0 => \A t \in Threads : thread[proc[p].w][t] # "stopping"

\* shutdown(): the runner is asked, and terminated when it does not answer.
ShutRunner(p) ==
    runner' = IF proc[p].h = 0 THEN runner ELSE [runner EXCEPT ![proc[p].h] = "gone"]

-----------------------------------------------------------------------------
(* Failure and recovery.                                                   *)

(***************************************************************************)
(* The head of recover()'s loop: another attempt, or the failure is        *)
(* reported to the server.                                                 *)
(***************************************************************************)
RecoverNext(c) ==
    IF restarts[c] < Attempts
    THEN /\ restarts' = [restarts EXCEPT ![c] = @ + 1]
         /\ proc' = [proc EXCEPT ![c] = Doing("wait", c, 0, 0)]
         /\ recovering' = recovering \cup {c}
         /\ UNCHANGED server
    ELSE /\ proc' = [proc EXCEPT ![c] = IdleProcess]
         /\ recovering' = recovering \ {c}
         /\ server' = "failed"
         /\ UNCHANGED restarts

(***************************************************************************)
(* handleFailure: a failure while a recovery is under way is dropped.      *)
(***************************************************************************)
HandleFailure(c) ==
    IF c \in recovering
    THEN ignored' = ignored \cup {c} /\ UNCHANGED <<restarts, proc, recovering, server>>
    ELSE RecoverNext(c) /\ UNCHANGED ignored

(***************************************************************************)
(* The delay is over: a stopped controller is left alone, another one is   *)
(* stopped, to be started again.                                           *)
(***************************************************************************)
\* Seeded fault: the flag is not looked at.
WaitEndsAnyway(c) ==
    /\ At(c, "wait")
    /\ TakeGroup(c, c, "calling")
    /\ excused' = IF ServerOn(c) THEN excused \cup {c} ELSE excused
    /\ UNCHANGED <<server, op, current, built, faults, recovering, restarts, groupVars, ignored>>

WaitEnds(c) ==
    /\ At(c, "wait")
    /\ IF stopped[c]
       THEN /\ proc' = [proc EXCEPT ![c] = IdleProcess]
            /\ recovering' = recovering \ {c}
            /\ ignored' = ignored \cup {c}
            /\ UNCHANGED <<stopped, host, workers, excused>>
       ELSE /\ TakeGroup(c, c, "calling")
            /\ excused' = IF ServerOn(c) THEN excused \cup {c} ELSE excused
            /\ UNCHANGED <<recovering, ignored>>
    /\ UNCHANGED <<server, op, current, built, faults, restarts, groupVars>>

-----------------------------------------------------------------------------
(* Starting a controller.                                                  *)

StartHook(p, c) ==
    /\ stopped' = [stopped EXCEPT ![c] = FALSE]
    /\ proc' = [proc EXCEPT ![p] = Doing("hook", c, 0, 0)]

\* recover() after its stop(): start() again.
RecoveryStarts(c) ==
    /\ At(c, "stopping") /\ ThreadsExited(c)
    /\ ShutRunner(c)
    /\ StartHook(c, c)
    /\ UNCHANGED <<server, op, current, built, faults, host, workers, recovering, restarts, owner,
                   thread, started, excused, ignored>>

NextGroup == CHOOSE g \in Groups : owner[g] = 0

(***************************************************************************)
(* The hook has returned: the host runner is made.                         *)
(***************************************************************************)
StartRunner(p) ==
    /\ At(p, "hook") /\ \E g \in Groups : owner[g] = 0
    /\ LET g == NextGroup IN
       /\ owner' = [owner EXCEPT ![g] = proc[p].on]
       /\ runner' = [runner EXCEPT ![g] = "starting"]
       /\ host' = [host EXCEPT ![proc[p].on] = g]
       /\ proc' = [proc EXCEPT ![p] = Doing("runner", proc[p].on, g, g)]
    /\ UNCHANGED <<server, op, current, built, faults, stopped, workers, recovering, restarts, thread,
                   started, excused, ignored>>

RunnerReady(g) ==
    /\ runner[g] = "starting"
    /\ runner' = [runner EXCEPT ![g] = "up"]
    /\ UNCHANGED <<server, op, current, built, faults, controllerVars, proc, owner, thread, started,
                   excused, ignored>>

(***************************************************************************)
(* The plan has arrived: the threads are made and start together.          *)
(***************************************************************************)
StartThreads(p) ==
    /\ At(p, "runner") /\ runner[proc[p].h] = "up"
    /\ workers' = [workers EXCEPT ![proc[p].on] = proc[p].w]
    /\ thread' = [thread EXCEPT ![proc[p].w] = [t \in Threads |-> "starting"]]
    /\ proc' = GoTo(p, "threads")
    /\ UNCHANGED <<server, op, current, built, faults, stopped, host, recovering, restarts, owner, runner,
                   started, excused, ignored>>

(***************************************************************************)
(* Every thread's start() has returned; what failed since does not matter  *)
(* here. Then the runner is told, and the ready hook runs.                 *)
(***************************************************************************)
ThreadsStarted(p) ==
    /\ At(p, "threads") /\ started[proc[p].w] = Threads
    /\ proc' = GoTo(p, "telling")
    /\ UNCHANGED <<server, op, current, built, faults, controllerVars, groupVars, excused, ignored>>

Rejected(p) ==
    \/ At(p, "runner") /\ runner[proc[p].h] = "gone"
    \/ At(p, "threads") /\ \E t \in Threads \ started[proc[p].w] :
           thread[proc[p].w][t] \in {"failed", "stopping", "stopped"}
    \/ At(p, "telling") /\ runner[proc[p].h] = "gone"

(***************************************************************************)
(* start() fails: the runner or a thread does not come up, the stop() of   *)
(* another process took them away, or a hook, the planner or the host's    *)
(* own start throws; its catch stops the controller.                       *)
(***************************************************************************)
StartFails(p) ==
    /\ \/ Rejected(p) /\ UNCHANGED faults
       \/ proc[p].at \in {"hook", "runner", "telling"} /\ Fault
    /\ TakeGroup(p, proc[p].on, "failing")
    /\ UNCHANGED <<server, op, current, built, recovering, restarts, groupVars, excused,
                   ignored>>

(***************************************************************************)
(* recover() catches the error of its start() and goes around.             *)
(***************************************************************************)
RecoveryFails(c) ==
    /\ At(c, "unwinding") /\ ThreadsExited(c)
    /\ ShutRunner(c)
    /\ RecoverNext(c)
    /\ UNCHANGED <<op, current, built, faults, stopped, host, workers, owner, thread, started, excused,
                   ignored>>

\* onRecovered has run: the proxy has the new upstreams.
RecoveryEnds(c) ==
    /\ At(c, "telling") /\ runner[proc[c].h] = "up"
    /\ proc' = [proc EXCEPT ![c] = IdleProcess]
    /\ restarts' = [restarts EXCEPT ![c] = 0]
    /\ recovering' = recovering \ {c}
    /\ UNCHANGED <<server, op, current, built, faults, stopped, host, workers, groupVars, excused,
                   ignored>>

-----------------------------------------------------------------------------
(* The members of a group.                                                 *)

ThreadReady(g, t) ==
    /\ thread[g][t] = "starting"
    /\ thread' = [thread EXCEPT ![g][t] = "ready"]
    /\ started' = [started EXCEPT ![g] = @ \cup {t}]
    /\ UNCHANGED <<server, op, current, built, faults, controllerVars, proc, owner, runner, excused,
                   ignored>>

(***************************************************************************)
(* A thread reports an error, exits or is late: before it is ready its     *)
(* start() fails, later the controller hears of it.                        *)
(***************************************************************************)
ThreadFails(g, t) ==
    /\ thread[g][t] \in {"starting", "ready", "stopping"}
    /\ thread' = [thread EXCEPT ![g][t] = "failed"]
    /\ IF thread[g][t] = "starting"
       THEN UNCHANGED <<restarts, proc, recovering, server, ignored>>
       ELSE HandleFailure(owner[g])
    /\ Fault
    /\ UNCHANGED <<op, current, built, stopped, host, workers, owner, runner, started, excused>>

\* stop() of the thread returns: the worker has exited or was terminated.
ThreadExits(g, t) ==
    /\ thread[g][t] = "stopping"
    /\ thread' = [thread EXCEPT ![g][t] = "stopped"]
    /\ UNCHANGED <<server, op, current, built, faults, controllerVars, proc, owner, runner, started,
                   excused, ignored>>

RunnerFails(g) ==
    /\ runner[g] \in {"starting", "up"}
    /\ runner' = [runner EXCEPT ![g] = "gone"]
    /\ HandleFailure(owner[g])
    /\ Fault
    /\ UNCHANGED <<op, current, built, stopped, host, workers, owner, thread, started, excused>>

-----------------------------------------------------------------------------
(* The operations of the server, one after the other.                      *)

ServerFree == op = "none" /\ At(Server, "idle")

NewController == built + 1

\* createRuntime and the first step of its start().
StartNew ==
    /\ NewController \in Controllers
    /\ built' = NewController
    /\ StartHook(Server, NewController)

Start ==
    /\ ServerFree /\ server = "idle"
    /\ op' = "start" /\ server' = "starting"
    /\ StartNew
    /\ UNCHANGED <<current, faults, host, workers, recovering, restarts, groupVars, excused, ignored>>

Overlaps(c) == IF Restarting(c) THEN excused \cup {c} ELSE excused

(***************************************************************************)
(* reload, reloadRuntime and stop take the controller off the map and stop *)
(* it before anything else.                                                *)
(***************************************************************************)
Begin(kind) ==
    /\ ServerFree /\ server \notin {"idle", "stopped"}
    /\ op' = kind
    /\ server' = IF kind = "stop" THEN "stopping" ELSE "reloading"
    /\ current' = 0
    /\ IF current = 0
       THEN /\ proc' = [proc EXCEPT ![Server] = Doing("calling", 0, 0, 0)]
            /\ UNCHANGED <<stopped, host, workers, excused>>
       ELSE TakeGroup(Server, current, "calling") /\ excused' = Overlaps(current)
    /\ UNCHANGED <<built, faults, recovering, restarts, groupVars, ignored>>

(***************************************************************************)
(* stopSubsystems has emptied the map when the proxy's stop throws: the    *)
(* controllers are not stopped. stop() says stopped, reload fails.         *)
(***************************************************************************)
ProxyStopFails(kind) ==
    /\ ServerFree /\ server \notin {"idle", "stopped"} /\ current # 0
    /\ Fault
    /\ server' = IF kind = "stop" THEN "stopped" ELSE "failed"
    /\ current' = 0
    /\ excused' = excused \cup {current}
    /\ UNCHANGED <<op, built, controllerVars, proc, groupVars, ignored>>

\* The old controller is stopped: the next one starts.
Reload ==
    /\ op \in {"reload", "reloadRuntime"} /\ At(Server, "stopping") /\ ThreadsExited(Server)
    /\ ShutRunner(Server)
    /\ StartNew
    /\ current' = IF op = "reloadRuntime" THEN NewController ELSE 0
    /\ UNCHANGED <<server, op, faults, host, workers, recovering, restarts, owner, thread, started,
                   excused, ignored>>

Stop ==
    /\ op = "stop" /\ At(Server, "stopping") /\ ThreadsExited(Server)
    /\ ShutRunner(Server)
    /\ server' = "stopped" /\ op' = "none"
    /\ proc' = [proc EXCEPT ![Server] = IdleProcess]
    /\ UNCHANGED <<current, built, faults, controllerVars, owner, thread, started, excused, ignored>>

\* start() of the new controller returns: it is in the map, the proxy has it.
BringUpEnds ==
    /\ At(Server, "telling") /\ runner[proc[Server].h] = "up"
    /\ current' = proc[Server].on
    /\ server' = "running" /\ op' = "none"
    /\ proc' = [proc EXCEPT ![Server] = IdleProcess]
    /\ UNCHANGED <<built, faults, controllerVars, groupVars, excused, ignored>>

(***************************************************************************)
(* start() of the new controller fails after it stopped itself: the        *)
(* operation stops it once more.                                           *)
(***************************************************************************)
CleanUp ==
    /\ At(Server, "unwinding") /\ ThreadsExited(Server)
    /\ ShutRunner(Server)
    /\ current' = 0
    /\ excused' = Overlaps(proc[Server].on)
    /\ TakeGroup(Server, proc[Server].on, "cleaning")
    /\ UNCHANGED <<server, op, built, faults, recovering, restarts, owner, thread, started, ignored>>

BringUpFails ==
    /\ At(Server, "clearing") /\ ThreadsExited(Server)
    /\ ShutRunner(Server)
    /\ server' = "failed" /\ op' = "none"
    /\ proc' = [proc EXCEPT ![Server] = IdleProcess]
    /\ UNCHANGED <<current, built, faults, controllerVars, owner, thread, started, excused, ignored>>

-----------------------------------------------------------------------------
HostNext ==
    \/ Start \/ Reload \/ Stop \/ BringUpEnds \/ CleanUp \/ BringUpFails
    \/ \E kind \in {"reload", "reloadRuntime", "stop"} : Begin(kind)
    \/ \E kind \in {"reload", "stop"} : ProxyStopFails(kind)
    \/ \E p \in Processes :
           StopThreads(p) \/ StartRunner(p) \/ StartThreads(p) \/ ThreadsStarted(p) \/ StartFails(p)
    \/ \E c \in Controllers :
           WaitEnds(c) \/ RecoveryStarts(c) \/ RecoveryFails(c) \/ RecoveryEnds(c)
    \/ \E g \in Groups : RunnerReady(g) \/ RunnerFails(g)
    \/ \E g \in Groups, t \in Threads : ThreadReady(g, t) \/ ThreadFails(g, t) \/ ThreadExits(g, t)

HostSpec == HostInit /\ [][HostNext]_hostVars

-----------------------------------------------------------------------------
(* Properties.                                                             *)

Alive(g) ==
    \/ runner[g] \in {"starting", "up"}
    \/ \E t \in Threads : thread[g][t] \in {"starting", "ready"}

(***************************************************************************)
(* Between operations every live host runner or worker thread belongs to   *)
(* the group of the controller in the server's map, or to a recovery of    *)
(* it: a stop, a reload or a failed start leaves nothing running behind.   *)
(* The exceptions are a controller whose recovery was restarting it while  *)
(* the server stopped it (start() of runtime.ts clears the stopped flag),  *)
(* and one that stopSubsystems never reached because the proxy threw.      *)
(***************************************************************************)
NoStrayGroup ==
    ServerFree => \A g \in Groups :
        Alive(g) => \/ owner[g] \in excused
                    \/ owner[g] = current /\ (g = host[current] \/ current \in recovering)

(***************************************************************************)
(* A server that says running has all its worker threads ready or recovers *)
(* them: a failure that no recovery dropped (handleFailure ignores one     *)
(* that comes during a recovery, and recover gives up quietly on a stopped *)
(* controller) is acted on or reported.                                    *)
(***************************************************************************)
RunningIsServing ==
    (ServerFree /\ server = "running" /\ current \notin recovering \cup ignored \cup excused) =>
        workers[current] # 0 /\ \A t \in Threads : thread[workers[current]][t] = "ready"

(***************************************************************************)
(* A controller has at most one recovery, and never more restarts than the *)
(* policy allows.                                                          *)
(***************************************************************************)
HostTypeOK ==
    /\ server \in {"idle", "starting", "running", "reloading", "failed", "stopping", "stopped"}
    /\ current \in Controllers \cup {0}
    /\ \A c \in Controllers : restarts[c] \in 0..Attempts /\ (c \in recovering <=> proc[c].at # "idle")
    /\ \A g \in Groups, t \in Threads : thread[g][t] \in ThreadStates

(***************************************************************************)
(* A worker failure the policy still has restarts for is retried: a        *)
(* running server never sits on a controller that failed to restart,       *)
(* stopped by nobody but its own recovery.  It does not hold: recover      *)
(* returns when start() fails with restarts left (runtime.ts).             *)
(***************************************************************************)
RestartsAreUsed ==
    (ServerFree /\ server = "running" /\ current \notin recovering \cup excused) => ~ stopped[current]

\* The server runs what it says it runs, and nothing else.
HostSound == HostTypeOK /\ NoStrayGroup /\ RunningIsServing
=============================================================================
