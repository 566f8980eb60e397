--------------------------- MODULE DevSupervisor ---------------------------
(***************************************************************************)
(* A `neem dev` session: the supervisor in the CLI process, the watcher    *)
(* service that rebuilds and announces changes, the runtime service that   *)
(* runs the built code, and the watcher of the config files that outlives  *)
(* both.  Each service is a worker thread.  Built files keep their names   *)
(* in watch mode, so a runtime has loaded what was on disk when it started *)
(* or reloaded: a version.  The manifest has one runtime.                  *)
(***************************************************************************)
EXTENDS Naturals, Sequences, FiniteSets

CONSTANTS
    MaxServices,    \* bound: service workers created
    MaxRebuilds,    \* bound: rebuilds
    MaxConfigEdits, \* bound: changes of a config file
    MaxServiceFaults \* bound: requests that fail and workers that crash

VARIABLES
    svc,        \* the service workers made so far
    disk,       \* version of the built files
    queue,      \* OperationQueue `events`: watcher events not yet handled
    main,       \* where devCommand.run is
    handler,    \* the event being handled
    stopper,    \* the two calls of stop(): by the signal, and in the finally
    refs,       \* the supervisor's fields watcher, runtime and configSignalWatcher
    revision,   \* manifestRevision
    halted,     \* stopped
    verdict,    \* the `closed` promise
    signals,    \* config signal watchers open
    edits,      \* config files changed so far
    svcFaults,  \* faults so far
    lost        \* history: what two interrupted operations left behind

devVars == <<svc, disk, queue, main, handler, stopper, refs, revision, halted, verdict, signals, edits,
             svcFaults, lost>>

Nobody == [at |-> "idle", on |-> 0, prev |-> 0]
NoStop == [at |-> "idle", watcher |-> 0, runtime |-> 0, signal |-> 0]
Up(s) == svc[s].state # "gone"

\* A WorkerServiceClient has been made and sent its start request.
Service(kind) ==
    [kind |-> kind, state |-> "starting", seen |-> disk, loaded |-> 0, rebuilt |-> <<>>, rev |-> 0]
NewService == Len(svc) + 1

DevInit ==
    /\ svc = <<[kind |-> "watcher", state |-> "starting", seen |-> 0, loaded |-> 0, rebuilt |-> <<>>, rev |-> 0]>>
    /\ disk = 0 /\ queue = <<>>
    /\ main = [Nobody EXCEPT !.at = "starting", !.on = 1]
    /\ handler = Nobody
    /\ stopper = [k \in {"signal", "finally"} |-> NoStop]
    /\ refs = [watcher |-> 1, runtime |-> 0, signal |-> 0]
    /\ revision = 0 /\ halted = FALSE /\ verdict = "open"
    /\ signals = 0 /\ edits = 0 /\ svcFaults = 0
    /\ lost = [watchers |-> {}, signal |-> 0]

Reject == verdict' = IF verdict = "open" THEN "rejected" ELSE verdict
ServiceFault == svcFaults < MaxServiceFaults /\ svcFaults' = svcFaults + 1
WithGone(ids) == [s \in DOMAIN svc |-> IF s \in ids THEN [svc[s] EXCEPT !.state = "gone"] ELSE svc[s]]
-----------------------------------------------------------------------------
(* The watcher service.                                                    *)

\* WatcherService.start: the first build is on disk and its manifest written.
WatcherReady(s) ==
    /\ svc[s].kind = "watcher" /\ svc[s].state = "starting"
    /\ svc' = [svc EXCEPT ![s].state = "up", ![s].rev = 1]
    /\ queue' = Append(queue, [type |-> "ready", rev |-> 1])
    /\ UNCHANGED <<disk, main, handler, stopper, refs, revision, halted, verdict, signals, edits, svcFaults, lost>>

\* A rebuild has overwritten the built files.
Rebuild(s, type) ==
    /\ svc[s].kind = "watcher" /\ svc[s].state = "up" /\ disk < MaxRebuilds
    /\ disk' = disk + 1
    /\ svc' = [svc EXCEPT ![s].rebuilt = Append(@, type)]
    /\ UNCHANGED <<queue, main, handler, stopper, refs, revision, halted, verdict, signals, edits, svcFaults, lost>>

\* applyChange: the manifest is written and the event sent.
Announce(s) ==
    /\ svc[s].state = "up" /\ svc[s].rebuilt # <<>>
    /\ svc' = [svc EXCEPT ![s].rebuilt = Tail(@), ![s].rev = @ + 1]
    /\ queue' = Append(queue, [type |-> Head(svc[s].rebuilt), rev |-> svc[s].rev + 1])
    /\ UNCHANGED <<disk, main, handler, stopper, refs, revision, halted, verdict, signals, edits, svcFaults, lost>>

\* handleConfigSignalInvalidated
ConfigEdited ==
    /\ signals > 0 /\ edits < MaxConfigEdits
    /\ edits' = edits + 1
    /\ queue' = IF halted THEN queue ELSE Append(queue, [type |-> "config-invalidated", rev |-> 0])
    /\ UNCHANGED <<svc, disk, main, handler, stopper, refs, revision, halted, verdict, signals, svcFaults, lost>>

BeingStopped(s) ==
    \/ handler.at \in {"stopRuntime", "replaceRuntime", "failing"} /\ handler.on = s
    \/ handler.at = "replaceWatcher" /\ handler.prev = s
    \/ main.at = "failing" /\ main.on = s
    \/ \E k \in DOMAIN stopper : stopper[k].at = "closing" /\ s \in {stopper[k].watcher, stopper[k].runtime}

\* A service worker dies: its requests are rejected, and so is `closed`, unless
\* it was being stopped.
ServiceCrashes(s) ==
    /\ Up(s) /\ ServiceFault
    /\ svc' = WithGone({s})
    /\ IF BeingStopped(s) THEN UNCHANGED verdict ELSE Reject
    /\ UNCHANGED <<disk, queue, main, handler, stopper, refs, revision, halted, signals, edits, lost>>
-----------------------------------------------------------------------------
(* startWatcher, called by start() and by replaceWatcher().                *)

\* The watcher has answered; the config signal watcher is replaced.
WatcherStarted(p) ==
    /\ p.at = "starting" /\ svc[p.on].state = "up"
    /\ signals' = IF refs.signal = 1 THEN signals - 1 ELSE signals
    /\ refs' = [refs EXCEPT !.signal = 0]
    /\ UNCHANGED <<svc, disk, queue, stopper, revision, halted, verdict, edits, svcFaults, lost>>

\* The request is rejected, by the service or because its worker is gone.
WatcherStartFails(p) ==
    /\ p.at = "starting"
    /\ \/ svc[p.on].state = "starting" /\ ServiceFault
       \/ svc[p.on].state = "gone" /\ UNCHANGED svcFaults
    /\ refs' = IF refs.watcher = p.on THEN [refs EXCEPT !.watcher = 0] ELSE refs
    /\ UNCHANGED <<svc, disk, queue, stopper, revision, halted, verdict, signals, edits, lost>>

FailedWatcherStopped(p) ==
    /\ p.at = "failing"
    /\ svc' = WithGone({p.on})
    /\ UNCHANGED <<disk, queue, stopper, refs, revision, halted, verdict, signals, edits, svcFaults, lost>>

\* watchConfigSignal has had its first build.  A stop() that was over by then
\* did not see this watcher.
SignalReady(p) ==
    /\ p.at = "signal"
    /\ signals' = signals + 1
    /\ refs' = [refs EXCEPT !.signal = 1]
    /\ lost' = IF \E k \in DOMAIN stopper : stopper[k].at \in {"closing", "done"}
               THEN [lost EXCEPT !.signal = 1] ELSE lost
    /\ UNCHANGED <<svc, disk, queue, stopper, revision, halted, verdict, edits, svcFaults>>

MainStarts ==
    \/ WatcherStarted(main) /\ main' = [main EXCEPT !.at = "signal"] /\ UNCHANGED handler
    \/ WatcherStartFails(main) /\ main' = [main EXCEPT !.at = "failing"] /\ UNCHANGED handler
    \/ FailedWatcherStopped(main) /\ main' = [main EXCEPT !.at = "final"] /\ UNCHANGED handler
    \/ SignalReady(main) /\ main' = [main EXCEPT !.at = "running"] /\ UNCHANGED handler

HandlerStarts ==
    \/ WatcherStarted(handler) /\ handler' = [handler EXCEPT !.at = "signal"] /\ UNCHANGED main
    \/ WatcherStartFails(handler) /\ handler' = [handler EXCEPT !.at = "failing"] /\ UNCHANGED main
    \/ FailedWatcherStopped(handler) /\ handler' = [handler EXCEPT !.at = "signal"] /\ UNCHANGED main
    \/ SignalReady(handler) /\ handler' = Nobody /\ UNCHANGED main
-----------------------------------------------------------------------------
(* handleWatcherEvent, one event at a time.                                *)

\* acceptManifest: a "ready" starts the revisions anew.
AcceptManifest(e) ==
    IF e.type # "ready" /\ e.rev < revision THEN revision ELSE e.rev

Stale(e) == e.rev < AcceptManifest(e)

TakeEvent ==
    /\ handler = Nobody /\ queue # <<>>
    /\ queue' = Tail(queue)
    /\ LET e == Head(queue)
       IN  \/ /\ halted \/ (e.type = "runtime-changed" /\ (Stale(e) \/ refs.runtime = 0))
                        \/ (e.type = "plugin-changed" /\ Stale(e))
              /\ revision' = IF halted THEN revision ELSE AcceptManifest(e)
              /\ UNCHANGED <<svc, handler, refs>>
           \/ /\ ~halted /\ e.type = "runtime-changed" /\ ~Stale(e) /\ refs.runtime # 0
              /\ revision' = AcceptManifest(e)
              /\ handler' = [Nobody EXCEPT !.at = "reload", !.on = refs.runtime]
              /\ svc' = [svc EXCEPT ![refs.runtime].seen = disk]
              /\ UNCHANGED refs
           \/ /\ ~halted /\ (e.type = "ready" \/ (e.type = "plugin-changed" /\ ~Stale(e)))
              /\ revision' = AcceptManifest(e)
              /\ handler' = [Nobody EXCEPT !.at = "stopRuntime", !.on = refs.runtime]
              /\ refs' = [refs EXCEPT !.runtime = 0]
              /\ UNCHANGED svc
           \/ /\ ~halted /\ e.type = "config-invalidated"
              /\ handler' = [at |-> "replaceRuntime", on |-> refs.runtime, prev |-> refs.watcher]
              /\ refs' = [refs EXCEPT !.runtime = 0, !.watcher = 0]
              /\ UNCHANGED <<svc, revision>>
    /\ UNCHANGED <<disk, main, stopper, halted, verdict, signals, edits, svcFaults, lost>>

\* stop() of a client ends the worker, by force when it does not answer in
\* time; then it throws.
RuntimeStopped ==
    /\ handler.at = "stopRuntime"
    /\ \/ /\ NewService <= MaxServices
          /\ svc' = Append(WithGone({handler.on}), Service("runtime"))
          /\ refs' = [refs EXCEPT !.runtime = NewService]
          /\ handler' = [Nobody EXCEPT !.at = "startRuntime", !.on = NewService]
          /\ UNCHANGED <<svcFaults, verdict>>
       \/ /\ handler.on # 0 /\ Up(handler.on) /\ ServiceFault
          /\ svc' = WithGone({handler.on})
          /\ handler' = Nobody /\ Reject
          /\ UNCHANGED refs
    /\ UNCHANGED <<disk, queue, main, stopper, revision, halted, signals, edits, lost>>

\* The runtime answers, having loaded, or tried to load, what was on disk at
\* some time since it was asked.
RuntimeAnswers(state) ==
    /\ Up(handler.on)
    /\ \E v \in svc[handler.on].seen..disk :
         svc' = [svc EXCEPT ![handler.on].state = state, ![handler.on].loaded = v]
    /\ handler' = Nobody
    /\ UNCHANGED <<disk, queue, main, stopper, refs, revision, halted, verdict, signals, edits, svcFaults, lost>>

RuntimeLoaded == handler.at \in {"startRuntime", "reload"} /\ RuntimeAnswers("up")

\* The controller's reloadRuntime keeps what its stop or start throws: the code
\* that ran is stopped, the state is "failed", and the answer is its health.
ReloadFails == handler.at = "reload" /\ RuntimeAnswers("failed")

\* The request throws: a start that fails, a reload whose manifest cannot be
\* read, or a worker that is gone.
RuntimeRefuses ==
    /\ handler.at \in {"startRuntime", "reload"}
    /\ IF Up(handler.on) THEN ServiceFault ELSE UNCHANGED svcFaults
    /\ handler' = Nobody /\ Reject
    /\ UNCHANGED <<svc, disk, queue, main, stopper, refs, revision, halted, signals, edits, lost>>

\* replaceWatcher: the runtime, the config signal watcher and the watcher are
\* stopped one after the other.  When the first of them throws, the watcher is
\* in no field any more.
ReplaceRuntime ==
    /\ handler.at = "replaceRuntime"
    /\ svc' = WithGone({handler.on})
    /\ \/ handler' = [handler EXCEPT !.at = "replaceSignal"] /\ UNCHANGED <<verdict, svcFaults, lost>>
       \/ /\ handler.on # 0 /\ Up(handler.on) /\ ServiceFault
          /\ handler' = Nobody /\ Reject
          /\ lost' = [lost EXCEPT !.watchers = @ \cup {handler.prev}]
    /\ UNCHANGED <<disk, queue, main, stopper, refs, revision, halted, signals, edits>>

ReplaceSignal ==
    /\ handler.at = "replaceSignal"
    /\ signals' = IF refs.signal = 1 THEN signals - 1 ELSE signals
    /\ refs' = [refs EXCEPT !.signal = 0]
    /\ handler' = [handler EXCEPT !.at = "replaceWatcher"]
    /\ UNCHANGED <<svc, disk, queue, main, stopper, revision, halted, verdict, edits, svcFaults, lost>>

\* Seeded fault: the previous watcher is not stopped.
ReplaceWatcherKept ==
    /\ handler.at = "replaceWatcher" /\ ~halted /\ NewService <= MaxServices
    /\ svc' = Append(svc, Service("watcher"))
    /\ refs' = [refs EXCEPT !.watcher = NewService]
    /\ handler' = [Nobody EXCEPT !.at = "starting", !.on = NewService]
    /\ UNCHANGED <<disk, queue, main, stopper, revision, halted, verdict, signals, edits, svcFaults, lost>>

ReplaceWatcher ==
    /\ handler.at = "replaceWatcher"
    /\ IF halted
       THEN svc' = WithGone({handler.prev}) /\ handler' = Nobody /\ UNCHANGED refs
       ELSE /\ NewService <= MaxServices
            /\ svc' = Append(WithGone({handler.prev}), Service("watcher"))
            /\ refs' = [refs EXCEPT !.watcher = NewService]
            /\ handler' = [Nobody EXCEPT !.at = "starting", !.on = NewService]
    /\ UNCHANGED <<disk, queue, main, stopper, revision, halted, verdict, signals, edits, svcFaults, lost>>
-----------------------------------------------------------------------------
(* stop(), by the signal and in devCommand's finally.                      *)

StopBegins(k) ==
    /\ stopper[k] = NoStop
    /\ IF halted /\ refs.watcher = 0 /\ refs.runtime = 0
       THEN stopper' = [stopper EXCEPT ![k].at = "done"] /\ UNCHANGED halted
       ELSE stopper' = [stopper EXCEPT ![k].at = "waiting"] /\ halted' = TRUE

Signalled ==
    /\ main.at \in {"starting", "signal", "failing", "running"} /\ StopBegins("signal")
    /\ UNCHANGED <<svc, disk, queue, main, handler, refs, revision, verdict, signals, edits, svcFaults, lost>>

\* The finally of devCommand, once `closed` has settled or start() has thrown.
Finally ==
    /\ main.at = "final" \/ (main.at = "running" /\ verdict # "open")
    /\ main' = [main EXCEPT !.at = "final"] /\ StopBegins("finally")
    /\ UNCHANGED <<svc, disk, queue, handler, refs, revision, verdict, signals, edits, svcFaults, lost>>

StopTakes(k) ==
    /\ stopper[k].at = "waiting" /\ handler = Nobody /\ queue = <<>>
    /\ stopper' = [stopper EXCEPT ![k] = [at |-> "closing", watcher |-> refs.watcher,
                                          runtime |-> refs.runtime, signal |-> refs.signal]]
    /\ refs' = [watcher |-> 0, runtime |-> 0, signal |-> 0]
    /\ UNCHANGED <<svc, disk, queue, main, handler, revision, halted, verdict, signals, edits, svcFaults, lost>>

StopEnds(k) ==
    /\ stopper[k].at = "closing"
    /\ svc' = WithGone({stopper[k].watcher, stopper[k].runtime})
    /\ signals' = signals - stopper[k].signal
    /\ stopper' = [stopper EXCEPT ![k].at = "done"]
    /\ verdict' = IF verdict = "open" THEN "resolved" ELSE verdict
    /\ UNCHANGED <<disk, queue, main, handler, refs, revision, halted, edits, svcFaults, lost>>

\* A worker did not stop in time.  In the signal's handler nobody catches that,
\* and the process ends with all it has.
StopThrows(k) ==
    /\ stopper[k].at = "closing" /\ ServiceFault
    /\ \E s \in {stopper[k].watcher, stopper[k].runtime} \ {0} : Up(s)
    /\ stopper' = [stopper EXCEPT ![k].at = "done"]
    /\ IF k = "signal"
       THEN svc' = WithGone(DOMAIN svc) /\ signals' = 0 /\ main' = [main EXCEPT !.at = "crashed"]
       ELSE /\ svc' = WithGone({stopper[k].watcher, stopper[k].runtime})
            /\ signals' = signals - stopper[k].signal /\ UNCHANGED main
    /\ UNCHANGED <<disk, queue, handler, refs, revision, halted, verdict, edits, lost>>

RunEnds ==
    /\ main.at = "final" /\ stopper["finally"].at = "done"
    /\ main' = [main EXCEPT !.at = "ended"]
    /\ UNCHANGED <<svc, disk, queue, handler, stopper, refs, revision, halted, verdict, signals, edits, svcFaults, lost>>

DevNext ==
    /\ main.at # "crashed"
    /\ \/ \E s \in DOMAIN svc :
             WatcherReady(s) \/ Announce(s) \/ ServiceCrashes(s)
             \/ \E type \in {"runtime-changed", "plugin-changed"} : Rebuild(s, type)
       \/ ConfigEdited \/ MainStarts \/ HandlerStarts \/ TakeEvent
       \/ RuntimeStopped \/ RuntimeLoaded \/ ReloadFails \/ RuntimeRefuses
       \/ ReplaceRuntime \/ ReplaceSignal \/ ReplaceWatcher
       \/ Signalled \/ Finally \/ RunEnds
       \/ \E k \in DOMAIN stopper : StopTakes(k) \/ StopEnds(k) \/ StopThrows(k)

DevSpec == DevInit /\ [][DevNext]_devVars
-----------------------------------------------------------------------------
AtRest ==
    /\ ~halted /\ verdict = "open" /\ main.at = "running"
    /\ handler = Nobody /\ queue = <<>>

\* A session that has come to rest runs the code on disk, or has tried to and
\* reports that it failed: no rebuild is lost between the watcher, the event
\* queue, the stale-revision filter and a restart, whichever watcher announced
\* it (handleWatcherEvent, acceptManifest), and it never runs older code nor
\* rests without a runtime service.
QuietIsFresh ==
    (AtRest /\ refs.watcher # 0 /\ svc[refs.watcher].rebuilt = <<>>) =>
        /\ refs.runtime # 0
        /\ svc[refs.runtime].state \in {"up", "failed"}
        /\ svc[refs.runtime].loaded = disk

\* A session at rest runs its code.  It does not hold: a reload that fails is
\* answered like one that does not (controller.ts:230-244), and the session goes
\* on with a failed runtime until a rebuild loads.
QuietRuns ==
    AtRest /\ refs.runtime # 0 => svc[refs.runtime].state = "up"

\* A session without a watcher, its config being broken, watches the config
\* files: "something has to keep watching config files to retry".
BrokenConfigIsWatched == AtRest /\ refs.watcher = 0 => refs.signal = 1

\* Two runtime services, or two watchers, never run at a time: they would share
\* ports and the output directory.
OneOfEach ==
    \A kind \in {"watcher", "runtime"} :
        Cardinality({s \in DOMAIN svc : svc[s].kind = kind /\ Up(s) /\ s \notin lost.watchers}) <= 1

\* When devCommand returns, nothing of the session keeps the process alive: no
\* worker and no file watcher.  Two operations are set apart: a config signal
\* watcher that starts while stop() runs, and a replaceWatcher whose runtime
\* does not stop in time.
EndedLeavesNothing ==
    (/\ main.at = "ended" /\ handler = Nobody
     /\ \A k \in DOMAIN stopper : stopper[k].at \in {"idle", "done"}) =>
        /\ \A s \in DOMAIN svc : Up(s) => s \in lost.watchers
        /\ signals <= lost.signal

\* A dev session follows its sources and ends without a trace.
DevSessionSound == QuietIsFresh /\ BrokenConfigIsWatched /\ OneOfEach /\ EndedLeavesNothing
=============================================================================
