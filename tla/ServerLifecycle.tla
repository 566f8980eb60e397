-------------------------- MODULE ServerLifecycle --------------------------
(***************************************************************************)
(* Start and stop of an application server: the Lifecycle and the teardown *)
(* stacks of packages/common (lifecycle.ts) under the ApplicationHost of   *)
(* packages/application (host.ts, runtime.ts), which starts the Gateway    *)
(* (gateway.ts), which starts the server transport and its handlers        *)
(* (http-server/transport.ts), which binds the server host (host.ts).      *)
(*                                                                         *)
(* Every acquisition may fail, and every teardown may throw (it counts as  *)
(* released: the resource was told to go).  A failed start unwinds the     *)
(* transport's stack, then the gateway's, then the host's; `frames` is     *)
(* that call stack of unwindings.                                          *)
(***************************************************************************)
EXTENDS Integers, Sequences, SequencesExt

CONSTANTS
    Handlers,   \* number of handlers of the server transport
    Services,   \* number of Start hooks that return a teardown
    MaxOps      \* bound: start, stop and reload calls

ASSUME LifecycleAssumption == Handlers \in Nat /\ Services \in Nat /\ MaxOps \in Nat

VARIABLES
    life,       \* Lifecycle.#state of the application host
    ops,        \* Lifecycle.#queue: the operations not yet begun
    step,      \* where the start under way is
    stacks,     \* the teardown stacks
    frames,     \* unwindings under way, the innermost last
    app,        \* the application instances: created, live, disposed
    mounted,    \* handlers mounted on the server host
    bound,      \* the socket is bound
    services,   \* application services running
    reload,     \* the reload under way
    issued,      \* how many calls were made
    crossed       \* a reload failed, or overlapped a start or stop

lifeVars == <<life, ops, step, stacks, frames, app, mounted, bound, services,
              reload, issued, crossed>>

StackNames == {"host", "services", "gateway", "transport"}

LifeInit ==
    /\ life = "idle"
    /\ ops = <<>>
    /\ step = "none"
    /\ stacks = [s \in StackNames |-> <<>>]
    /\ frames = <<>>
    /\ app = [state |-> "none", leaked |-> FALSE]
    /\ mounted = 0
    /\ bound = FALSE
    /\ services = 0
    /\ reload = "none"
    /\ issued = 0
    /\ crossed = FALSE

\* TeardownStack.defer
Defer(s, teardown) == [stacks EXCEPT ![s] = Append(@, teardown)]

-----------------------------------------------------------------------------
\* start() and stop() only queue: Lifecycle.#enqueue.
LifecycleCall(op) ==
    /\ issued < MaxOps
    /\ issued' = issued + 1
    /\ ops' = Append(ops, op)
    /\ UNCHANGED <<life, step, stacks, frames, app, mounted, bound, services, reload, crossed>>

Idling == step = "none" /\ frames = <<>>

\* A start of a host that is not idle rejects.
BeginStart ==
    /\ Idling
    /\ ops # <<>> /\ Head(ops) = "start"
    /\ ops' = Tail(ops)
    /\ \/ /\ life # "idle"
          /\ UNCHANGED <<life, step, crossed>>
       \/ /\ life = "idle"
          /\ life' = "starting"
          /\ step' = "application"
          /\ crossed' = (crossed \/ reload # "none")
    /\ UNCHANGED <<stacks, frames, app, mounted, bound, services, reload, issued>>

\* A stop of a host that is not running does nothing; otherwise the stack is
\* taken and unwound.
BeginStop ==
    /\ Idling
    /\ ops # <<>> /\ Head(ops) = "stop"
    /\ ops' = Tail(ops)
    /\ \/ /\ life # "running"
          /\ UNCHANGED <<life, frames, stacks, crossed>>
       \/ /\ life = "running"
          /\ life' = "stopping"
          /\ frames' = <<[of |-> "host", left |-> stacks["host"]]>>
          /\ stacks' = [stacks EXCEPT !["host"] = <<>>]
          /\ crossed' = (crossed \/ reload # "none")
    /\ UNCHANGED <<step, app, mounted, bound, services, reload, issued>>

-----------------------------------------------------------------------------
\* ApplicationHost.start: createApplication (NeemataApplication.initialize),
\* then the two teardowns of the host itself.
CreateApplication ==
    /\ step = "application"
    /\ app' = [app EXCEPT !.state = "live"]
    /\ stacks' = [stacks EXCEPT !["host"] = @ \o <<"application", "services">>]
    /\ step' = "mount"
    /\ UNCHANGED <<life, ops, frames, mounted, bound, services, reload, issued, crossed>>

\* Seeded fault: the socket's teardown is deferred once the socket is bound.
HostStopDeferredLate(key) == IF key = 0 THEN <<>> ELSE <<"handler">>

\* The server transport defers the socket's teardown before any mount, and each
\* handler's after its mount.
HostStopDeferred(key) == IF key = 0 THEN <<"socket">> ELSE <<"handler">>

\* createTransports, Gateway.start and the transport's start up to a mount.
MountHandler ==
    /\ step = "mount"
    /\ mounted < Handlers
    /\ mounted' = mounted + 1
    /\ stacks' = [stacks EXCEPT !["transport"] =
                    @ \o (IF mounted = 0 THEN HostStopDeferred(0) ELSE <<>>) \o HostStopDeferred(1)]
    /\ UNCHANGED <<life, ops, step, frames, app, bound, services, reload, issued, crossed>>

\* The gateway is deferred once fully started, above everything it serves.
DeferGateway(stack) == Append(stack, "gateway")

\* BaseServerHost.start, the end of the transport's start and of Gateway.start:
\* the gateway defers the transport's stop, the host the gateway's, and the
\* application's services get their Stop hook.
Bind ==
    /\ step = "mount"
    /\ mounted = Handlers
    /\ bound' = TRUE
    /\ stacks' = [stacks EXCEPT
         !["transport"] = IF "socket" \in Range(@) THEN @ ELSE Append(@, "socket"),
         !["gateway"] = Append(@, "transport"),
         !["host"] = DeferGateway(@),
         !["services"] = Append(@, "stopHook")]
    /\ step' = "hooks"
    /\ UNCHANGED <<life, ops, frames, app, mounted, services, reload, issued, crossed>>

\* runStartHooks: each hook may return a teardown.
RunStartHook ==
    /\ step = "hooks"
    /\ services < Services
    /\ services' = services + 1
    /\ stacks' = Defer("services", "service")
    /\ UNCHANGED <<life, ops, step, frames, app, mounted, bound, reload, issued, crossed>>

Started ==
    /\ step = "hooks"
    /\ services = Services
    /\ step' = "none"
    /\ life' = "running"
    /\ UNCHANGED <<ops, stacks, frames, app, mounted, bound, services, reload, issued, crossed>>

\* The stacks a failed start unwinds, innermost last: the transport's Lifecycle
\* its own, then Gateway.start its transports, then the host's Lifecycle.
FramesOnFailure(at) ==
    LET frame(s) == [of |-> s, left |-> stacks[s]] IN
    IF at = "mount" THEN <<frame("host"), frame("gateway"), frame("transport")>>
    ELSE <<frame("host")>>

\* The acquisition at hand throws.  An application whose initialize throws is
\* not disposed by anyone: its teardown was to be deferred afterwards.
LifecycleStartFails ==
    /\ step # "none"
    /\ frames' = FramesOnFailure(step)
    /\ stacks' = [s \in StackNames |->
                    IF \E k \in 1..Len(frames') : frames'[k].of = s THEN <<>> ELSE stacks[s]]
    /\ app' = IF step = "application" THEN [app EXCEPT !.leaked = TRUE] ELSE app
    /\ step' = "none"
    /\ UNCHANGED <<life, ops, mounted, bound, services, reload, issued, crossed>>

-----------------------------------------------------------------------------
Top == frames[Len(frames)]
Popped == SubSeq(frames, 1, Len(frames) - 1)

\* TeardownStack.unwind: reverse registration order.
UnwoundOrder(left) == <<left[Len(left)], SubSeq(left, 1, Len(left) - 1)>>

\* One teardown of the innermost unwinding; one that throws does not keep the
\* others from running.  A composite one unwinds its own stack first.
Teardown ==
    /\ frames # <<>>
    /\ Top.left # <<>>
    /\ LET next == UnwoundOrder(Top.left)
           rest == Append(Popped, [Top EXCEPT !.left = next[2]])
           enter(s) == /\ frames' = Append(rest, [of |-> s, left |-> stacks[s]])
                       /\ stacks' = [stacks EXCEPT ![s] = <<>>]
           stay == frames' = rest /\ UNCHANGED stacks
       IN  \/ next[1] \in {"services", "gateway", "transport"} /\ enter(next[1])
                /\ UNCHANGED <<app, mounted, bound, services>>
           \/ next[1] = "application" /\ stay /\ app' = [app EXCEPT !.state = "disposed"]
                /\ UNCHANGED <<mounted, bound, services>>
           \/ next[1] = "handler" /\ stay /\ mounted' = mounted - 1
                /\ UNCHANGED <<app, bound, services>>
           \/ next[1] = "socket" /\ stay /\ bound' = FALSE
                /\ UNCHANGED <<app, mounted, services>>
           \/ next[1] = "service" /\ stay /\ services' = services - 1
                /\ UNCHANGED <<app, mounted, bound>>
           \/ next[1] = "stopHook" /\ stay /\ UNCHANGED <<app, mounted, bound, services>>
    /\ UNCHANGED <<life, ops, step, reload, issued, crossed>>

\* An unwinding is over; with the outermost one the host is idle again.
Unwound ==
    /\ frames # <<>>
    /\ Top.left = <<>>
    /\ frames' = Popped
    /\ life' = IF Popped = <<>> THEN "idle" ELSE life
    /\ UNCHANGED <<ops, step, stacks, app, mounted, bound, services, reload, issued, crossed>>

-----------------------------------------------------------------------------
\* reloadApplication, which no Lifecycle serialises: dispose the application,
\* create the next one, and let the gateway use it.
ReloadApplication ==
    /\ issued < MaxOps
    /\ reload = "none"
    /\ app.state # "none"
    /\ issued' = issued + 1
    /\ reload' = "creating"
    /\ app' = [app EXCEPT !.state = "disposed"]
    /\ crossed' = (crossed \/ life # "running" \/ ~Idling)
    /\ UNCHANGED <<life, ops, step, stacks, frames, mounted, bound, services>>

ReloadEnds ==
    /\ reload = "creating"
    /\ reload' = "none"
    /\ \/ app' = [app EXCEPT !.state = "live"] /\ UNCHANGED crossed
       \/ app' = [app EXCEPT !.leaked = TRUE] /\ crossed' = TRUE
    /\ UNCHANGED <<life, ops, step, stacks, frames, mounted, bound, services, issued>>

LifeNext ==
    \/ \E op \in {"start", "stop"} : LifecycleCall(op)
    \/ BeginStart \/ BeginStop
    \/ CreateApplication \/ MountHandler \/ Bind \/ RunStartHook \/ Started
    \/ LifecycleStartFails \/ Teardown \/ Unwound
    \/ ReloadApplication \/ ReloadEnds

LifeSpec == LifeInit /\ [][LifeNext]_lifeVars

-----------------------------------------------------------------------------
\* A host that is idle holds nothing, whichever acquisition failed and however
\* start and stop calls were piled up: what a start acquired it released, and
\* a stop during a start took effect (Lifecycle, TeardownStack).  The
\* application whose initialize threw, or that a reload races, is set apart.
IdleHoldsNothing ==
    life = "idle" /\ Idling =>
        /\ mounted = 0 /\ ~bound /\ services = 0
        /\ \A s \in StackNames : stacks[s] = <<>>
        /\ app.state = "live" => crossed

\* The socket is closed only when no handler is left on it, on the rollback of
\* a failed start as on a stop: a live peer would make a graceful close wait
\* for ever (transport.ts).
SocketClosesLast ==
    frames # <<>> /\ mounted > 0 =>
        (Top.of = "transport" => "socket" \in Range(Top.left))

\* Whoever serves has an application: the socket is open, and services run,
\* only while the application is not disposed.
ServesLiveApplication ==
    bound \/ services > 0 => app.state = "live" \/ reload # "none" \/ crossed

\* A failed start unwinds exactly what it acquired: no application is left
\* undisposed.  It does not hold: one whose initialize threw is not (host.ts).
FailedStartUnwinds == ~app.leaked

\* A server starts, fails, reloads and stops without leaving anything open or
\* serving a dead application.
LifecycleSound == IdleHoldsNothing /\ SocketClosesLast /\ ServesLiveApplication
=============================================================================
