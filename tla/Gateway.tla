------------------------------ MODULE Gateway ------------------------------
(***************************************************************************)
(* The life of a server's connections: the WebSocket handler's registry    *)
(* and session table, and the gateway behind them with its calls, from the *)
(* upgrade request to the teardown, while the server stops.                *)
(***************************************************************************)
EXTENDS Naturals, FiniteSets

CONSTANT Conns

VARIABLES
    upgrade,   \* connection to the state of its upgrade request
    registry,  \* connection to its place in the registry: pending, open, or neither
    session,   \* connections with a session in the engine
    peer,      \* connection to the state of its socket
    scope,     \* connection to the state of its gateway scope
    teardowns, \* history: connection to the teardowns of its scope
    running,   \* connections with a call under way
    aborted,   \* connections whose call was aborted
    stopping,  \* the progress of the server's stop
    sweep      \* connections the stop has still to disconnect

gatewayVars == <<upgrade, registry, session, peer, scope, teardowns, running, aborted, stopping, sweep>>

GatewayInit ==
    /\ upgrade = [c \in Conns |-> "none"] /\ registry = [c \in Conns |-> "none"]
    /\ session = {} /\ peer = [c \in Conns |-> "none"]
    /\ scope = [c \in Conns |-> "none"] /\ teardowns = [c \in Conns |-> 0]
    /\ running = {} /\ aborted = {} /\ stopping = "no" /\ sweep = {}

-----------------------------------------------------------------------------
(* Teardown.                                                               *)

(***************************************************************************)
(* closeConnection: the first caller claims the scope; later ones find it  *)
(* claimed.                                                                *)
(***************************************************************************)
CloseScope(c) ==
    IF scope[c] = "live"
    THEN /\ scope' = [scope EXCEPT ![c] = "closing"]
         /\ teardowns' = [teardowns EXCEPT ![c] = @ + 1]
    ELSE UNCHANGED <<scope, teardowns>>

(***************************************************************************)
(* disconnect of the registry: claim, close the session, close the scope.  *)
(***************************************************************************)
Disconnected(c) ==
    IF registry[c] = "none" THEN UNCHANGED <<registry, peer, session, scope, teardowns>>
    ELSE /\ registry' = [registry EXCEPT ![c] = "none"]
         /\ peer' = [peer EXCEPT ![c] = IF registry[c] = "open" THEN "closed" ELSE @]
         /\ session' = session \ {c}
         /\ CloseScope(c)

(***************************************************************************)
(* The rest of teardownConnection, each step bounded in time: the calls    *)
(* are aborted and the container is disposed.                              *)
(***************************************************************************)
TeardownEnds(c) ==
    /\ scope[c] = "closing"
    /\ scope' = [scope EXCEPT ![c] = "closed"]
    /\ aborted' = IF c \in running THEN aborted \cup {c} ELSE aborted
    /\ UNCHANGED <<upgrade, registry, session, peer, teardowns, running, stopping, sweep>>

-----------------------------------------------------------------------------
(* Admission.                                                              *)

UpgradeBegins(c) ==
    /\ upgrade[c] = "none" /\ stopping = "no"
    /\ upgrade' = [upgrade EXCEPT ![c] = "connecting"]
    /\ UNCHANGED <<registry, session, peer, scope, teardowns, running, aborted, stopping, sweep>>

(***************************************************************************)
(* onConnect fails: its container is disposed, nothing is admitted.        *)
(***************************************************************************)
UpgradeFails(c) ==
    /\ upgrade[c] = "connecting"
    /\ upgrade' = [upgrade EXCEPT ![c] = "refused"]
    /\ UNCHANGED <<registry, session, peer, scope, teardowns, running, aborted, stopping, sweep>>

(***************************************************************************)
(* onConnect has made the scope: it is admitted, or closed again when the  *)
(* handler is disposed by now.                                             *)
(***************************************************************************)
UpgradeEnds(c) ==
    /\ upgrade[c] = "connecting"
    /\ IF stopping = "no"
       THEN /\ upgrade' = [upgrade EXCEPT ![c] = "accepted"]
            /\ registry' = [registry EXCEPT ![c] = "pending"]
            /\ session' = session \cup {c}
            /\ scope' = [scope EXCEPT ![c] = "live"]
            /\ UNCHANGED teardowns
       ELSE /\ upgrade' = [upgrade EXCEPT ![c] = "leaving"]
            /\ scope' = [scope EXCEPT ![c] = "closing"]
            /\ teardowns' = [teardowns EXCEPT ![c] = @ + 1]
            /\ UNCHANGED <<registry, session>>
    /\ UNCHANGED <<peer, running, aborted, stopping, sweep>>

UpgradeLeaves(c) ==
    /\ upgrade[c] = "leaving" /\ scope[c] = "closed"
    /\ upgrade' = [upgrade EXCEPT ![c] = "refused"]
    /\ UNCHANGED <<registry, session, peer, scope, teardowns, running, aborted, stopping, sweep>>

(***************************************************************************)
(* The open hook: the pending connection is claimed for its peer; a peer   *)
(* whose connection was reaped is closed.                                  *)
(***************************************************************************)
PeerOpens(c) ==
    /\ upgrade[c] = "accepted" /\ peer[c] = "none"
    /\ IF registry[c] = "pending"
       THEN registry' = [registry EXCEPT ![c] = "open"] /\ peer' = [peer EXCEPT ![c] = "open"]
       ELSE peer' = [peer EXCEPT ![c] = "closed"] /\ UNCHANGED registry
    /\ UNCHANGED <<upgrade, session, scope, teardowns, running, aborted, stopping, sweep>>

-----------------------------------------------------------------------------
(* The ends of a connection: the reap of one that never opened, the close  *)
(* hook of its socket, a termination by its session.                       *)

Reap(c) ==
    /\ registry[c] = "pending"
    /\ Disconnected(c)
    /\ UNCHANGED <<upgrade, running, aborted, stopping, sweep>>

PeerCloses(c) ==
    /\ peer[c] = "open"
    /\ Disconnected(c)
    /\ UNCHANGED <<upgrade, running, aborted, stopping, sweep>>

Terminate(c) ==
    /\ c \in session /\ registry[c] = "open"
    /\ Disconnected(c)
    /\ UNCHANGED <<upgrade, running, aborted, stopping, sweep>>

-----------------------------------------------------------------------------
(* Calls.                                                                  *)

(***************************************************************************)
(* A request reaches the gateway through its session: onRpc tracks it.     *)
(***************************************************************************)
OnRpcRequest(c) ==
    /\ c \in session /\ peer[c] = "open" /\ c \notin running
    /\ running' = running \cup {c} /\ aborted' = aborted \ {c}
    /\ UNCHANGED <<upgrade, registry, session, peer, scope, teardowns, stopping, sweep>>

RpcEnds(c) ==
    /\ c \in running
    /\ running' = running \ {c} /\ aborted' = aborted \ {c}
    /\ UNCHANGED <<upgrade, registry, session, peer, scope, teardowns, stopping, sweep>>

-----------------------------------------------------------------------------
(* The stop of the server: the handler is disposed, then the gateway       *)
(* sweeps what its transports left.                                        *)

StopServer ==
    /\ stopping = "no"
    /\ stopping' = "upgrades"
    /\ UNCHANGED <<upgrade, registry, session, peer, scope, teardowns, running, aborted, sweep>>

(***************************************************************************)
(* disposeAll, once the upgrades under way have ended.                     *)
(***************************************************************************)
\* Seeded fault: the sweep does not wait for the upgrades.
BeginSweepAtOnce ==
    /\ stopping = "upgrades"
    /\ stopping' = "sweep"
    /\ sweep' = {c \in Conns : registry[c] # "none"}
    /\ UNCHANGED <<upgrade, registry, session, peer, scope, teardowns, running, aborted>>

BeginSweep ==
    /\ stopping = "upgrades"
    /\ \A c \in Conns : upgrade[c] \notin {"connecting", "leaving"}
    /\ stopping' = "sweep"
    /\ sweep' = {c \in Conns : registry[c] # "none"}
    /\ UNCHANGED <<upgrade, registry, session, peer, scope, teardowns, running, aborted>>

(***************************************************************************)
(* One connection of the sweep.                                            *)
(***************************************************************************)
SweepOne(c) ==
    /\ stopping = "sweep" /\ c \in sweep
    /\ sweep' = sweep \ {c}
    /\ Disconnected(c)
    /\ UNCHANGED <<upgrade, running, aborted, stopping>>

(***************************************************************************)
(* stop: the sweep of the scopes, and the wait for teardowns under way.    *)
(***************************************************************************)
StopScopes ==
    /\ stopping = "sweep" /\ sweep = {}
    /\ stopping' = "scopes"
    /\ scope' = [c \in Conns |-> IF scope[c] = "live" THEN "closing" ELSE scope[c]]
    /\ teardowns' = [c \in Conns |-> IF scope[c] = "live" THEN teardowns[c] + 1 ELSE teardowns[c]]
    /\ UNCHANGED <<upgrade, registry, session, peer, running, aborted, sweep>>

Stopped ==
    /\ stopping = "scopes"
    /\ \A c \in Conns : scope[c] # "closing"
    /\ stopping' = "stopped"
    /\ UNCHANGED <<upgrade, registry, session, peer, scope, teardowns, running, aborted, sweep>>

GatewayNext ==
    \/ \E c \in Conns :
        \/ UpgradeBegins(c) \/ UpgradeFails(c) \/ UpgradeEnds(c) \/ UpgradeLeaves(c) \/ PeerOpens(c)
        \/ Reap(c) \/ PeerCloses(c) \/ Terminate(c) \/ OnRpcRequest(c) \/ RpcEnds(c)
        \/ TeardownEnds(c) \/ SweepOne(c)
    \/ StopServer \/ BeginSweep \/ StopScopes \/ Stopped

GatewaySpec == GatewayInit /\ [][GatewayNext]_gatewayVars

-----------------------------------------------------------------------------
(***************************************************************************)
(* No zombie: a registered connection has a session and a live scope, and  *)
(* a session has a registered connection.                                  *)
(***************************************************************************)
NoZombie ==
    \A c \in Conns :
        /\ registry[c] # "none" => c \in session /\ scope[c] = "live"
        /\ c \in session => registry[c] # "none"

(***************************************************************************)
(* Exactly one teardown: a scope that was made and is gone was torn down   *)
(* once, whoever ended its connection.                                     *)
(***************************************************************************)
TeardownOnce ==
    \A c \in Conns : teardowns[c] = IF scope[c] \in {"closing", "closed"} THEN 1 ELSE 0

(***************************************************************************)
(* A call never outlives its scope without knowing: it has been aborted.   *)
(***************************************************************************)
ClosedScopeAbortsCalls == \A c \in running : scope[c] = "closed" => c \in aborted

(***************************************************************************)
(* A stopped server has no connection left: none is registered, every      *)
(* scope is closed, no upgrade can still be admitted.                      *)
(***************************************************************************)
StoppedIsClean ==
    stopping = "stopped" =>
        \A c \in Conns : /\ registry[c] = "none" /\ scope[c] \in {"none", "closed"}
                         /\ upgrade[c] \notin {"connecting", "leaving"}
                         /\ peer[c] # "open"

\* Connections end exactly once and completely, whoever ends them.
GatewaySound == NoZombie /\ TeardownOnce /\ ClosedScopeAbortsCalls /\ StoppedIsClean
=============================================================================
