-------------------------- MODULE ClientConnection --------------------------
(***************************************************************************)
(* The connection of a client: the core's state machine, the WebSocket     *)
(* transport under it, and the reconnect loops.  An action is one run of   *)
(* JavaScript to its next await: a call of the application, an event of a  *)
(* socket, or the continuation of a suspended function.                    *)
(*                                                                         *)
(* Sockets are numbered in the order of their creation.  Reconnect delays  *)
(* are sleeps of any length; a sleeping loop that is aborted ends at once, *)
(* a loop that awaits an attempt ends when the attempt settles.            *)
(***************************************************************************)
EXTENDS Naturals, FiniteSets

CONSTANTS
    None,
    MaxSockets,  \* bound: connection attempts
    LoopIds      \* bound: names for reconnect loops

VARIABLES
    connState,   \* #state
    reason,      \* #lastDisconnectReason
    override,    \* #clientDisconnectOverrideReason, or None
    ctx,         \* whether there is a messageContext
    sock,        \* socket to its state
    ref,         \* the transport's webSocket
    byClient,    \* the transport's closingByClient
    attempt,     \* the socket of the pending #connecting promise
    loops,       \* live reconnect loops
    promise,     \* the loop of #reconnectPromise
    controller,  \* the loop of #reconnectController
    hooks,       \* disconnects waiting for the plugins' onDisconnect
    paused,      \* a reason to pause reconnecting is set
    disposed,
    explicit,    \* history: the application's last wish is to be disconnected
    raced        \* history: a call came before the previous one had ended

connVars == <<connState, reason, override, ctx, sock, ref, byClient, attempt, loops, promise,
              controller, hooks, paused, disposed, explicit, raced>>

ConnStates == {"idle", "connecting", "connected", "disconnecting", "disconnected"}
Reasons == {"server", "client", "connect_error", "heartbeat_timeout"}

\* The null is no loop, no socket and no reason; two loops can be told apart.
ASSUME ConnAssumption ==
    /\ None \notin LoopIds /\ None \notin Nat /\ None \notin Reasons
    /\ \E k, l \in LoopIds : k # l
    /\ MaxSockets \in Nat

ConnInit ==
    /\ connState = "idle" /\ reason = "server" /\ override = None /\ ctx = FALSE
    /\ sock = <<>> /\ ref = None /\ byClient = FALSE /\ attempt = None
    /\ loops = <<>> /\ promise = None /\ controller = None
    /\ hooks = {}
    /\ paused = FALSE /\ disposed = FALSE /\ explicit = FALSE /\ raced = FALSE

-----------------------------------------------------------------------------
(* connect.                                                                *)

MayStart == attempt = None /\ connState # "connected" /\ ~disposed /\ Cardinality(DOMAIN sock) < MaxSockets

(***************************************************************************)
(* connect() without an attempt under way: a new socket.                   *)
(***************************************************************************)
StartAttempt ==
    LET s == Cardinality(DOMAIN sock) + 1
    IN  /\ connState' = "connecting"
        /\ ctx' = TRUE
        /\ byClient' = FALSE
        /\ sock' = [t \in 1..s |-> IF t = s THEN "opening" ELSE sock[t]]
        /\ ref' = s /\ attempt' = s

Connect ==
    /\ MayStart
    /\ StartAttempt
    /\ explicit' = FALSE
    /\ raced' = (raced \/ connState = "disconnecting")
    /\ UNCHANGED <<reason, override, loops, promise, controller, hooks, paused, disposed>>

(***************************************************************************)
(* A call of a client with autoConnect.                                    *)
(***************************************************************************)
ShouldConnectOnCall ==
    /\ ~disposed /\ reason # "client"
    /\ connState = "connecting" \/ promise = None
    /\ connState \in {"idle", "connecting", "disconnected"}

CallConnects ==
    /\ ShouldConnectOnCall /\ MayStart
    /\ StartAttempt
    /\ UNCHANGED <<reason, override, loops, promise, controller, hooks, paused, disposed,
                   explicit, raced>>

-----------------------------------------------------------------------------
(* The reconnect loops: values of the record [loops, promise, controller]. *)

Running == [loops |-> loops, promise |-> promise, controller |-> controller]

Become(r) == loops' = r.loops /\ promise' = r.promise /\ controller' = r.controller

Without(f, S) == [k \in DOMAIN f \ S |-> f[k]]

(***************************************************************************)
(* The condition of the loop, with the state and the reason of that time.  *)
(***************************************************************************)
LoopGoesOn(st, why) == ~disposed /\ st \in {"disconnected", "idle"} /\ why # "client"

StartLoop(r) ==
    LET l == CHOOSE k \in LoopIds \ DOMAIN r.loops : TRUE
    IN  [loops |-> [k \in DOMAIN r.loops \cup {l} |->
                       IF k = l THEN [pc |-> "sleep", aborted |-> FALSE] ELSE r.loops[k]],
         promise |-> l, controller |-> l]

(***************************************************************************)
(* ensureReconnectLoop, up to the loop's first sleep.                      *)
(***************************************************************************)
EnsureReconnectLoop(st, why) ==
    IF promise # None \/ ~LoopGoesOn(st, why) \/ LoopIds \subseteq DOMAIN loops THEN Running
    ELSE StartLoop(Running)

(***************************************************************************)
(* cancelReconnectLoop: an aborted sleeper ends at once.                   *)
(***************************************************************************)
CancelReconnectLoop ==
    Become([loops |-> [l \in {k \in DOMAIN loops : k # controller \/ loops[k].pc = "await"} |->
                          [loops[l] EXCEPT !.aborted = @ \/ l = controller]],
            promise |-> None, controller |-> None])

(***************************************************************************)
(* The end of loops: the finally clause of each forgets the promise,       *)
(* whosever it is.                                                         *)
(***************************************************************************)
EndLoops(r, S) ==
    [loops |-> Without(r.loops, S),
     promise |-> IF S = {} THEN r.promise ELSE None,
     controller |-> IF r.controller \in S THEN None ELSE r.controller]

(***************************************************************************)
(* The loops go on at once when the attempt they await has settled: they   *)
(* end, or sleep before the next attempt.                                  *)
(***************************************************************************)
AttemptSettled(r, st, why) ==
    LET awaiting == {l \in DOMAIN r.loops : r.loops[l].pc = "await"}
        ends     == {l \in awaiting : r.loops[l].aborted \/ ~LoopGoesOn(st, why)}
    IN  EndLoops([r EXCEPT !.loops = [l \in DOMAIN @ |-> [@[l] EXCEPT !.pc = "sleep"]]], ends)

(***************************************************************************)
(* A sleep is over: break, sleep on while paused, or connect.              *)
(***************************************************************************)
LoopWakes(l) ==
    /\ loops[l].pc = "sleep"
    /\ IF connState \in {"connected", "connecting"} \/ disposed
       THEN Become(EndLoops(Running, {l})) /\ UNCHANGED <<connState, ctx, byClient, sock, ref, attempt>>
       ELSE /\ ~paused
            /\ loops' = [loops EXCEPT ![l].pc = "await"]
            /\ IF attempt # None THEN UNCHANGED <<connState, ctx, byClient, sock, ref, attempt>>
               ELSE MayStart /\ StartAttempt
            /\ UNCHANGED <<promise, controller>>
    /\ UNCHANGED <<reason, override, hooks, paused, disposed, explicit, raced>>

(***************************************************************************)
(* The open event: handleConnected, and the attempt settles.               *)
(***************************************************************************)
SocketOpens(s) ==
    /\ sock[s] = "opening"
    /\ sock' = [sock EXCEPT ![s] = "open"]
    /\ connState' = "connected" /\ reason' = "server"
    /\ attempt' = None
    /\ Become(AttemptSettled(Running, "connected", "server"))
    /\ UNCHANGED <<override, ctx, ref, byClient, hooks, paused, disposed, explicit, raced>>

-----------------------------------------------------------------------------
(* Disconnects.                                                            *)

(***************************************************************************)
(* handleDisconnected up to the plugins' hooks; the hooks end later.  The  *)
(* disconnect of a failed attempt ends with the attempt.                   *)
(***************************************************************************)
HandleDisconnected(why, failed) ==
    LET effective == IF why = "client" /\ override # None THEN override ELSE why
    IN  /\ override' = None
        /\ ctx' = FALSE
        /\ IF connState = "disconnected" /\ (~ctx \/ failed # None) /\ reason = effective
           THEN /\ attempt' = IF failed # None THEN None ELSE attempt
                /\ Become(IF failed # None THEN AttemptSettled(Running, connState, reason) ELSE Running)
                /\ UNCHANGED <<connState, reason, hooks>>
           ELSE /\ connState' = "disconnected" /\ reason' = effective
                /\ hooks' = hooks \cup {[why |-> effective, failed |-> failed]}
                /\ UNCHANGED <<attempt, loops, promise, controller>>

(***************************************************************************)
(* The hooks have ended: whether to reconnect is asked of the reason of    *)
(* then, the loop's condition of the state and reason of now.              *)
(***************************************************************************)
\* Seeded fault: nobody reconnects after a failed attempt.
ReconnectAfterQuietly(h) ==
    IF ~disposed /\ h.why # "client" /\ h.failed = None THEN EnsureReconnectLoop(connState, reason) ELSE Running

ReconnectAfter(h) ==
    IF ~disposed /\ h.why # "client" THEN EnsureReconnectLoop(connState, reason) ELSE Running

HooksEnd(h) ==
    /\ hooks' = hooks \ {h}
    /\ IF h.failed # None
       THEN attempt' = None /\ Become(AttemptSettled(ReconnectAfter(h), connState, reason))
       ELSE attempt' = attempt /\ Become(ReconnectAfter(h))
    /\ UNCHANGED <<connState, reason, override, ctx, sock, ref, byClient, paused, disposed,
                   explicit, raced>>

(***************************************************************************)
(* The close event of a socket that never opened rejects the attempt; that *)
(* of an open one is reported to the core.                                 *)
(***************************************************************************)
SocketFails(s) ==
    /\ sock[s] \in {"opening", "abandoned"}
    /\ sock' = [sock EXCEPT ![s] = "closed"]
    /\ ref' = None
    /\ HandleDisconnected("connect_error", s)
    /\ UNCHANGED <<byClient, paused, disposed, explicit, raced>>

SocketCloses(s) ==
    /\ sock[s] \in {"open", "closing"}
    /\ sock' = [sock EXCEPT ![s] = "closed"]
    /\ ref' = None
    /\ HandleDisconnected(IF byClient \/ sock[s] = "closing" THEN "client" ELSE "server", None)
    /\ UNCHANGED <<byClient, paused, disposed, explicit, raced>>

(***************************************************************************)
(* transport.disconnect: close the current socket, if there is one.        *)
(***************************************************************************)
CloseSocket ==
    IF ref = None THEN UNCHANGED <<sock, byClient>>
    ELSE /\ byClient' = TRUE
         /\ sock' = [sock EXCEPT ![ref] = CASE @ = "opening" -> "abandoned"
                                            [] @ = "open"    -> "closing"
                                            [] OTHER         -> @]

(***************************************************************************)
(* disconnect, by the application or, with an override, by a heartbeat     *)
(* that timed out (requestReconnect).  The rest of it, after the close     *)
(* event, finds the close handled; without a socket it handles it itself.  *)
(***************************************************************************)
DisconnectWith(o) ==
    /\ CancelReconnectLoop
    /\ CASE connState \in {"idle", "disconnected"} ->
                /\ reason' = "client" /\ connState' = "disconnected" /\ override' = o
                /\ UNCHANGED <<sock, byClient, ctx, hooks>>
         [] connState \notin {"idle", "disconnected"} /\ ref # None ->
                /\ connState' = "disconnecting" /\ override' = o
                /\ CloseSocket
                /\ UNCHANGED <<reason, ctx, hooks>>
         [] OTHER ->
                /\ connState' = "disconnected" /\ ctx' = FALSE /\ override' = None
                /\ reason' = IF o = None THEN "client" ELSE o
                /\ hooks' = hooks \cup {[why |-> reason', failed |-> None]}
                /\ UNCHANGED <<sock, byClient>>
    /\ UNCHANGED <<ref, attempt, paused, disposed>>

Disconnect ==
    /\ ~explicit /\ ~disposed
    /\ DisconnectWith(override)
    /\ explicit' = TRUE
    /\ raced' = (raced \/ attempt # None \/ connState = "disconnecting" \/ hooks # {})

HeartbeatTimesOut ==
    /\ connState = "connected" /\ ~disposed
    /\ DisconnectWith("heartbeat_timeout")
    /\ UNCHANGED <<explicit, raced>>

(***************************************************************************)
(* dispose, with the reconnect plugin's dispose.                           *)
(***************************************************************************)
Dispose ==
    /\ ~disposed
    /\ disposed' = TRUE
    /\ ctx' = FALSE
    /\ CancelReconnectLoop
    /\ IF connState \in {"connecting", "connected"} THEN CloseSocket ELSE UNCHANGED <<sock, byClient>>
    /\ UNCHANGED <<connState, reason, override, ref, attempt, hooks, paused, explicit, raced>>

-----------------------------------------------------------------------------
(* The browser plugin.                                                     *)

TriggerReconnect ==
    /\ ~disposed /\ connState \in {"disconnected", "idle"}
    /\ Become(EnsureReconnectLoop(connState, reason))
    /\ UNCHANGED <<connState, reason, override, ctx, sock, ref, byClient, attempt, hooks, paused, disposed,
                   explicit, raced>>

SetPaused(b) ==
    /\ paused # b
    /\ paused' = b
    /\ UNCHANGED <<connState, reason, override, ctx, sock, ref, byClient, attempt, loops, promise,
                   controller, hooks, disposed, explicit, raced>>

ConnNext ==
    \/ Connect \/ CallConnects \/ Disconnect \/ HeartbeatTimesOut \/ Dispose \/ TriggerReconnect
    \/ \E b \in BOOLEAN : SetPaused(b)
    \/ \E s \in DOMAIN sock : SocketOpens(s) \/ SocketFails(s) \/ SocketCloses(s)
    \/ \E l \in DOMAIN loops : LoopWakes(l)
    \/ \E h \in hooks : HooksEnd(h)

ConnSpec == ConnInit /\ [][ConnNext]_connVars

-----------------------------------------------------------------------------
ConnTypeOK ==
    /\ connState \in ConnStates /\ reason \in Reasons
    /\ override \in {None, "heartbeat_timeout"}
    /\ \A s \in DOMAIN sock : sock[s] \in {"opening", "open", "abandoned", "closing", "closed"}
    /\ ref \in DOMAIN sock \cup {None} /\ attempt \in DOMAIN sock \cup {None}
    /\ DOMAIN loops \subseteq LoopIds
    /\ {promise, controller} \subseteq DOMAIN loops \cup {None}

(***************************************************************************)
(* A client that may reconnect is never stuck: while it is disconnected    *)
(* for another reason than its own wish, a reconnect loop is running or is *)
(* about to be started.                                                    *)
(***************************************************************************)
Live(l) == ~loops[l].aborted

NeverStuck ==
    (connState = "disconnected" /\ reason # "client" /\ ~disposed) =>
        \/ \E l \in DOMAIN loops : Live(l)
        \/ \E h \in hooks : h.why # "client"

(***************************************************************************)
(* Never two reconnect loops at once, unless a call overtook another.      *)
(***************************************************************************)
OneReconnectLoop == raced \/ Cardinality({l \in DOMAIN loops : Live(l)}) <= 1

(***************************************************************************)
(* A connected client can send: it has a message context and its transport *)
(* the open socket, and that is the only open one.                         *)
(***************************************************************************)
ConnectedIsUsable ==
    (connState = "connected" /\ ~raced /\ ~disposed) =>
        /\ ctx /\ ref # None /\ sock[ref] = "open"
        /\ \A s \in DOMAIN sock : sock[s] = "open" => s = ref

(***************************************************************************)
(* After an explicit disconnect nothing connects until the application     *)
(* does.  It does not hold: a disconnect during a connect is taken for a   *)
(* connect error, after which the client reconnects (core.ts).             *)
(***************************************************************************)
DisconnectSticks == [][explicit /\ explicit' => DOMAIN sock' = DOMAIN sock]_connVars

\* A client gets back to a usable connection through drops, timeouts and calls
\* in any order: never stuck, never two reconnect loops, connected only when it
\* can send.
ConnectionSound == ConnTypeOK /\ NeverStuck /\ OneReconnectLoop /\ ConnectedIsUsable
=============================================================================
