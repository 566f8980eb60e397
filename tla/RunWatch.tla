------------------------------ MODULE RunWatch ------------------------------
(***************************************************************************)
(* Watching a run: watchRun (runtime/client.ts) over the wake hub of       *)
(* Postgres (adapters/postgres/wake-events.ts).  Every status change is    *)
(* notified to the connection that LISTENs at that moment; what is         *)
(* notified while none does is lost.  The hub pulses its listeners when it *)
(* listens again, and a watcher polls besides.                             *)
(*                                                                         *)
(* An `end` event of a connection comes no later than the end() that       *)
(* caused it settles, as with a pg Client.                                 *)
(***************************************************************************)
EXTENDS Integers, Sequences, FiniteSets

CONSTANTS
    MaxStatus,  \* number of statuses the run goes through, the last terminal
    MaxConns,   \* bound: LISTEN connections opened
    MaxDebounces  \* bound: debounce windows begun

VARIABLES
    status,     \* the run's status: 1..MaxStatus, or 0 when it is deleted
    conns,      \* LISTEN connections: connecting, listening, up, gone
    client,     \* the hub's current connection, or 0
    timer,      \* a reconnect is scheduled
    everListened,
    hubOff,     \* the hub is disposed
    inflight,   \* notifications on their way
    missed,     \* what a change notified may be lost: "no", "gap", "first"
    watch       \* the watcher

watchVars == <<status, conns, client, timer, everListened, hubOff, inflight, missed, watch>>
hubVars == <<conns, client, timer, everListened, hubOff>>

WatchInit ==
    /\ status = 1
    /\ conns = <<"connecting">>
    /\ client = 0
    /\ timer = FALSE
    /\ everListened = FALSE
    /\ hubOff = FALSE
    /\ inflight = 0
    /\ missed = "no"
    /\ watch = [pc |-> "load", subscribed |-> FALSE, pending |-> FALSE, last |-> 0,
                aborted |-> FALSE, window |-> FALSE, windows |-> 0]

Listening == client # 0 /\ conns[client] = "up"

-----------------------------------------------------------------------------
(* The hub.                                                                *)

\* A wake is latched, and ends a sleep.
Woken(w) ==
    IF ~w.subscribed THEN w
    ELSE [w EXCEPT !.pending = TRUE,
                   !.pc = CASE @ = "sleep" -> "awake" [] @ = "debounceSleep" -> "rested" [] OTHER -> @]

\* scheduleReconnect
Scheduled == ~hubOff

Connected(c) ==
    /\ conns[c] = "connecting"
    /\ \/ hubOff /\ conns' = [conns EXCEPT ![c] = "gone"] /\ UNCHANGED client
       \/ ~hubOff /\ conns' = [conns EXCEPT ![c] = "listening"] /\ client' = c
    /\ UNCHANGED <<status, timer, everListened, hubOff, inflight, missed, watch>>

ConnectFails(c) ==
    /\ conns[c] = "connecting"
    /\ conns' = [conns EXCEPT ![c] = "gone"]
    /\ timer' = (timer \/ Scheduled)
    /\ UNCHANGED <<status, client, everListened, hubOff, inflight, missed, watch>>

\* Seeded fault: no pulse after a reconnect.
PulseNever == FALSE

\* Whether a LISTEN that succeeds wakes every listener.
Pulse == everListened

ListenSucceeds(c) ==
    /\ conns[c] = "listening"
    /\ conns' = [conns EXCEPT ![c] = "up"]
    /\ everListened' = TRUE
    /\ IF Pulse /\ ~hubOff
       THEN watch' = Woken(watch) /\ missed' = (IF missed = "gap" THEN "no" ELSE missed)
       ELSE UNCHANGED <<watch, missed>>
    /\ UNCHANGED <<status, client, timer, hubOff, inflight>>

\* A LISTEN that fails releases the slot, or the retry would find it taken.
ReleaseSlot(c) == IF client = c THEN 0 ELSE client

ListenFails(c) ==
    /\ conns[c] = "listening"
    /\ conns' = [conns EXCEPT ![c] = "gone"]
    /\ client' = ReleaseSlot(c)
    /\ timer' = (timer \/ Scheduled)
    /\ UNCHANGED <<status, everListened, hubOff, inflight, missed, watch>>

\* onLost: what was on its way is lost.
ConnectionLost(c) ==
    /\ conns[c] = "up"
    /\ conns' = [conns EXCEPT ![c] = "gone"]
    /\ client' = 0
    /\ timer' = (timer \/ Scheduled)
    /\ missed' = IF inflight > 0 THEN "gap" ELSE missed
    /\ inflight' = 0
    /\ UNCHANGED <<status, everListened, hubOff, watch>>

Reconnect ==
    /\ timer
    /\ timer' = FALSE
    /\ IF hubOff \/ client # 0 THEN UNCHANGED conns
       ELSE Len(conns) < MaxConns /\ conns' = Append(conns, "connecting")
    /\ UNCHANGED <<status, client, everListened, hubOff, inflight, missed, watch>>

HandleNotification ==
    /\ inflight > 0
    /\ inflight' = inflight - 1
    /\ watch' = IF hubOff THEN watch ELSE Woken(watch)
    /\ UNCHANGED <<status, hubVars, missed>>

DisposeHub ==
    /\ ~hubOff
    /\ hubOff' = TRUE
    /\ timer' = FALSE
    /\ client' = 0
    /\ conns' = [c \in DOMAIN conns |-> IF c = client THEN "gone" ELSE conns[c]]
    /\ inflight' = 0
    /\ watch' = [watch EXCEPT !.subscribed = FALSE]
    /\ UNCHANGED <<status, everListened, missed>>

-----------------------------------------------------------------------------
\* The run moves on, or is deleted, with a notification (pg_notify).
StatusChanges ==
    /\ status \in 1..MaxStatus
    /\ status' \in (IF status < MaxStatus THEN {status + 1} ELSE {0})
    /\ \/ Listening /\ inflight' = inflight + 1 /\ UNCHANGED missed
       \/ ~Listening /\ missed' = (IF everListened THEN "gap" ELSE "first") /\ UNCHANGED inflight
    /\ UNCHANGED <<hubVars, watch>>

-----------------------------------------------------------------------------
(* The watcher.                                                            *)

Goes(pc) == watch' = [watch EXCEPT !.pc = pc]

LoadRun ==
    /\ watch.pc = "load"
    /\ Goes(IF status = 0 THEN "done" ELSE "subscribe")
    /\ UNCHANGED <<status, hubVars, inflight, missed>>

\* The subscription is in place before the baseline read.
Subscribe ==
    /\ watch.pc = "subscribe"
    /\ watch' = [watch EXCEPT !.pc = "read", !.subscribed = ~hubOff]
    /\ UNCHANGED <<status, hubVars, inflight, missed>>

Finished(w) == [w EXCEPT !.pc = "done", !.subscribed = FALSE]

\* One turn of the loop: read, yield what is new, and end on a terminal status.
ReadAndYield ==
    /\ watch.pc = "read"
    /\ watch' = IF watch.aborted \/ status = 0 THEN Finished(watch)
                ELSE LET told == [watch EXCEPT !.last = status]
                     IN  IF status # watch.last /\ status = MaxStatus THEN Finished(told)
                         ELSE [told EXCEPT !.pc = "wait"]
    /\ UNCHANGED <<status, hubVars, inflight, missed>>

\* waitForChange: asleep unless a wake is pending.
BeginWait ==
    /\ watch.pc = "wait"
    /\ watch' = IF watch.aborted THEN Finished(watch)
                ELSE [watch EXCEPT !.pc = IF watch.pending THEN "awake" ELSE "sleep"]
    /\ UNCHANGED <<status, hubVars, inflight, missed>>

\* The poll interval or the abort signal ends the sleep.
SleepEnds ==
    /\ watch.pc \in {"sleep", "debounceSleep"}
    /\ Goes(IF watch.pc = "sleep" THEN "awake" ELSE "rested")
    /\ UNCHANGED <<status, hubVars, inflight, missed>>

Consumed(w) == [w EXCEPT !.pending = FALSE, !.pc = "read", !.window = TRUE]

\* Woken by a wake outside the debounce window: consumed.  Inside it, the wake
\* is consumed by a peek at the run.
AfterSleep ==
    /\ watch.pc = "awake"
    /\ \/ /\ watch.aborted \/ ~watch.pending
          /\ Goes("read")
       \/ /\ ~watch.aborted /\ watch.pending
          /\ \/ watch' = Consumed(watch)
             \/ /\ watch.window
                /\ watch.windows < MaxDebounces
                /\ watch' = [watch EXCEPT !.pending = FALSE, !.pc = "peek", !.windows = @ + 1]
    /\ UNCHANGED <<status, hubVars, inflight, missed>>

Peek ==
    /\ watch.pc = "peek"
    /\ watch' = IF status # watch.last THEN Consumed(watch)
                ELSE [watch EXCEPT !.pc = IF watch.pending THEN "rested" ELSE "debounceSleep"]
    /\ UNCHANGED <<status, hubVars, inflight, missed>>

\* The window closes, or another wake is peeked at.
AfterDebounce ==
    /\ watch.pc = "rested"
    /\ IF watch.pending /\ ~watch.aborted
       THEN Goes("awake")
       ELSE watch' = Consumed(watch)
    /\ UNCHANGED <<status, hubVars, inflight, missed>>

Abort ==
    /\ ~watch.aborted /\ watch.pc # "done"
    /\ watch' = [watch EXCEPT !.aborted = TRUE,
                    !.pc = CASE @ = "sleep" -> "awake" [] @ = "debounceSleep" -> "rested" [] OTHER -> @]
    /\ UNCHANGED <<status, hubVars, inflight, missed>>

WatchNext ==
    \/ \E c \in DOMAIN conns : \/ Connected(c) \/ ConnectFails(c) \/ ListenSucceeds(c)
                               \/ ListenFails(c) \/ ConnectionLost(c)
    \/ Reconnect \/ HandleNotification \/ DisposeHub \/ StatusChanges
    \/ LoadRun \/ Subscribe \/ ReadAndYield \/ BeginWait \/ SleepEnds
    \/ AfterSleep \/ Peek \/ AfterDebounce \/ Abort

WatchSpec == WatchInit /\ [][WatchNext]_watchVars

-----------------------------------------------------------------------------
\* A watcher does not sleep over a status it has not told, in the debounce
\* window neither, unless a wake is on its way: a notification in flight, or
\* the pulse of a hub that lost some and has yet to listen again.  Left to the
\* poll are a hub that is disposed and a change before the hub first listened.
AsleepIsUpToDate ==
    watch.pc \in {"sleep", "debounceSleep"} /\ status # watch.last =>
        \/ inflight > 0
        \/ missed = "gap" /\ ~Listening
        \/ missed = "first"
        \/ hubOff

\* The hub never falls back to polling for good: it listens, connects, or has a
\* reconnect scheduled, one connection at a time.
HubRecovers ==
    /\ ~hubOff => timer \/ \E c \in DOMAIN conns : conns[c] # "gone"
    /\ Cardinality({c \in DOMAIN conns : conns[c] # "gone"}) <= 1

\* A run that is watched is told to its watcher through every loss of the
\* LISTEN connection.
WatchSound == AsleepIsUpToDate /\ HubRecovers
=============================================================================
