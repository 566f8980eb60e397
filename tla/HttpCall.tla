------------------------------ MODULE HttpCall ------------------------------
(***************************************************************************)
(* One HTTP request through the handlers of the transports package: native *)
(* (neemata/http/server.ts), JSON-RPC with its batches (json-rpc/server.ts)*)
(* and MCP (mcp/server.ts); its connection and the scopes of its calls     *)
(* (gateway/src/gateway.ts); and each call through middlewares, decoding,  *)
(* guards and the procedure, under a timeout (application/src/api/api.ts). *)
(***************************************************************************)
EXTENDS Integers, Sequences, FiniteSets

CONSTANTS
    MaxEntries,    \* bound: entries of a JSON-RPC batch
    Concurrency,   \* BATCH_CONCURRENCY
    Middlewares    \* number of middlewares in front of the procedures

ASSUME CallAssumption == MaxEntries \in Nat /\ Concurrency \in Nat /\ Middlewares \in Nat

VARIABLES
    kind,      \* http, jsonrpc, mcp
    entries,   \* the calls the request holds: call, notify, invalid
    phase,     \* begin, body, calling, disposing, done
    status,    \* of the response, 0 while there is none
    conn,      \* the connection: none, open, closed
    cursor,    \* entries taken up
    calls,     \* entry to its call
    results    \* entry to its answer: none, silent, error, value

callVars == <<kind, entries, phase, status, conn, cursor, calls, results>>

\* A call: where its pipeline is, and whether the request has its answer.  A
\* call that timed out is answered while its pipeline goes on.
Idle == [at |-> "idle", answered |-> FALSE, scope |-> "none", tracked |-> FALSE, aborted |-> FALSE,
         timedOut |-> FALSE, next |-> 1, passed |-> 0, guarded |-> FALSE, retried |-> FALSE,
         stream |-> FALSE]

CallInit ==
    /\ kind \in {"http", "jsonrpc", "mcp"}
    /\ entries \in UNION {[1..n -> {"call", "notify", "invalid"}] : n \in 1..MaxEntries}
    /\ kind # "jsonrpc" => entries = <<"call">>
    /\ phase = "begin"
    /\ status = 0
    /\ conn = "none"
    /\ cursor = 0
    /\ calls = [e \in DOMAIN entries |-> Idle]
    /\ results = [e \in DOMAIN entries |-> "none"]

requestVars == <<kind, entries, phase, status, conn, cursor>>
SetCall(e, c) == calls' = [calls EXCEPT ![e] = c]

-----------------------------------------------------------------------------
(* The request.                                                            *)

\* Preflights, methods and media types, codec negotiation, the bearer gate: all
\* answered before there is a connection.
Refused ==
    /\ phase = "begin"
    /\ status' \in {200, 401, 405, 406, 415} \ (IF kind = "http" THEN {401, 405} ELSE {200, 406})
    /\ phase' = "done"
    /\ UNCHANGED <<kind, entries, conn, cursor, calls, results>>

\* onConnect, which may refuse.
Connects ==
    /\ phase = "begin"
    /\ \/ conn' = "open" /\ phase' = "body" /\ UNCHANGED status
       \/ conn' = "none" /\ phase' = "done" /\ status' = 500
    /\ UNCHANGED <<kind, entries, cursor, calls, results>>

\* The body is read and parsed, or too large, or not JSON, or too long a batch.
ReadsBody ==
    /\ phase = "body"
    /\ \/ phase' = "calling" /\ UNCHANGED status
       \/ phase' = "disposing" /\ status' \in {200, 413, 500}
    /\ UNCHANGED <<kind, entries, conn, cursor, calls, results>>

Busy == {e \in DOMAIN entries : calls[e].at # "idle" /\ ~calls[e].answered}

Room == Cardinality(Busy) < Concurrency

\* runWithConcurrency, runEntry: the next entry is validated and resolved.
TakesEntry ==
    LET e == cursor + 1 IN
    /\ phase = "calling" /\ cursor < Len(entries) /\ Room
    /\ cursor' = e
    /\ \/ /\ entries[e] # "invalid"
          /\ SetCall(e, [Idle EXCEPT !.at = "resolved"])
          /\ UNCHANGED results
       \/ /\ results' = [results EXCEPT ![e] = IF entries[e] = "notify" THEN "silent" ELSE "error"]
          /\ SetCall(e, [Idle EXCEPT !.at = "over", !.answered = TRUE])
    /\ UNCHANGED <<kind, entries, phase, status, conn>>

\* The responses of a batch: those that are not notifications, in the order of
\* the entries.  Nothing to say is a 204.
Answered == {e \in DOMAIN entries : results[e] \notin {"none", "silent"}}

Responds ==
    /\ phase = "calling" /\ cursor = Len(entries) /\ Busy = {}
    /\ status' = IF Answered = {} THEN 204 ELSE 200
    /\ phase' = "disposing"
    /\ UNCHANGED <<kind, entries, conn, cursor, calls, results>>

\* `await using` and finally: the connection is disposed as the handler
\* returns.  teardownConnection aborts the calls that are tracked.
Disposes ==
    /\ phase = "disposing"
    /\ conn' = "closed"
    /\ phase' = "done"
    /\ calls' = [e \in DOMAIN entries |->
                   IF calls[e].tracked THEN [calls[e] EXCEPT !.tracked = FALSE, !.aborted = TRUE]
                   ELSE calls[e]]
    /\ UNCHANGED <<kind, entries, status, cursor, results>>

-----------------------------------------------------------------------------
(* One call: onRpc and ApplicationApi.call.                                *)

\* trackCall, fork(Scope.Call)
CallBegins(e) ==
    /\ calls[e].at = "resolved"
    /\ SetCall(e, [calls[e] EXCEPT !.at = "pipeline", !.scope = "open", !.tracked = TRUE])
    /\ UNCHANGED <<requestVars, results>>

\* handleProcedure: the next middleware of the shared iterator, which goes on,
\* answers itself or throws; past the last one, the input is decoded.
Middleware(e) ==
    LET c == calls[e] IN
    /\ c.at = "pipeline"
    /\ \/ /\ c.next <= Middlewares
          /\ \/ SetCall(e, [c EXCEPT !.next = @ + 1, !.passed = @ + 1])
             \/ \E at \in {"value", "error"} : SetCall(e, [c EXCEPT !.at = at])
       \/ /\ c.next > Middlewares
          /\ \E at \in {"decoded", "error"} : SetCall(e, [c EXCEPT !.at = at])
    /\ UNCHANGED <<requestVars, results>>

\* handleGuards
Guards(e) ==
    /\ calls[e].at = "decoded"
    /\ \/ SetCall(e, [calls[e] EXCEPT !.at = "ready", !.guarded = TRUE])
       \/ SetCall(e, [calls[e] EXCEPT !.at = "error"])
    /\ UNCHANGED <<requestVars, results>>

HandlerBegins(e) ==
    /\ calls[e].at = "ready"
    /\ SetCall(e, [calls[e] EXCEPT !.at = "handler"])
    /\ UNCHANGED <<requestVars, results>>

\* The procedure returns a value, an iterable where the projection takes
\* streams, or throws; its output is encoded.
HandlerEnds(e) ==
    LET c == calls[e] IN
    /\ c.at = "handler"
    /\ \/ \E at \in {"value", "error"} : SetCall(e, [c EXCEPT !.at = at])
       \/ kind = "http" /\ SetCall(e, [c EXCEPT !.at = "value", !.stream = TRUE])
    /\ UNCHANGED <<requestVars, results>>

\* A middleware that calls next() again after a failure: the shared iterator is
\* where the first descent left it.
NextAgain(e) ==
    LET c == calls[e] IN
    /\ c.at = "error" /\ c.passed > 0 /\ ~c.retried /\ (c.answered => c.timedOut)
    /\ SetCall(e, [c EXCEPT !.at = "pipeline", !.passed = 1, !.guarded = FALSE, !.retried = TRUE])
    /\ UNCHANGED <<requestVars, results>>

\* withTimeout: the paired signal is fired.
TimedOut(c) == [c EXCEPT !.timedOut = TRUE, !.aborted = TRUE]

TimesOut(e) ==
    /\ calls[e].at \in {"pipeline", "decoded", "ready", "handler"} /\ ~calls[e].timedOut
    /\ SetCall(e, TimedOut(calls[e]))
    /\ UNCHANGED <<requestVars, results>>

\* The call has lost: its pipeline threw, or the timeout came first.
Lost(c) == ~c.answered /\ (c.at = "error" \/ c.timedOut)

\* dispose: untrackCall, container.dispose().
Disposed(c) == [c EXCEPT !.answered = TRUE, !.scope = "disposed", !.tracked = FALSE]

\* Seeded fault: a call that fails keeps its scope.
CallFailsQuietly(e) ==
    /\ Lost(calls[e])
    /\ SetCall(e, [calls[e] EXCEPT !.answered = TRUE])
    /\ results' = [results EXCEPT ![e] = IF entries[e] = "notify" THEN "silent" ELSE "error"]
    /\ UNCHANGED requestVars

\* handleFilters and the catch of onRpc.
CallFails(e) ==
    /\ Lost(calls[e])
    /\ SetCall(e, Disposed(calls[e]))
    /\ results' = [results EXCEPT ![e] = IF entries[e] = "notify" THEN "silent" ELSE "error"]
    /\ UNCHANGED requestVars

\* A value disposes the scope; an iterable keeps it until it is done.
CallReturns(e) ==
    LET c == calls[e] IN
    /\ c.at = "value" /\ ~c.answered /\ ~c.timedOut
    /\ SetCall(e, IF c.stream THEN [c EXCEPT !.at = "streaming", !.answered = TRUE]
              ELSE [Disposed(c) EXCEPT !.at = "over"])
    /\ results' = [results EXCEPT ![e] = IF entries[e] = "notify" THEN "silent" ELSE "value"]
    /\ UNCHANGED requestVars

\* The iterable completes, fails or is cancelled: onDone.
StreamEnds(e) ==
    /\ calls[e].at = "streaming"
    /\ SetCall(e, [Disposed(calls[e]) EXCEPT !.at = "over"])
    /\ UNCHANGED <<requestVars, results>>

CallNext ==
    \/ Refused \/ Connects \/ ReadsBody \/ TakesEntry \/ Responds \/ Disposes
    \/ \E e \in DOMAIN entries :
         \/ CallBegins(e) \/ Middleware(e) \/ Guards(e) \/ HandlerBegins(e) \/ HandlerEnds(e)
         \/ NextAgain(e) \/ TimesOut(e) \/ CallFails(e) \/ CallReturns(e) \/ StreamEnds(e)

CallSpec == CallInit /\ [][CallNext]_callVars

-----------------------------------------------------------------------------
\* A request that is over leaves nothing open: its connection is closed and
\* every call's scope disposed, but for a stream that is still sent.
RequestLeavesNothing ==
    phase = "done" =>
        /\ conn # "open"
        /\ \A e \in DOMAIN entries :
             /\ ~calls[e].tracked
             /\ calls[e].scope = "open" => calls[e].at = "streaming"

\* Each entry of a batch is answered once, notifications never, and no more
\* than the allowed number of them run at a time.
BatchIsAnswered ==
    /\ Cardinality(Busy) <= Concurrency
    /\ status \in {200, 204} /\ cursor > 0 =>
         \A e \in DOMAIN entries : /\ results[e] # "none"
                                   /\ results[e] = "silent" <=> entries[e] = "notify"

\* The procedure runs only behind every middleware and guard, unless a
\* middleware calls next() a second time.
NothingBypassed ==
    \A e \in DOMAIN entries :
        calls[e].at = "handler" /\ ~calls[e].retried =>
            calls[e].passed = Middlewares /\ calls[e].guarded

\* "a timed out handler is actually aborted, not just raced away": a procedure
\* still running after its call was answered has had its signal fired.
NoSilentOverrun ==
    \A e \in DOMAIN entries :
        calls[e].at = "handler" /\ calls[e].answered => calls[e].aborted

\* "the call scope must stay alive until the returned iterable completes,
\* fails, or is cancelled": a stream being sent has not been aborted by its own
\* request.  It does not hold: `await using` of the connection disposes it when
\* the handler returns the response, before its stream is sent (http/server.ts).
StreamStaysAlive ==
    \A e \in DOMAIN entries :
        calls[e].at = "streaming" => conn = "open" /\ ~calls[e].aborted

\* A request is answered entry by entry behind its guards, and leaves neither a
\* scope nor a procedure nobody told.
CallSound == RequestLeavesNothing /\ BatchIsAnswered /\ NothingBypassed /\ NoSilentOverrun
=============================================================================
