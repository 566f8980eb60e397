---------------------------- MODULE HttpResponse ----------------------------
(***************************************************************************)
(* One HTTP request on the uWebSockets host (transports/src/http-server/   *)
(* node.ts): routing, the request body under its cap, the handler, and the *)
(* two pumps that send a response body, with the client going away at any  *)
(* moment.                                                                 *)
(*                                                                         *)
(* uWebSockets is external: once a response is aborted every call on it    *)
(* throws and no callback comes; write() takes a whole chunk and says      *)
(* whether it must drain, tryEnd() may take a part of one.  A callback     *)
(* runs to the end of what it resolves before the next one.                *)
(***************************************************************************)
EXTENDS Integers

CONSTANTS
    MaxBody,   \* maxRequestBodySize
    MaxUpload, \* bound: size of a request body
    MaxTotal   \* bound: size of a response body

ASSUME CapAssumption == MaxBody \in Nat

VARIABLES
    route,     \* reserved, fetch, none, upgrade
    stage,     \* handleRequest: routing, handling, responding, pump, drain, failed, done
    torn,      \* onAborted: the client went away
    upload,    \* the request body: peer's bytes left, received, kept, state
    reply,     \* the response: status, path (empty, fixed, chunked), declared and real length
    source,    \* the response body: bytes left, whether it fails, closed by a cancel
    piece,     \* the chunk read and not yet written: its first byte and its size
    written,   \* bytes handed to the socket
    skewed,    \* a byte went out in the wrong place
    outcome,   \* open, ended, closed
    writable,  \* the chunk whose onWritable handler uWebSockets calls, or -1
    firstOnly  \* uWebSockets keeps the first onWritable handler, not the latest

httpVars == <<route, stage, torn, upload, reply, source, piece, written, skewed, outcome, writable,
              firstOnly>>
sendVars == <<piece, written, skewed, writable>>

NoPiece == [from |-> 0, size |-> 0]

HttpInit ==
    /\ route \in {"reserved", "fetch", "none", "upgrade"}
    /\ stage = "routing"
    /\ torn = FALSE
    /\ upload \in [left : 0..MaxUpload, received : {0}, kept : {0}, state : {"open"}]
    /\ reply = [status |-> 0, path |-> "empty", declared |-> 0, size |-> 0]
    /\ source = [left |-> 0, fails |-> FALSE, cancelled |-> FALSE]
    /\ piece = NoPiece
    /\ written = 0
    /\ skewed = FALSE
    /\ outcome = "open"
    /\ writable = -1
    /\ firstOnly \in BOOLEAN

Answer(status) == reply' = [status |-> status, path |-> "empty", declared |-> 0, size |-> 0]

\* respondToUpgrade, route and the 404 of both.
Routing ==
    /\ stage = "routing"
    /\ IF route = "fetch" THEN stage' = "handling" /\ UNCHANGED reply
       ELSE stage' = "responding" /\ Answer(IF route = "reserved" THEN 200 ELSE 404)
    /\ UNCHANGED <<route, torn, upload, source, sendVars, outcome, firstOnly>>

-----------------------------------------------------------------------------
(* The request body.                                                       *)

Over(received, n) == received + n > MaxBody

\* onDataV2
DataArrives ==
    /\ stage # "routing" /\ route = "fetch"
    /\ ~torn /\ outcome = "open" /\ upload.state = "open"
    /\ \E n \in 0..upload.left :
         /\ n > 0 \/ upload.left = 0
         /\ upload' = IF Over(upload.received, n)
                      THEN [upload EXCEPT !.left = @ - n, !.received = @ + n, !.state = "capped"]
                      ELSE [upload EXCEPT !.left = @ - n, !.received = @ + n, !.kept = @ + n,
                                          !.state = IF n = upload.left THEN "closed" ELSE "open"]
    /\ UNCHANGED <<route, stage, torn, reply, source, sendVars, outcome, firstOnly>>

\* The handler answers, whatever it read of the body.  A body with a
\* Content-Length may turn out shorter or longer than that.
HandlerReturns ==
    /\ stage = "handling"
    /\ stage' = "responding"
    /\ \/ Answer(200) /\ UNCHANGED source
       \/ \E path \in {"fixed", "chunked"}, declared, left \in 0..MaxTotal, fails \in BOOLEAN :
            /\ path = "chunked" => declared = 0
            /\ reply' = [status |-> 200, path |-> path, declared |-> declared, size |-> left]
            /\ source' = [left |-> left, fails |-> fails, cancelled |-> FALSE]
    /\ UNCHANGED <<route, torn, upload, sendVars, outcome, firstOnly>>

\* What reading a body over the cap throws becomes a 413, anything else a 500,
\* also when the body went over the cap.
HandlerThrows ==
    /\ stage = "handling"
    /\ stage' = "responding"
    /\ Answer(500) \/ (upload.state = "capped" /\ Answer(413))
    /\ UNCHANGED <<route, torn, upload, source, sendVars, outcome, firstOnly>>

-----------------------------------------------------------------------------
(* The response.                                                           *)

\* Status and headers in one cork; then the end, or the pump of the body.
HandlerResponds ==
    /\ stage = "responding"
    /\ IF torn THEN stage' = "done" /\ UNCHANGED outcome
       ELSE IF reply.path = "empty" \/ (reply.path = "fixed" /\ reply.declared = 0)
            THEN stage' = "done" /\ outcome' = "ended"
            ELSE stage' = "pump" /\ UNCHANGED outcome
    /\ UNCHANGED <<route, torn, upload, reply, source, sendVars, firstOnly>>

\* What write and tryEnd put on the socket: n bytes of the piece from `at`.
Sends(at, n) == written' = written + n /\ skewed' = (skewed \/ at # written)

\* Seeded fault: what tryEnd could not take is written again from the start.
RestOfFromStart(p, offset) == p

\* chunk.subarray(relativeOffset)
RestOf(p, offset) ==
    IF offset > p.from THEN [from |-> offset, size |-> p.size - (offset - p.from)] ELSE p

\* tryEnd: a part of the rest, or all of it; the response is over with the
\* last byte of the declared length.  Of a chunk that reaches past it the
\* library may say either.
TryEnd(base, rest) ==
    \E n \in 0..rest.size :
        /\ Sends(rest.from, n)
        /\ IF n < rest.size
           THEN /\ stage' = "drain"
                /\ writable' = IF firstOnly /\ writable # -1 THEN writable ELSE base
                /\ UNCHANGED outcome
           ELSE /\ UNCHANGED writable
                /\ \/ written + n >= reply.declared /\ stage' = "done" /\ outcome' = "ended"
                   \/ written + n # reply.declared /\ stage' = "pump" /\ UNCHANGED outcome

\* handleFixedLengthStream and handleFixedChunk: a chunk is read.  On an
\* aborted response getWriteOffset throws.
FixedRead ==
    /\ stage = "pump" /\ reply.path = "fixed"
    /\ source.left > 0
    /\ \E n \in 1..source.left :
         /\ source' = [source EXCEPT !.left = @ - n]
         /\ IF torn
            THEN stage' = "failed" /\ UNCHANGED <<sendVars, outcome>>
            ELSE piece' = [from |-> written, size |-> n] /\ TryEnd(written, piece')
    /\ UNCHANGED <<route, torn, upload, reply, firstOnly>>

\* onWritable: the handler of the waiting chunk, or one of an earlier chunk,
\* which has nothing left to write.
FixedDrains ==
    /\ stage = "drain" /\ reply.path = "fixed" /\ ~torn
    /\ IF writable = piece.from
       THEN TryEnd(piece.from, RestOf(piece, written)) /\ UNCHANGED piece
       ELSE UNCHANGED <<stage, outcome, sendVars>>
    /\ UNCHANGED <<route, torn, upload, reply, source, firstOnly>>

\* The source ends before the declared length: the connection is closed.
FixedEnds ==
    /\ stage = "pump" /\ reply.path = "fixed"
    /\ source.left = 0 /\ ~source.fails
    /\ stage' = "done"
    /\ outcome' = IF torn THEN outcome ELSE "closed"
    /\ UNCHANGED <<route, torn, upload, reply, source, sendVars, firstOnly>>

\* handleChunkedStream
ChunkedRead ==
    /\ stage = "pump" /\ reply.path = "chunked" /\ ~source.cancelled
    /\ source.left > 0
    /\ \E n \in 1..source.left :
         /\ source' = [source EXCEPT !.left = @ - n]
         /\ piece' = [from |-> written, size |-> n]
         /\ Sends(written, n)
         /\ stage' \in {"pump", "drain"}
         /\ writable' = IF stage' = "drain" /\ writable = -1 THEN written ELSE writable
    /\ UNCHANGED <<route, torn, upload, reply, outcome, firstOnly>>

\* The one onWritable handler wakes the pending waiter.
ChunkedDrains ==
    /\ stage = "drain" /\ reply.path = "chunked" /\ ~torn
    /\ stage' = "pump"
    /\ UNCHANGED <<route, torn, upload, reply, source, sendVars, outcome, firstOnly>>

\* Done, by the source or by the cancel of an abort.
ChunkedEnds ==
    /\ stage = "pump" /\ reply.path = "chunked"
    /\ source.cancelled \/ (source.left = 0 /\ ~source.fails)
    /\ stage' = "done"
    /\ outcome' = IF torn THEN outcome ELSE "ended"
    /\ UNCHANGED <<route, torn, upload, reply, source, sendVars, firstOnly>>

BodyFails ==
    /\ stage = "pump"
    /\ source.left = 0 /\ source.fails /\ ~source.cancelled
    /\ stage' = "failed"
    /\ UNCHANGED <<route, torn, upload, reply, source, sendVars, outcome, firstOnly>>

FailedOutcome == IF torn THEN outcome ELSE "closed"

\* The catch of handleRequest.
PumpFailed ==
    /\ stage = "failed"
    /\ stage' = "done"
    /\ outcome' = FailedOutcome
    /\ UNCHANGED <<route, torn, upload, reply, source, sendVars, firstOnly>>

\* wakeWritable and cancelBody: the chunked pump is woken, and its source
\* cancelled.  The fixed pump sets neither.
OnAborted ==
    IF reply.path = "chunked" /\ stage \in {"pump", "drain"}
    THEN /\ stage' = IF stage = "drain" THEN "failed" ELSE stage
         /\ source' = [source EXCEPT !.cancelled = TRUE]
    ELSE UNCHANGED <<stage, source>>

\* The client goes away.
Aborts ==
    /\ ~torn /\ outcome = "open"
    /\ torn' = TRUE
    /\ OnAborted
    /\ upload' = IF upload.state = "open" /\ stage # "routing" THEN [upload EXCEPT !.state = "errored"]
                 ELSE upload
    /\ UNCHANGED <<route, reply, sendVars, outcome, firstOnly>>

HttpNext ==
    \/ Routing \/ DataArrives \/ HandlerReturns \/ HandlerThrows \/ HandlerResponds
    \/ FixedRead \/ FixedDrains \/ FixedEnds
    \/ ChunkedRead \/ ChunkedDrains \/ ChunkedEnds
    \/ BodyFails \/ PumpFailed \/ Aborts

HttpSpec == HttpInit /\ [][HttpNext]_httpVars

-----------------------------------------------------------------------------
\* The body is longer than its Content-Length.
Overrun == reply.path = "fixed" /\ reply.size > reply.declared

\* A response that ended carries its body byte for byte, however the socket cut
\* it: all of it, or of a body that overruns its Content-Length at least that
\* much.  A body that failed or fell short closes the connection instead, so
\* that the client can tell (handleFixedChunk, handleChunkedStream, the catch
\* of handleRequest).
EndedIsWhole ==
    /\ ~skewed
    /\ outcome = "ended" => /\ written = reply.size \/ Overrun
                            /\ reply.path = "fixed" => written >= reply.declared
                            /\ reply.path = "chunked" => ~source.fails
    /\ outcome = "closed" => reply.path # "empty"

\* The same of every body.  It does not hold: the pump of a declared length ends
\* the response with its last byte and leaves the rest of a longer body unread,
\* and nobody is told (node.ts).
OverrunShows == outcome = "ended" => written = reply.size

\* Nothing the handler is given exceeds the cap, and only a request whose body
\* went over it is answered by a 413.
CapHolds ==
    /\ upload.kept <= MaxBody
    /\ reply.status = 413 => upload.received > MaxBody

\* "abort must also cancel a pending read(): a stalled source would otherwise
\* keep the pump and the reader lock alive forever": once the client is gone the
\* chunked pump waits for nothing any more.
AbortFreesChunkedPump ==
    torn /\ reply.path = "chunked" =>
        /\ stage # "drain"
        /\ stage = "pump" => source.cancelled

\* The same of every pump, the one for a declared length too.  It does not hold:
\* that pump's reader is not cancelled when the client leaves (node.ts).
AbortFreesPump ==
    torn => /\ stage # "drain"
               /\ stage = "pump" => source.cancelled

\* A response is whole or visibly broken, an upload is capped, and a client that
\* left frees the chunked pump.
ResponseSound == EndedIsWhole /\ CapHolds /\ AbortFreesChunkedPump
=============================================================================
