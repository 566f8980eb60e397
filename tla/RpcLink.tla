------------------------------ MODULE RpcLink ------------------------------
(***************************************************************************)
(* Calls over one WebSocket connection: the client's RPC layer, the two    *)
(* frame queues of the socket, and the server's session engine.            *)
(*                                                                         *)
(* A handler answers with a value, an error or a stream.  A stream is      *)
(* sent on credit: the consumer's first read grants a window of chunks,    *)
(* every Refill-th later read grants Refill more.  The server may find a   *)
(* frame dropped by its socket; what that does depends on the frame.  Call *)
(* identifiers are not reused: the counter wraps after 2^32 calls.         *)
(***************************************************************************)
EXTENDS Naturals, Sequences, FiniteSetsExt

CONSTANTS
    Calls,
    Window,      \* backpressure.rpc.window
    MaxChunks    \* bound: chunks of one stream

ASSUME RpcAssumption == Window \in Nat \ {0} /\ MaxChunks \in Nat

VARIABLES
    call,     \* call to its state at the client
    reader,   \* call to the state of its stream at the client
    up, down, \* frames on their way to the server, to the client
    srv,      \* call to the state of its handler at the server
    signal,   \* calls whose signal is aborted at the server
    credits,  \* call to the chunks its stream may still send
    made,     \* call to the chunks its handler has produced
    clientUp, serverUp,
    beat,     \* whether a ping of the server awaits its pong
    unheard   \* history: calls whose only response was dropped

rpcVars == <<call, reader, up, down, srv, signal, credits, made, clientUp, serverUp, beat, unheard>>

Frame(t, c) == [type |-> t, call |-> c, size |-> 0]
Pull(c, n) == [type |-> "RpcStreamPull", call |-> c, size |-> n]
NoCall == 0

FramesOf(q, c) == {i \in DOMAIN q : q[i].call = c}

(***************************************************************************)
(* rpcStreamRefill: half the window, rounded up.                           *)
(***************************************************************************)
Refill == (Window + 1) \div 2

NewReader == [initial |-> TRUE, untilRefill |-> Refill, reading |-> FALSE, buffered |-> 0]

RpcInit ==
    /\ call = [c \in Calls |-> "idle"] /\ reader = [c \in Calls |-> NewReader]
    /\ up = <<>> /\ down = <<>>
    /\ srv = [c \in Calls |-> "idle"] /\ signal = {}
    /\ credits = [c \in Calls |-> 0] /\ made = [c \in Calls |-> 0]
    /\ clientUp = TRUE /\ serverUp = TRUE /\ beat = FALSE /\ unheard = {}

-----------------------------------------------------------------------------
(* The client.                                                             *)

ClientOnly == UNCHANGED <<srv, signal, credits, made, clientUp, serverUp, beat, unheard>>

(***************************************************************************)
(* callInternal, up to the sent request.                                   *)
(***************************************************************************)
Call(c) ==
    /\ clientUp /\ call[c] = "idle"
    /\ call' = [call EXCEPT ![c] = "pending"]
    /\ up' = Append(up, Frame("Rpc", c))
    /\ UNCHANGED <<reader, down>> /\ ClientOnly

(***************************************************************************)
(* The call's signal aborts (a timeout, the caller, the consumer's return).*)
(* The call's listener sends an abort, and so does that of an open stream. *)
(***************************************************************************)
AbortCall(c) ==
    /\ clientUp /\ call[c] \in {"pending", "streaming", "draining"}
    /\ call' = [call EXCEPT ![c] = "settled"]
    /\ up' = Append(IF call[c] = "streaming" THEN Append(up, Frame("RpcAbort", c)) ELSE up,
                    Frame("RpcAbort", c))
    /\ UNCHANGED <<reader, down>> /\ ClientOnly

(***************************************************************************)
(* The pull of a stream: grant the window at first, then a refill at every *)
(* Refill-th read.                                                         *)
(***************************************************************************)
\* Seeded fault: a refill is half the window, rounded down.
GrantShort(r) ==
    CASE r.initial         -> <<Window, [r EXCEPT !.initial = FALSE]>>
      [] ~r.initial /\ r.untilRefill > 1 -> <<0, [r EXCEPT !.untilRefill = @ - 1]>>
      [] OTHER             -> <<Window \div 2, [r EXCEPT !.untilRefill = Refill]>>

Grant(r) ==
    CASE r.initial         -> <<Window, [r EXCEPT !.initial = FALSE]>>
      [] ~r.initial /\ r.untilRefill > 1 -> <<0, [r EXCEPT !.untilRefill = @ - 1]>>
      [] OTHER             -> <<Refill, [r EXCEPT !.untilRefill = Refill]>>

(***************************************************************************)
(* The consumer reads: an open stream pulls, and takes the chunk whose     *)
(* write was waiting for it or waits for one.                              *)
(***************************************************************************)
Read(c) ==
    /\ clientUp /\ call[c] = "streaming" /\ ~reader[c].reading
    /\ LET g == Grant(reader[c])
       IN  /\ reader' = [reader EXCEPT ![c] =
                            IF g[2].buffered > 0 THEN [g[2] EXCEPT !.buffered = @ - 1]
                            ELSE [g[2] EXCEPT !.reading = TRUE]]
           /\ up' = IF g[1] = 0 THEN up ELSE Append(up, Pull(c, g[1]))
    /\ UNCHANGED <<call, down>> /\ ClientOnly

(***************************************************************************)
(* What is left of an ended stream is read without pulls.                  *)
(***************************************************************************)
ReadRest(c) ==
    /\ call[c] = "draining"
    /\ IF reader[c].buffered = 0 THEN call' = [call EXCEPT ![c] = "settled"] /\ UNCHANGED reader
       ELSE reader' = [reader EXCEPT ![c].buffered = @ - 1] /\ UNCHANGED call
    /\ UNCHANGED <<up, down>> /\ ClientOnly

(***************************************************************************)
(* The frames of the server.  A value or an error settles a pending call,  *)
(* whose controller then aborts; a stream response of a call that is gone  *)
(* is answered by an abort; a chunk that cannot be decoded ends its stream.*)
(***************************************************************************)
OnRpcResponse(c) ==
    /\ IF call[c] = "pending"
       THEN call' = [call EXCEPT ![c] = "settled"] /\ up' = Append(up, Frame("RpcAbort", c))
       ELSE UNCHANGED <<call, up>>
    /\ UNCHANGED reader

OnRpcStreamResponse(c) ==
    /\ IF call[c] = "pending"
       THEN call' = [call EXCEPT ![c] = "streaming"] /\ UNCHANGED up
       ELSE up' = Append(up, Frame("RpcAbort", c)) /\ UNCHANGED call
    /\ UNCHANGED reader

OnRpcStreamChunk(c) ==
    \/ /\ IF call[c] # "streaming" THEN UNCHANGED reader
          ELSE IF reader[c].reading THEN reader' = [reader EXCEPT ![c].reading = FALSE]
          ELSE reader' = [reader EXCEPT ![c].buffered = @ + 1]
       /\ UNCHANGED <<call, up>>
    \/ /\ call[c] = "streaming"
       /\ call' = [call EXCEPT ![c] = "settled"]
       /\ up' = Append(up, Frame("RpcAbort", c))
       /\ UNCHANGED reader

OnRpcStreamEnd(c) ==
    /\ call' = [call EXCEPT ![c] = IF @ = "streaming" THEN "draining" ELSE @]
    /\ reader' = [reader EXCEPT ![c].reading = FALSE]
    /\ UNCHANGED up

OnRpcStreamAbort(c) ==
    /\ call' = [call EXCEPT ![c] = IF @ \in {"pending", "streaming"} THEN "settled" ELSE @]
    /\ up' = IF call[c] = "pending" THEN Append(up, Frame("RpcAbort", c)) ELSE up
    /\ UNCHANGED reader

ClientReceives ==
    /\ clientUp /\ down # <<>>
    /\ down' = Tail(down)
    /\ LET f == Head(down)
       IN  \/ f.type = "RpcResponse" /\ OnRpcResponse(f.call)
           \/ f.type = "RpcStreamResponse" /\ OnRpcStreamResponse(f.call)
           \/ f.type = "RpcStreamChunk" /\ OnRpcStreamChunk(f.call)
           \/ f.type = "RpcStreamEnd" /\ OnRpcStreamEnd(f.call)
           \/ f.type = "RpcStreamAbort" /\ OnRpcStreamAbort(f.call)
           \/ f.type = "Ping" /\ up' = Append(up, Frame("Pong", NoCall)) /\ UNCHANGED <<call, reader>>
    /\ ClientOnly

(***************************************************************************)
(* The socket closes at the client: every call and stream is rejected.     *)
(***************************************************************************)
ClientDisconnected ==
    /\ clientUp
    /\ clientUp' = FALSE /\ up' = <<>> /\ down' = <<>>
    /\ call' = [c \in Calls |-> IF call[c] \in {"pending", "streaming"} THEN "settled" ELSE call[c]]
    /\ UNCHANGED <<reader, srv, signal, credits, made, serverUp, beat, unheard>>

-----------------------------------------------------------------------------
(* The server.                                                             *)

(***************************************************************************)
(* close: the session forgets its calls, whose streams end unheard.        *)
(***************************************************************************)
CloseSession ==
    /\ serverUp' = FALSE /\ beat' = FALSE
    /\ signal' = Calls
    /\ srv' = [c \in Calls |-> IF srv[c] = "idle" THEN "idle" ELSE "done"]
    /\ credits' = [c \in Calls |-> 0]

(***************************************************************************)
(* The frames of the client.  A pull of nothing, or beyond the greatest    *)
(* credit, would abort its stream: by LeadBounded this client sends none.  *)
(***************************************************************************)
OnRpc(c) ==
    /\ srv' = [srv EXCEPT ![c] = IF @ = "idle" THEN "running" ELSE @]
    /\ UNCHANGED <<signal, credits, beat>>

\* Seeded fault: only a call that streams is registered for aborts.
OnRpcAbortOfStream(c) ==
    /\ signal' = IF srv[c] = "stream" THEN signal \cup {c} ELSE signal
    /\ UNCHANGED <<srv, credits, beat>>

OnRpcAbort(c) ==
    /\ signal' = IF srv[c] \in {"running", "stream"} THEN signal \cup {c} ELSE signal
    /\ UNCHANGED <<srv, credits, beat>>

OnRpcStreamPull(c, n) ==
    /\ credits' = [credits EXCEPT ![c] = IF srv[c] = "stream" THEN @ + n ELSE @]
    /\ UNCHANGED <<srv, signal, beat>>

ServerReceives ==
    /\ serverUp /\ up # <<>>
    /\ up' = Tail(up)
    /\ LET f == Head(up)
       IN  \/ f.type = "Rpc" /\ OnRpc(f.call)
           \/ f.type = "RpcAbort" /\ OnRpcAbort(f.call)
           \/ f.type = "RpcStreamPull" /\ OnRpcStreamPull(f.call, f.size)
           \/ f.type = "Pong" /\ beat' = FALSE /\ UNCHANGED <<srv, signal, credits>>
    /\ UNCHANGED <<call, reader, down, made, clientUp, serverUp, unheard>>

(***************************************************************************)
(* handleRpc's response: a value or an error, which may be dropped ...     *)
(***************************************************************************)
Respond(c) ==
    /\ serverUp /\ srv[c] = "running"
    /\ srv' = [srv EXCEPT ![c] = "done"]
    /\ \/ down' = Append(down, Frame("RpcResponse", c)) /\ UNCHANGED unheard
       \/ unheard' = unheard \cup {c} /\ UNCHANGED down
    /\ UNCHANGED <<call, reader, up, signal, credits, made, clientUp, serverUp, beat>>

(***************************************************************************)
(* ... or a stream, unless the call was aborted meanwhile.  A dropped      *)
(* response terminates the connection.                                     *)
(***************************************************************************)
OpenStream(c) ==
    /\ serverUp /\ srv[c] = "running" /\ c \notin signal
    /\ \/ /\ down' = Append(down, Frame("RpcStreamResponse", c))
          /\ srv' = [srv EXCEPT ![c] = "stream"]
          /\ UNCHANGED <<signal, credits, serverUp, beat>>
       \/ CloseSession /\ UNCHANGED down
    /\ UNCHANGED <<call, reader, up, made, clientUp, unheard>>

(***************************************************************************)
(* The last frame of a stream.  Dropped, it terminates the connection.     *)
(***************************************************************************)
Finish(c, type) ==
    \/ /\ down' = Append(down, Frame(type, c))
       /\ srv' = [srv EXCEPT ![c] = "done"]
       /\ credits' = [credits EXCEPT ![c] = 0]
       /\ UNCHANGED <<signal, serverUp, beat>>
    \/ CloseSession /\ UNCHANGED down

(***************************************************************************)
(* The streaming loop.  With credit the producer is asked for its next     *)
(* chunk; a chunk that is dropped aborts the stream.                       *)
(***************************************************************************)
SendChunk(c) ==
    /\ serverUp /\ srv[c] = "stream" /\ c \notin signal
    /\ credits[c] > 0 /\ made[c] < MaxChunks
    /\ made' = [made EXCEPT ![c] = @ + 1]
    /\ \/ /\ down' = Append(down, Frame("RpcStreamChunk", c))
          /\ credits' = [credits EXCEPT ![c] = @ - 1]
          /\ UNCHANGED <<srv, signal, serverUp, beat>>
       \/ Finish(c, "RpcStreamAbort")
    /\ UNCHANGED <<call, reader, up, clientUp, unheard>>

(***************************************************************************)
(* The producer is done.                                                   *)
(***************************************************************************)
EndStream(c) ==
    /\ serverUp /\ srv[c] = "stream" /\ c \notin signal /\ credits[c] > 0
    /\ Finish(c, "RpcStreamEnd")
    /\ UNCHANGED <<call, reader, up, made, clientUp, unheard>>

(***************************************************************************)
(* An aborted call, a producer that throws, or a consumer that grants no   *)
(* credit for too long.                                                    *)
(***************************************************************************)
AbortStream(c) ==
    /\ serverUp /\ srv[c] = "stream"
    /\ Finish(c, "RpcStreamAbort")
    /\ UNCHANGED <<call, reader, up, made, clientUp, unheard>>

(***************************************************************************)
(* The heartbeat: a ping, and the end of the connection without its pong.  *)
(***************************************************************************)
Ping ==
    /\ serverUp /\ ~beat
    /\ beat' = TRUE
    /\ down' = Append(down, Frame("Ping", NoCall))
    /\ UNCHANGED <<call, reader, up, srv, signal, credits, made, clientUp, serverUp, unheard>>

(***************************************************************************)
(* The session closes: its heartbeat timed out, or its socket closed.      *)
(***************************************************************************)
ServerDisconnected ==
    /\ serverUp /\ (beat \/ ~clientUp)
    /\ CloseSession
    /\ UNCHANGED <<call, reader, up, down, made, clientUp, unheard>>

RpcNext ==
    \/ \E c \in Calls : \/ Call(c) \/ AbortCall(c) \/ Read(c) \/ ReadRest(c) \/ Respond(c)
                        \/ OpenStream(c) \/ SendChunk(c) \/ EndStream(c) \/ AbortStream(c)
    \/ ClientReceives \/ ServerReceives \/ ClientDisconnected \/ Ping \/ ServerDisconnected

RpcSpec == RpcInit /\ [][RpcNext]_rpcVars

-----------------------------------------------------------------------------
RpcTypeOK ==
    /\ call \in [Calls -> {"idle", "pending", "streaming", "draining", "settled"}]
    /\ srv \in [Calls -> {"idle", "running", "stream", "done"}]
    /\ credits \in [Calls -> Nat] /\ made \in [Calls -> 0..MaxChunks]
    /\ \A c \in Calls : reader[c].untilRefill \in Nat \ {0} /\ reader[c].buffered \in Nat

Connected == clientUp /\ serverUp
Quiet(c) == FramesOf(up, c) = {} /\ FramesOf(down, c) = {}

(***************************************************************************)
(* No call waits for an answer that cannot come: with no frame of it on    *)
(* its way and no handler at work, a call is pending only if its response  *)
(* was dropped.                                                            *)
(***************************************************************************)
NoHangingCall ==
    \A c \in Calls :
        (Connected /\ Quiet(c) /\ call[c] \in {"pending", "streaming"} /\ c \notin unheard)
        => srv[c] \in {"running", "stream"}

(***************************************************************************)
(* No stream outlives its consumer: when a call is settled and its frames  *)
(* have arrived, the server knows that the call is aborted.                *)
(***************************************************************************)
NoOrphanStream ==
    \A c \in Calls :
        (Connected /\ Quiet(c) /\ call[c] = "settled" /\ srv[c] \in {"running", "stream"}) => c \in signal

(***************************************************************************)
(* Batched refills never starve the consumer: one that waits for a chunk   *)
(* has granted the server credit to send it.                               *)
(***************************************************************************)
ReaderHasCredit ==
    \A c \in Calls :
        (Connected /\ call[c] = "streaming" /\ reader[c].reading /\ srv[c] = "stream" /\ Quiet(c))
        => credits[c] > 0

(***************************************************************************)
(* And they never overrun it: the chunks granted and not yet read are at   *)
(* most a window, wherever they are, so a stream of any length needs no    *)
(* more than that.                                                         *)
(***************************************************************************)
Granted(c) ==
    LET s == [i \in DOMAIN up |-> IF up[i].call = c THEN up[i].size ELSE 0]
        sum[i \in 0..Len(s)] == IF i = 0 THEN 0 ELSE sum[i - 1] + s[i]
    IN  sum[Len(s)]

LeadBounded ==
    \A c \in Calls :
        call[c] = "streaming" =>
            Granted(c) + credits[c] + reader[c].buffered
                + Cardinality({i \in FramesOf(down, c) : down[i].type = "RpcStreamChunk"}) <= Window

\* A call and its stream end at both ends of the link.
CallsEnd == RpcTypeOK /\ NoHangingCall /\ NoOrphanStream

\* The credits of a stream neither starve its reader nor let the server run
\* ahead of it.
CreditsBalance == ReaderHasCredit /\ LeadBounded
=============================================================================
