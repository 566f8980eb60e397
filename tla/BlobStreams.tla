---------------------------- MODULE BlobStreams ----------------------------
(***************************************************************************)
(* One upload and one download over a WebSocket connection: the server's   *)
(* blob stream manager with its credit pump, the client's stream layer,    *)
(* and the frames between them.  Bytes are counted; a source is the        *)
(* sequence of the sizes of its chunks.                                    *)
(*                                                                         *)
(* Upload: the server grants bytes with a pull for each demand of its      *)
(* consumer, the client answers a pull with at most as many bytes.         *)
(* Download: the client pulls PullSize bytes for each read, the server's   *)
(* pump sends at most what was granted.                                    *)
(***************************************************************************)
EXTENDS Integers, Sequences

CONSTANTS
    Sources,     \* the sources an upload or a download may have
    PullSize,    \* DEFAULT_PULL_SIZE
    MaxCredits   \* MAX_STREAM_CREDITS

ASSUME BlobAssumption ==
    /\ Sources \subseteq Seq(Nat)
    /\ PullSize \in Nat \ {0} /\ MaxCredits \in Nat /\ MaxCredits >= PullSize

VARIABLES
    toServer, toClient,  \* frames under way
    sent,     \* the upload's client: source chunks not yet read, pulls to answer, rest of a chunk
    uploaded, \* the upload at the server
    pump,     \* the download at the server
    got,      \* the download at the client
    total     \* history: bytes of the upload's, of the download's source, and whether
              \* the upload's has an empty chunk

blobVars == <<toServer, toClient, sent, uploaded, pump, got, total>>

Sum(s) ==
    LET sum[i \in 0..Len(s)] == IF i = 0 THEN 0 ELSE sum[i - 1] + s[i]
    IN  sum[Len(s)]
Smaller(a, b) == IF a < b THEN a ELSE b

BlobInit ==
    \E u, d \in Sources :
        /\ toServer = <<>> /\ toClient = <<>>
        /\ sent = [open |-> TRUE, source |-> u, pulls |-> <<>>, queue |-> 0]
        /\ uploaded = [open |-> TRUE, granted |-> 0, reading |-> FALSE, bytes |-> 0, ended |-> FALSE,
                       consumed |-> FALSE, told |-> 0, heard |-> FALSE]
        /\ pump = [open |-> TRUE, source |-> d, buffered |-> 0, credits |-> 0, granted |-> FALSE,
                   sourceEnded |-> FALSE, error |-> FALSE, told |-> 0, heard |-> FALSE, violated |-> FALSE]
        /\ got = [state |-> "open", reading |-> FALSE, frames |-> 0, bytes |-> 0, pulled |-> 0]
        /\ total = [up |-> Sum(u), down |-> Sum(d), gap |-> \E i \in DOMAIN u : u[i] = 0]

ToClient(t, n) == Append(toClient, [type |-> t, size |-> n])
ToServer(t, n) == Append(toServer, [type |-> t, size |-> n])

-----------------------------------------------------------------------------
(* The upload at the server.                                               *)

(***************************************************************************)
(* abortClientStream: the peer is told, once, unless the abort is its own. *)
(***************************************************************************)
AbortUpload(notifyPeer) ==
    /\ uploaded' = [uploaded EXCEPT !.open = FALSE, !.told = @ + (IF notifyPeer THEN 1 ELSE 0),
                                    !.heard = @ \/ ~notifyPeer]
    /\ toClient' = IF notifyPeer THEN ToClient("ClientBlobAbort", 0) ELSE toClient

(***************************************************************************)
(* The consumer's demand: the grant is recorded before the pull goes out.  *)
(* A dropped pull takes the grant back and aborts the stream.              *)
(***************************************************************************)
Demand ==
    /\ uploaded.open /\ uploaded.consumed /\ ~uploaded.reading
    /\ \/ /\ uploaded' = [uploaded EXCEPT !.granted = Smaller(@ + PullSize, MaxCredits), !.reading = TRUE]
          /\ toClient' = ToClient("ClientBlobPull", PullSize)
       \/ AbortUpload(TRUE)
    /\ UNCHANGED <<toServer, sent, pump, got, total>>

(***************************************************************************)
(* consumeBlob: the handler takes the upload, which no longer ends with    *)
(* its call.                                                               *)
(***************************************************************************)
ConsumeUpload ==
    /\ uploaded.open /\ ~uploaded.consumed
    /\ uploaded' = [uploaded EXCEPT !.consumed = TRUE]
    /\ UNCHANGED <<toServer, toClient, sent, pump, got, total>>

(***************************************************************************)
(* The idle timer of the upload, or the end of a call that did not take it.*)
(***************************************************************************)
UploadExpires ==
    /\ uploaded.open
    /\ AbortUpload(TRUE)
    /\ UNCHANGED <<toServer, sent, pump, got, total>>

(***************************************************************************)
(* The frames of an upload.  A push beyond the grant is a violation, and   *)
(* so is an empty one.                                                     *)
(***************************************************************************)
OnClientBlobPush(n) ==
    IF ~uploaded.open THEN UNCHANGED <<uploaded, toClient>>
    ELSE IF n = 0 \/ n > uploaded.granted THEN AbortUpload(TRUE)
    ELSE /\ uploaded' = [uploaded EXCEPT !.granted = @ - n, !.bytes = @ + n, !.reading = FALSE]
         /\ UNCHANGED toClient

OnClientBlobEnd ==
    /\ uploaded' = [uploaded EXCEPT !.ended = @ \/ uploaded.open, !.open = FALSE]
    /\ UNCHANGED toClient

OnClientBlobAbort == IF uploaded.open THEN AbortUpload(FALSE) ELSE UNCHANGED <<uploaded, toClient>>

-----------------------------------------------------------------------------
(* The upload at the client.                                               *)

(***************************************************************************)
(* read: what is left of the last chunk, or the next chunk of the source,  *)
(* up to the size of the pull.                                             *)
(***************************************************************************)
ReadSource(size) ==
    LET queue == IF sent.queue = 0 THEN Head(sent.source) ELSE sent.queue
        n     == Smaller(size, queue)
    IN  [bytes |-> n, queue |-> queue - n,
         source |-> IF sent.queue = 0 THEN Tail(sent.source) ELSE sent.source]

(***************************************************************************)
(* The answer to a pull: a push, the end, or an abort when the source      *)
(* fails.                                                                  *)
(***************************************************************************)
AnswerPull ==
    /\ sent.pulls # <<>>
    /\ \/ /\ sent.open /\ (sent.queue > 0 \/ sent.source # <<>>)
          /\ LET r == ReadSource(Head(sent.pulls))
             IN  /\ sent' = [sent EXCEPT !.pulls = Tail(@), !.queue = r.queue, !.source = r.source]
                 /\ toServer' = ToServer("ClientBlobPush", r.bytes)
       \/ /\ ~sent.open \/ (sent.queue = 0 /\ sent.source = <<>>)
          /\ sent' = [sent EXCEPT !.pulls = Tail(@), !.open = FALSE]
          /\ toServer' = ToServer("ClientBlobEnd", 0)
       \/ /\ sent.open /\ sent.queue = 0
          /\ sent' = [sent EXCEPT !.pulls = Tail(@), !.open = FALSE]
          /\ toServer' = ToServer("ClientBlobAbort", 0)
    /\ UNCHANGED <<toClient, uploaded, pump, got, total>>

-----------------------------------------------------------------------------
(* The download at the server.                                             *)

(***************************************************************************)
(* fail: the peer is told, once, unless the abort is its own.              *)
(***************************************************************************)
FailDownload(notifyPeer) ==
    /\ pump' = [pump EXCEPT !.open = FALSE, !.buffered = 0, !.told = @ + (IF notifyPeer THEN 1 ELSE 0),
                            !.heard = @ \/ ~notifyPeer]
    /\ toClient' = IF notifyPeer THEN ToClient("ServerBlobAbort", 0) ELSE toClient

(***************************************************************************)
(* The source fails: before the first grant the error is held back.        *)
(***************************************************************************)
SourceFails ==
    /\ pump.open /\ ~pump.error /\ ~pump.sourceEnded
    /\ IF pump.granted THEN FailDownload(TRUE)
       ELSE pump' = [pump EXCEPT !.error = TRUE, !.source = <<>>] /\ UNCHANGED toClient
    /\ UNCHANGED <<toServer, sent, uploaded, got, total>>

SourceEnds ==
    /\ pump.open /\ ~pump.error /\ ~pump.sourceEnded /\ pump.source = <<>>
    /\ pump' = [pump EXCEPT !.sourceEnded = TRUE]
    /\ UNCHANGED <<toServer, toClient, sent, uploaded, got, total>>

(***************************************************************************)
(* One iteration of the pump: send what is buffered or the next chunk, as  *)
(* far as the credits go, or the end of a source that is drained.          *)
(***************************************************************************)
\* Seeded fault: a chunk larger than the credits is sent whole.
PumpChunkWhole(n) ==
    /\ pump' = [pump EXCEPT !.buffered = 0, !.credits = IF @ > n THEN @ - n ELSE 0,
                            !.source = IF pump.buffered > 0 THEN @ ELSE Tail(@)]
    /\ toClient' = ToClient("ServerBlobPush", n)

PumpChunk(n) ==
    LET k == Smaller(n, pump.credits)
    IN  /\ pump' = [pump EXCEPT !.buffered = n - k, !.credits = @ - k,
                                !.source = IF pump.buffered > 0 THEN @ ELSE Tail(@)]
        /\ toClient' = ToClient("ServerBlobPush", k)

PumpDrained == pump.sourceEnded /\ pump.buffered = 0

Pump ==
    /\ pump.open /\ pump.granted
    /\ \/ pump.credits > 0 /\ pump.buffered > 0 /\ PumpChunk(pump.buffered)
       \/ pump.credits > 0 /\ pump.buffered = 0 /\ pump.source # <<>> /\ PumpChunk(Head(pump.source))
       \/ /\ PumpDrained
          /\ pump' = [pump EXCEPT !.open = FALSE]
          /\ toClient' = ToClient("ServerBlobEnd", 0)
    /\ UNCHANGED <<toServer, sent, uploaded, got, total>>

(***************************************************************************)
(* The idle timer of the download, or a dropped chunk.                     *)
(***************************************************************************)
DownloadExpires ==
    /\ pump.open
    /\ FailDownload(TRUE)
    /\ UNCHANGED <<toServer, sent, uploaded, got, total>>

(***************************************************************************)
(* grant: a held error is reported, credits beyond the cap are a violation.*)
(***************************************************************************)
OnServerBlobPull(n) ==
    CASE ~pump.open -> UNCHANGED <<pump, toClient>>
      [] pump.open /\ pump.credits + n > MaxCredits ->
            /\ pump' = [pump EXCEPT !.open = FALSE, !.buffered = 0, !.told = @ + 1, !.violated = TRUE]
            /\ toClient' = ToClient("ServerBlobAbort", 0)
      [] pump.open /\ pump.credits + n <= MaxCredits /\ pump.error -> FailDownload(TRUE)
      [] OTHER -> pump' = [pump EXCEPT !.granted = TRUE, !.credits = @ + n] /\ UNCHANGED toClient

OnServerBlobAbort == IF pump.open THEN FailDownload(FALSE) ELSE UNCHANGED <<pump, toClient>>

-----------------------------------------------------------------------------
(* The download at the client.                                             *)

(***************************************************************************)
(* A read of an open stream pulls, and takes the chunk whose write waits.  *)
(***************************************************************************)
ReadBlob ==
    /\ got.state = "open" /\ ~got.reading
    /\ toServer' = ToServer("ServerBlobPull", PullSize)
    /\ got' = [got EXCEPT !.pulled = @ + PullSize,
                          !.reading = got.frames = 0, !.frames = IF @ > 0 THEN @ - 1 ELSE 0]
    /\ UNCHANGED <<toClient, sent, uploaded, pump, total>>

(***************************************************************************)
(* The consumer's signal aborts, or a chunk cannot be written.             *)
(***************************************************************************)
AbortServerBlob ==
    /\ got.state = "open"
    /\ got' = [got EXCEPT !.state = "aborted", !.reading = FALSE]
    /\ toServer' = ToServer("ServerBlobAbort", 0)
    /\ UNCHANGED <<toClient, sent, uploaded, pump, total>>

-----------------------------------------------------------------------------
ServerReceivesBlob ==
    /\ toServer # <<>>
    /\ toServer' = Tail(toServer)
    /\ LET f == Head(toServer)
       IN  \/ f.type = "ClientBlobPush" /\ OnClientBlobPush(f.size) /\ UNCHANGED pump
           \/ f.type = "ClientBlobEnd" /\ OnClientBlobEnd /\ UNCHANGED pump
           \/ f.type = "ClientBlobAbort" /\ OnClientBlobAbort /\ UNCHANGED pump
           \/ f.type = "ServerBlobPull" /\ OnServerBlobPull(f.size) /\ UNCHANGED uploaded
           \/ f.type = "ServerBlobAbort" /\ OnServerBlobAbort /\ UNCHANGED uploaded
    /\ UNCHANGED <<sent, got, total>>

ClientReceivesBlob ==
    /\ toClient # <<>>
    /\ toClient' = Tail(toClient)
    /\ LET f == Head(toClient)
       IN  \/ /\ f.type = "ClientBlobPull"
              /\ sent' = [sent EXCEPT !.pulls = IF sent.open THEN Append(@, f.size) ELSE @]
              /\ UNCHANGED got
           \/ f.type = "ClientBlobAbort" /\ sent' = [sent EXCEPT !.open = FALSE] /\ UNCHANGED got
           \/ /\ f.type = "ServerBlobPush"
              /\ got' = IF got.state # "open" THEN got
                        ELSE [got EXCEPT !.bytes = @ + f.size, !.reading = FALSE,
                                         !.frames = IF got.reading THEN @ ELSE @ + 1]
              /\ UNCHANGED sent
           \/ /\ f.type \in {"ServerBlobEnd", "ServerBlobAbort"}
              /\ got' = IF got.state # "open" THEN got
                        ELSE [got EXCEPT !.state = IF f.type = "ServerBlobEnd" THEN "ended" ELSE "aborted",
                                         !.reading = FALSE]
              /\ UNCHANGED sent
    /\ UNCHANGED <<toServer, uploaded, pump, total>>

(***************************************************************************)
(* The connection closes: both ends drop their streams, nobody is told.    *)
(***************************************************************************)
CleanupConnection ==
    /\ uploaded.open \/ pump.open \/ sent.open \/ got.state = "open"
    /\ uploaded' = [uploaded EXCEPT !.open = FALSE]
    /\ pump' = [pump EXCEPT !.open = FALSE, !.buffered = 0]
    /\ sent' = [sent EXCEPT !.open = FALSE, !.pulls = <<>>]
    /\ got' = [got EXCEPT !.state = IF @ = "open" THEN "aborted" ELSE @, !.reading = FALSE]
    /\ toServer' = <<>> /\ toClient' = <<>>
    /\ UNCHANGED total

BlobNext ==
    \/ Demand \/ ConsumeUpload \/ UploadExpires \/ AnswerPull
    \/ SourceFails \/ SourceEnds \/ Pump \/ DownloadExpires \/ ReadBlob \/ AbortServerBlob
    \/ ServerReceivesBlob \/ ClientReceivesBlob \/ CleanupConnection

BlobSpec == BlobInit /\ [][BlobNext]_blobVars

-----------------------------------------------------------------------------
(***************************************************************************)
(* Every stream sends at most one wire abort, and none after the abort of  *)
(* its peer was heard.                                                     *)
(***************************************************************************)
AtMostOneAbort ==
    \A s \in {[told |-> uploaded.told, heard |-> uploaded.heard], [told |-> pump.told, heard |-> pump.heard]} :
        s.told + (IF s.heard THEN 1 ELSE 0) <= 1

(***************************************************************************)
(* A push of this client is within what the server has granted, and it is  *)
(* empty, the other violation the server aborts an upload for, only when   *)
(* the source gave it an empty chunk.                                      *)
(***************************************************************************)
HonestPushAccepted ==
    \A i \in DOMAIN toServer :
        toServer[i].type = "ClientBlobPush" =>
            /\ uploaded.open =>
                Sum([k \in 1..i |-> IF toServer[k].type = "ClientBlobPush" THEN toServer[k].size ELSE 0])
                    <= uploaded.granted
            /\ toServer[i].size > 0 \/ total.gap

(***************************************************************************)
(* No push of this client is refused.  It does not hold: read answers a    *)
(* pull with an empty push when the source yields an empty chunk           *)
(* (stream.ts:83-94), and the server takes that for a credit violation and *)
(* aborts the upload.                                                      *)
(***************************************************************************)
NoPushRefused ==
    \A i \in DOMAIN toServer : toServer[i].type = "ClientBlobPush" => toServer[i].size > 0

(***************************************************************************)
(* The client is never sent a byte it has not asked for.                   *)
(***************************************************************************)
DownloadWithinGrants ==
    got.bytes + Sum([i \in DOMAIN toClient |->
                        IF toClient[i].type = "ServerBlobPush" THEN toClient[i].size ELSE 0]) <= got.pulled

(***************************************************************************)
(* A stream that ends normally carried its whole source, in either         *)
(* direction.                                                              *)
(***************************************************************************)
EndIsComplete ==
    /\ got.state = "ended" => got.bytes = total.down
    /\ uploaded.ended => uploaded.bytes = total.up

(***************************************************************************)
(* A client that only reads is never found in violation of the credits.    *)
(* It does not hold: a pull is refused when the sum of the credits would   *)
(* pass the cap, though each of them was asked for by a read (stream.ts).  *)
(***************************************************************************)
HonestReaderAccepted == ~pump.violated

\* A blob arrives whole or is aborted once, no push of the client is beyond
\* the grants, or empty unless a chunk of its source is, and no byte is sent
\* unasked.
BlobsSound == AtMostOneAbort /\ HonestPushAccepted /\ DownloadWithinGrants /\ EndIsComplete
=============================================================================
