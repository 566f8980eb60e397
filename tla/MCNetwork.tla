----------------------------- MODULE MCNetwork -----------------------------
(***************************************************************************)
(* The parts of the network layer, each against its own environment: a     *)
(* behaviour chooses one part at the start, and the others stay as they    *)
(* are.                                                                    *)
(***************************************************************************)
EXTENDS ClientConnection, RpcLink, BlobStreams, Gateway, HttpResponse, HttpCall, PubSub

VARIABLE part

MCSources == {<<1, 1, 1, 1>>, <<3, 2>>, <<2, 0, 1>>}

MCInit ==
    /\ part \in {"connection", "rpc", "blobs", "gateway", "response", "call", "pubsub"}
    /\ ConnInit /\ RpcInit /\ BlobInit /\ GatewayInit /\ HttpInit /\ CallInit /\ PubSubInit
    /\ part # "blobs" => total.up = 4 /\ total.down = 4
    /\ part # "response" => route = "none" /\ upload.left = 0 /\ ~firstOnly
    /\ part # "call" => kind = "http"

MCNext ==
    /\ UNCHANGED part
    /\ \/ /\ part = "connection" /\ ConnNext
          /\ UNCHANGED <<rpcVars, blobVars, gatewayVars, httpVars, callVars, pubsubVars>>
       \/ /\ part = "rpc" /\ RpcNext
          /\ UNCHANGED <<connVars, blobVars, gatewayVars, httpVars, callVars, pubsubVars>>
       \/ /\ part = "blobs" /\ BlobNext
          /\ UNCHANGED <<connVars, rpcVars, gatewayVars, httpVars, callVars, pubsubVars>>
       \/ /\ part = "gateway" /\ GatewayNext
          /\ UNCHANGED <<connVars, rpcVars, blobVars, httpVars, callVars, pubsubVars>>
       \/ /\ part = "response" /\ HttpNext
          /\ UNCHANGED <<connVars, rpcVars, blobVars, gatewayVars, callVars, pubsubVars>>
       \/ /\ part = "call" /\ CallNext
          /\ UNCHANGED <<connVars, rpcVars, blobVars, gatewayVars, httpVars, pubsubVars>>
       \/ /\ part = "pubsub" /\ PubSubNext
          /\ UNCHANGED <<connVars, rpcVars, blobVars, gatewayVars, httpVars, callVars>>

MCSpec ==
    MCInit /\ [][MCNext]_<<part, connVars, rpcVars, blobVars, gatewayVars, httpVars, callVars, pubsubVars>>
=============================================================================
