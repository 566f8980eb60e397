--------------------------- MODULE NetworkProofs ---------------------------
(***************************************************************************)
(* The safety of the network layer.  On the client's side, a connection    *)
(* for any number of connection attempts and any set of reconnect loops,   *)
(* the calls over it and the credits of their streams for any calls and    *)
(* any window, and blobs in both directions for any sources, pull size and *)
(* cap of the credits; on the server's, the gateway for any number of      *)
(* connections, subscriptions for any finite set of subscribers and any    *)
(* high water mark, an HTTP response for any body limit, a request for any *)
(* number of entries, middlewares and entries at a time.                   *)
(***************************************************************************)
EXTENDS ClientConnection, RpcLink, BlobStreams, Gateway, PubSub, HttpResponse, HttpCall,
        FiniteSetTheorems, WellFoundedInduction, TLAPS

-----------------------------------------------------------------------------
(* The connection.                                                         *)

Socket == {"opening", "open", "abandoned", "closing", "closed"}
Loop == [pc : {"sleep", "await"}, aborted : BOOLEAN]

\* Sockets are numbered from 1; only a connect error ends an attempt.
ConnTyped ==
    /\ connState \in ConnStates /\ reason \in Reasons
    /\ override \in {None, "heartbeat_timeout"}
    /\ \E n \in 0..MaxSockets : sock \in [1..n -> Socket]
    /\ ref \in DOMAIN sock \cup {None} /\ attempt \in DOMAIN sock \cup {None}
    /\ {ctx, byClient, paused, disposed, explicit, raced} \subseteq BOOLEAN
    /\ \A h \in hooks :
        /\ h = [why |-> h.why, failed |-> h.failed]
        /\ h.why \in Reasons /\ h.failed \in DOMAIN sock \cup {None}
        /\ h.failed # None => h.why = "connect_error"

\* The loops of a record [loops, promise, controller]: the promise and the
\* controller are those of a live loop, and an aborted loop is one that
\* awaits an attempt.
LoopsOk(r) ==
    /\ r.loops \in [DOMAIN r.loops -> Loop] /\ DOMAIN r.loops \subseteq LoopIds
    /\ r.promise # None => r.promise = r.controller
    /\ r.controller # None => r.controller \in DOMAIN r.loops /\ ~r.loops[r.controller].aborted
    /\ \A l \in DOMAIN r.loops : r.loops[l].aborted => r.loops[l].pc = "await"

\* Somebody awaits the attempt only while there is one, and at most one
\* loop is both aborted and not yet over.
LoopsFollowAttempt ==
    /\ connState = "connected" => attempt = None
    /\ \A l \in DOMAIN loops :
        /\ loops[l].pc = "await" => attempt # None
        /\ loops[l].aborted => explicit \/ disposed
    /\ ~disposed => \A k, l \in DOMAIN loops : loops[k].aborted /\ loops[l].aborted => k = l

\* The only loop is that of the promise, and none outlives a disposal.
SingleLoop(r) == \A l \in DOMAIN r.loops : IF disposed THEN r.loops[l].aborted ELSE l = r.promise

LoopsAlone ==
    ~raced => /\ SingleLoop(Running)
              /\ connState = "disconnecting" /\ ~disposed => DOMAIN loops = {}

\* The transport's socket is the only one not closed, and it is where the
\* client's state says; an attempt is pending exactly while connecting or
\* while the hooks of its failure run.
SocketOk ==
    /\ \A s \in DOMAIN sock : sock[s] # "closed" => s = ref
    /\ connState \in {"idle", "disconnected"} => ref = None
    /\ connState = "connecting" => ref # None /\ sock[ref] = "opening" /\ attempt = ref /\ ctx
    /\ connState = "connected" => ref # None /\ sock[ref] = "open" /\ ctx
    /\ connState = "disconnecting" => ref # None /\ sock[ref] = "closing" /\ attempt = None
    /\ attempt # None => connState = "connecting" \/ \E h \in hooks : h.failed = attempt
    /\ \A h \in hooks : h.failed # None => attempt = h.failed /\ connState = "disconnected"

SocketsFollowState == ~raced /\ ~disposed => SocketOk

ConnInv == ConnTyped /\ LoopsOk(Running) /\ LoopsFollowAttempt /\ NeverStuck /\ LoopsAlone /\ SocketsFollowState

-----------------------------------------------------------------------------
(* What the reconnect loops' operators return.                             *)

Bundle(r) == r = [loops |-> r.loops, promise |-> r.promise, controller |-> r.controller]

LoopStarted(e, l) ==
    /\ l \in LoopIds \ DOMAIN loops
    /\ Bundle(e) /\ e.promise = l /\ e.controller = l
    /\ e.loops \in [DOMAIN loops \cup {l} -> Loop]
    /\ ~e.loops[l].aborted /\ e.loops[l].pc = "sleep"
    /\ \A k \in DOMAIN loops : e.loops[k] = loops[k]

\* ensureReconnectLoop starts one sleeping loop, under a new name, where
\* there is no promise.
LEMMA EnsureStarts ==
    ASSUME LoopsOk(Running), NEW st, NEW why
    PROVE  LET e == EnsureReconnectLoop(st, why)
           IN  \/ e = Running /\ (promise # None \/ ~LoopGoesOn(st, why) \/ LoopIds \subseteq DOMAIN loops)
               \/ promise = None /\ LoopGoesOn(st, why) /\ \E l : LoopStarted(e, l)
<1> DEFINE l == CHOOSE k \in LoopIds \ DOMAIN loops : TRUE
           f == [k \in DOMAIN loops \cup {l} |->
                   IF k = l THEN [pc |-> "sleep", aborted |-> FALSE] ELSE loops[k]]
           e == [loops |-> f, promise |-> l, controller |-> l]
<1>1. CASE promise # None \/ ~LoopGoesOn(st, why) \/ LoopIds \subseteq DOMAIN loops
  BY <1>1 DEF EnsureReconnectLoop
<1>2. CASE ~(promise # None \/ ~LoopGoesOn(st, why) \/ LoopIds \subseteq DOMAIN loops)
  <2>1. EnsureReconnectLoop(st, why) = e
    BY <1>2 DEF EnsureReconnectLoop, StartLoop, Running
  <2>2. l \in LoopIds \ DOMAIN loops
    BY <1>2
  <2> HIDE DEF l
  <2>3. f \in [DOMAIN loops \cup {l} -> Loop]
    BY DEF LoopsOk, Running, Loop
  <2>4. f[l] = [pc |-> "sleep", aborted |-> FALSE]
    OBVIOUS
  <2>5. \A k \in DOMAIN loops : f[k] = loops[k]
    BY <2>2
  <2> HIDE DEF f
  <2>6. LoopStarted(e, l)
    BY <2>2, <2>3, <2>4, <2>5 DEF LoopStarted, Bundle
  <2>. QED  BY <1>2, <2>1, <2>6
<1>. QED  BY <1>1, <1>2

\* So the loops stay in order, nobody else awaits or is aborted, and a
\* client that is to reconnect has a live loop.
LEMMA EnsureKeeps ==
    ASSUME ConnInv, NEW st, NEW why
    PROVE  LET e == EnsureReconnectLoop(st, why)
           IN  /\ Bundle(e) /\ LoopsOk(e)
               /\ ~raced => SingleLoop(e)
               /\ \A k \in DOMAIN loops : k \in DOMAIN e.loops /\ e.loops[k] = loops[k]
               /\ \A k \in DOMAIN e.loops \ DOMAIN loops : e.loops[k].pc = "sleep" /\ ~e.loops[k].aborted
               /\ LoopGoesOn(st, why) => \E k \in DOMAIN e.loops : ~e.loops[k].aborted
               /\ ~LoopGoesOn(st, why) => e = Running
<1> DEFINE e == EnsureReconnectLoop(st, why)
<1>. USE DEF ConnInv
<1>1. CASE e = Running /\ (promise # None \/ ~LoopGoesOn(st, why) \/ LoopIds \subseteq DOMAIN loops)
  <2>1. Bundle(e) /\ LoopsOk(e) /\ (~raced => SingleLoop(e)) /\ e.loops = loops
    BY <1>1 DEF Bundle, Running, LoopsAlone
  <2>2. ASSUME LoopGoesOn(st, why) PROVE \E k \in DOMAIN loops : ~loops[k].aborted
    <3>1. CASE promise # None
      BY <3>1 DEF LoopsOk, Running
    <3>2. CASE LoopIds \subseteq DOMAIN loops
      <4>1. PICK k \in LoopIds, l \in LoopIds : k # l
        BY ConnAssumption
      <4>2. ~disposed
        BY <2>2 DEF LoopGoesOn
      <4>. QED  BY <3>2, <4>1, <4>2 DEF LoopsFollowAttempt
    <3>. QED  BY <1>1, <2>2, <3>1, <3>2
  <2>. HIDE DEF ConnInv
  <2>. QED  BY <1>1, <2>1, <2>2
<1>2. CASE promise = None /\ LoopGoesOn(st, why) /\ \E l : LoopStarted(e, l)
  <2>1. PICK l : LoopStarted(e, l)
    BY <1>2
  <2> HIDE DEF e
  <2>2. DOMAIN e.loops = DOMAIN loops \cup {l} /\ e.loops[l].pc = "sleep" /\ ~e.loops[l].aborted
    BY <2>1 DEF LoopStarted
  <2>3. LoopsOk(e)
    BY <2>1, <2>2 DEF LoopStarted, LoopsOk, Running
  <2>4. ~disposed
    BY <1>2 DEF LoopGoesOn
  <2>5. ~raced => SingleLoop(e)
    <3>1. ASSUME ~raced, NEW k \in DOMAIN loops PROVE FALSE
      BY <3>1, <1>2, <2>4, ConnAssumption DEF LoopsAlone, SingleLoop, Running, LoopsOk
    <3>. QED  BY <2>1, <2>2, <2>4, <3>1 DEF SingleLoop, LoopStarted
  <2>. QED  BY <1>2, <2>1, <2>2, <2>3, <2>5 DEF LoopStarted, e
<1>. QED  BY <1>1, <1>2, EnsureStarts

\* A settled attempt leaves the live loops asleep, and none aborted; where
\* the loop's condition holds, every live one goes on.
LEMMA SettledKeeps ==
    ASSUME NEW r, Bundle(r), LoopsOk(r), NEW st, NEW why
    PROVE  LET a == AttemptSettled(r, st, why)
           IN  /\ Bundle(a) /\ LoopsOk(a)
               /\ SingleLoop(r) => SingleLoop(a)
               /\ DOMAIN a.loops \subseteq DOMAIN r.loops
               /\ \A l \in DOMAIN a.loops : a.loops[l].pc = "sleep" /\ ~a.loops[l].aborted
               /\ LoopGoesOn(st, why) => \A l \in DOMAIN r.loops : ~r.loops[l].aborted => l \in DOMAIN a.loops
<1> DEFINE a == AttemptSettled(r, st, why)
           L == r.loops
           awaiting == {l \in DOMAIN L : L[l].pc = "await"}
           S == {l \in awaiting : L[l].aborted \/ ~LoopGoesOn(st, why)}
           M == [l \in DOMAIN L |-> [L[l] EXCEPT !.pc = "sleep"]]
           q == [loops |-> M, promise |-> r.promise, controller |-> r.controller]
           f == [l \in DOMAIN L \ S |-> M[l]]
           p == IF S = {} THEN r.promise ELSE None
           c == IF r.controller \in S THEN None ELSE r.controller
<1>1. [r EXCEPT !.loops = [l \in DOMAIN @ |-> [@[l] EXCEPT !.pc = "sleep"]]] = q
  BY DEF Bundle
<1>2. a = EndLoops(q, S)
  BY <1>1 DEF AttemptSettled
<1>3. a = [loops |-> f, promise |-> p, controller |-> c]
  BY <1>2 DEF EndLoops, Without
<1>4. a.loops = f /\ a.promise = p /\ a.controller = c /\ Bundle(a)
  BY <1>3 DEF Bundle
<1> HIDE DEF a
<1>5. \A l \in DOMAIN L \ S : f[l] = [L[l] EXCEPT !.pc = "sleep"]
  OBVIOUS
<1>6. L \in [DOMAIN L -> Loop] /\ DOMAIN L \subseteq LoopIds
  BY DEF LoopsOk
<1>7. ASSUME NEW l \in DOMAIN L \ S
      PROVE  f[l] \in Loop /\ f[l].pc = "sleep" /\ ~f[l].aborted /\ ~L[l].aborted
  <2>1. L[l] \in Loop
    BY <1>6
  <2>2. ~L[l].aborted
    BY <2>1 DEF LoopsOk
  <2>. QED  BY <1>5, <2>1, <2>2 DEF Loop
<1>8. f \in [DOMAIN f -> Loop] /\ DOMAIN f = DOMAIN L \ S
  BY <1>7
<1>9. \A l \in S : l \in DOMAIN L /\ (L[l].aborted \/ ~LoopGoesOn(st, why))
  OBVIOUS
<1> HIDE DEF f, S
<1>10. LoopsOk(a)
  BY <1>4, <1>6, <1>7, <1>8 DEF LoopsOk
<1>11. SingleLoop(r) => SingleLoop(a)
  <2>1. CASE disposed
    BY <2>1, <1>4, <1>7, <1>8, <1>9 DEF SingleLoop
  <2>2. CASE ~disposed
    BY <2>2, <1>4, <1>8, <1>9 DEF SingleLoop
  <2>. QED  BY <2>1, <2>2
<1>. QED  BY <1>4, <1>7, <1>8, <1>9, <1>10, <1>11 DEF a
\* cancelReconnectLoop aborts the controller's loop, which is gone at once
\* unless it awaits an attempt.
LEMMA CancelKeeps ==
    ASSUME LoopsOk(Running), CancelReconnectLoop
    PROVE  /\ LoopsOk(Running)' /\ promise' = None /\ controller' = None
           /\ DOMAIN loops' = {k \in DOMAIN loops : k # controller \/ loops[k].pc = "await"}
           /\ \A l \in DOMAIN loops' :
                /\ loops'[l].pc = loops[l].pc
                /\ loops'[l].aborted <=> loops[l].aborted \/ l = controller
<1> DEFINE D == {k \in DOMAIN loops : k # controller \/ loops[k].pc = "await"}
           f == [l \in D |-> [loops[l] EXCEPT !.aborted = @ \/ l = controller]]
<1>1. loops' = f /\ promise' = None /\ controller' = None
  BY DEF CancelReconnectLoop, Become
<1>2. loops \in [DOMAIN loops -> Loop] /\ DOMAIN loops \subseteq LoopIds
  BY DEF LoopsOk, Running
<1>3. ASSUME NEW l \in D
      PROVE  /\ f[l] \in Loop /\ f[l].pc = loops[l].pc
             /\ f[l].aborted <=> loops[l].aborted \/ l = controller
  <2>1. loops[l] \in Loop
    BY <1>2
  <2>2. f[l] = [loops[l] EXCEPT !.aborted = loops[l].aborted \/ l = controller]
    OBVIOUS
  <2>. QED  BY <2>1, <2>2 DEF Loop
<1>4. f \in [D -> Loop]
  BY <1>3
<1>5. \A l \in D : loops[l].aborted \/ l = controller => loops[l].pc = "await"
  BY DEF LoopsOk, Running
<1> HIDE DEF f
<1>6. LoopsOk(Running)'
  BY <1>1, <1>2, <1>3, <1>4, <1>5 DEF LoopsOk, Running
<1>. QED  BY <1>1, <1>3, <1>4, <1>6

\* What becomes of the loops.
LEMMA BecomeKeeps ==
    ASSUME NEW r, Bundle(r), LoopsOk(r), Become(r)
    PROVE  LoopsOk(Running)' /\ Running' = r /\ loops' = r.loops
<1>1. loops' = r.loops /\ promise' = r.promise /\ controller' = r.controller
  BY DEF Become
<1>. QED  BY <1>1 DEF Bundle, Running, LoopsOk

-----------------------------------------------------------------------------
(* Connects.                                                               *)

\* The new socket has the next number.
LEMMA AttemptNumbered ==
    ASSUME ConnTyped, MayStart, StartAttempt
    PROVE  \E s \in 1..MaxSockets :
              /\ s \notin DOMAIN sock
              /\ sock' \in [1..s -> Socket] /\ DOMAIN sock' = DOMAIN sock \cup {s}
              /\ sock'[s] = "opening" /\ \A t \in DOMAIN sock : sock'[t] = sock[t]
              /\ ref' = s /\ attempt' = s
<1>1. PICK n \in 0..MaxSockets : sock \in [1..n -> Socket]
  BY DEF ConnTyped
<1>2. n \in Nat /\ DOMAIN sock = 1..n /\ Cardinality(1..n) = n
  BY <1>1, FS_Interval, ConnAssumption
<1>3. n + 1 \in 1..MaxSockets /\ n + 1 \notin DOMAIN sock
  BY <1>2, ConnAssumption DEF MayStart
<1>4. sock' = [t \in 1..(n + 1) |-> IF t = n + 1 THEN "opening" ELSE sock[t]]
  BY <1>2 DEF StartAttempt
<1>5. sock' \in [1..(n + 1) -> Socket] /\ DOMAIN sock' = DOMAIN sock \cup {n + 1}
  BY <1>1, <1>2, <1>4 DEF Socket
<1>6. sock'[n + 1] = "opening" /\ \A t \in DOMAIN sock : sock'[t] = sock[t]
  BY <1>2, <1>4
<1>. QED  BY <1>2, <1>3, <1>5, <1>6 DEF StartAttempt

\* A start of an attempt, whoever asked for it: by then, unless a call
\* overtook another, every earlier socket is closed.
LEMMA StartKeeps ==
    ASSUME ConnInv, MayStart, StartAttempt, connState = "disconnecting" => raced',
           raced => raced', raced' \in BOOLEAN, explicit' \in BOOLEAN,
           UNCHANGED <<reason, override, hooks, paused, disposed>>
    PROVE  ConnTyped' /\ SocketsFollowState' /\ NeverStuck' /\ connState' = "connecting" /\ attempt' # None
<1>. USE DEF ConnInv
<1>1. PICK s \in 1..MaxSockets :
              /\ s \notin DOMAIN sock
              /\ sock' \in [1..s -> Socket] /\ DOMAIN sock' = DOMAIN sock \cup {s}
              /\ sock'[s] = "opening" /\ \A t \in DOMAIN sock : sock'[t] = sock[t]
              /\ ref' = s /\ attempt' = s
  BY AttemptNumbered
<1>2. connState' = "connecting" /\ ctx' = TRUE /\ byClient' = FALSE
  BY DEF StartAttempt
<1>3. s # None
  BY ConnAssumption
<1>4. ConnTyped'
  <2>1. s \in 0..MaxSockets
    BY ConnAssumption
  <2>2. connState' \in ConnStates
    BY <1>2 DEF ConnStates
  <2>. QED  BY <1>1, <1>2, <2>1, <2>2 DEF ConnTyped
<1>5. SocketsFollowState'
  <2>. SUFFICES ASSUME ~raced', ~disposed' PROVE SocketOk'
    BY DEF SocketsFollowState
  <2>1. SocketOk /\ attempt = None /\ connState # "disconnecting" /\ connState # "connected"
    BY DEF SocketsFollowState, MayStart
  <2>2. ref = None /\ \A h \in hooks : h.failed = None
    BY <2>1 DEF SocketOk, ConnTyped, ConnStates
  <2>3. \A t \in DOMAIN sock' : sock'[t] # "closed" => t = ref'
    BY <1>1, <2>1, <2>2, ConnAssumption DEF SocketOk, ConnTyped
  <2>. QED  BY <1>1, <1>2, <1>3, <2>2, <2>3 DEF SocketOk
<1>. QED  BY <1>1, <1>2, <1>3, <1>4, <1>5 DEF NeverStuck

\* connect, by the application or by a call.
LEMMA ConnectKeeps == ConnInv /\ (Connect \/ CallConnects) => ConnInv'
<1>. SUFFICES ASSUME ConnInv, Connect \/ CallConnects PROVE ConnInv'
  OBVIOUS
<1>1. /\ MayStart /\ StartAttempt /\ raced' \in BOOLEAN /\ explicit' \in BOOLEAN
      /\ connState = "disconnecting" => raced' 
      /\ raced => raced'
      /\ UNCHANGED <<reason, override, hooks, paused, disposed, loops, promise, controller>>
  <2>1. raced \in BOOLEAN /\ explicit \in BOOLEAN
    BY DEF ConnInv, ConnTyped
  <2>2. CASE Connect
    BY <2>1, <2>2 DEF Connect
  <2>3. CASE CallConnects
    BY <2>1, <2>3 DEF CallConnects, ShouldConnectOnCall
  <2>. QED  BY <2>2, <2>3
<1>2. ConnTyped' /\ SocketsFollowState' /\ NeverStuck' /\ connState' = "connecting" /\ attempt' # None
  BY <1>1, StartKeeps
<1>3. \A l \in DOMAIN loops : loops[l].pc = "sleep" /\ ~loops[l].aborted
  BY <1>1 DEF ConnInv, LoopsFollowAttempt, MayStart, LoopsOk, Running, Loop
<1>4. LoopsOk(Running)'
  BY <1>1 DEF ConnInv, LoopsOk, Running
<1>5. LoopsFollowAttempt' /\ LoopsAlone'
  BY <1>1, <1>2, <1>3 DEF ConnInv, LoopsFollowAttempt, LoopsAlone, SingleLoop, Running
<1>. QED  BY <1>2, <1>4, <1>5 DEF ConnInv

\* A reconnect loop at the end of its sleep.
LEMMA LoopWakesKeeps == ConnInv /\ (\E l \in DOMAIN loops : LoopWakes(l)) => ConnInv'
<1>. SUFFICES ASSUME ConnInv, NEW l \in DOMAIN loops, LoopWakes(l) PROVE ConnInv'
  OBVIOUS
<1>. USE DEF ConnInv
<1>1. /\ loops[l].pc = "sleep" /\ loops[l] \in Loop /\ ~loops[l].aborted /\ l \in LoopIds /\ l # None
      /\ UNCHANGED <<reason, override, hooks, paused, disposed, explicit, raced>>
  BY ConnAssumption DEF LoopWakes, LoopsOk, Running, Loop
<1>2. CASE connState \in {"connected", "connecting"} \/ disposed
  <2> DEFINE f == [k \in DOMAIN loops \ {l} |-> loops[k]]
  <2>1. /\ loops' = f /\ promise' = None /\ controller' = IF controller = l THEN None ELSE controller
        /\ UNCHANGED <<connState, ctx, byClient, sock, ref, attempt>>
    BY <1>2 DEF LoopWakes, Become, EndLoops, Without, Running
  <2>2. ConnTyped' /\ SocketsFollowState' /\ NeverStuck'
    BY <1>1, <1>2, <2>1 DEF ConnTyped, SocketsFollowState, SocketOk, NeverStuck
  <2>3. f \in [DOMAIN loops \ {l} -> Loop] /\ \A k \in DOMAIN loops \ {l} : f[k] = loops[k]
    BY DEF LoopsOk, Running
  <2> HIDE DEF f
  <2>4. LoopsOk(Running)'
    BY <2>1, <2>3 DEF LoopsOk, Running
  <2>5. LoopsFollowAttempt'
    BY <1>1, <2>1, <2>3 DEF LoopsFollowAttempt
  <2>6. LoopsAlone'
    <3>1. ASSUME ~raced PROVE \A k \in DOMAIN loops : IF disposed THEN loops[k].aborted ELSE k = l
      BY <3>1, <1>1 DEF LoopsAlone, SingleLoop, Running
    <3>. QED  BY <1>1, <2>1, <2>3, <3>1 DEF LoopsAlone, SingleLoop, Running
  <2>. QED  BY <2>2, <2>4, <2>5, <2>6
<1>3. CASE ~(connState \in {"connected", "connecting"} \/ disposed)
  <2> DEFINE f == [loops EXCEPT ![l].pc = "await"]
  <2>1. /\ loops' = f /\ UNCHANGED <<promise, controller>>
        /\ \/ attempt # None /\ UNCHANGED <<connState, ctx, byClient, sock, ref, attempt>>
           \/ MayStart /\ StartAttempt
    BY <1>3 DEF LoopWakes
  <2>2. /\ f \in [DOMAIN loops -> Loop] /\ f[l].pc = "await" /\ ~f[l].aborted
        /\ \A k \in DOMAIN loops \ {l} : f[k] = loops[k]
    BY <1>1 DEF LoopsOk, Running, Loop
  <2> HIDE DEF f
  <2>3. LoopsOk(Running)'
    BY <1>1, <2>1, <2>2 DEF LoopsOk, Running
  <2>4. ~raced => connState # "disconnecting"
    BY <1>3 DEF LoopsAlone
  <2>5. ConnTyped' /\ SocketsFollowState' /\ attempt' # None /\ connState' # "connected"
    <3>1. CASE attempt # None /\ UNCHANGED <<connState, ctx, byClient, sock, ref, attempt>>
      BY <3>1, <1>1, <1>3 DEF ConnTyped, SocketsFollowState, SocketOk
    <3>2. CASE MayStart /\ StartAttempt
      <4>1. raced' \in BOOLEAN /\ explicit' \in BOOLEAN
        BY <1>1 DEF ConnTyped
      <4>. QED  BY <3>2, <4>1, <1>1, <2>4, StartKeeps
    <3>. QED  BY <2>1, <3>1, <3>2
  <2>6. NeverStuck'
    BY <2>1, <2>2 DEF NeverStuck, Live
  <2>7. LoopsFollowAttempt'
    BY <1>1, <2>1, <2>2, <2>5 DEF LoopsFollowAttempt
  <2>8. LoopsAlone'
    <3>1. connState' = "disconnecting" => connState = "disconnecting"
      BY <2>1 DEF StartAttempt
    <3>. QED  BY <1>1, <1>3, <2>1, <2>2, <2>4, <3>1 DEF LoopsAlone, SingleLoop, Running
  <2>. QED  BY <2>3, <2>5, <2>6, <2>7, <2>8
<1>. QED  BY <1>2, <1>3
-----------------------------------------------------------------------------
(* The events of sockets, and disconnects.                                 *)

\* What follows for the loops when they go through a settled attempt.
LEMMA SettledFollows ==
    ASSUME NEW r, NEW st, NEW why, Bundle(r), LoopsOk(r), Become(AttemptSettled(r, st, why)),
           UNCHANGED <<disposed, raced>>, ~raced => SingleLoop(r),
           connState' = "connected" => attempt' = None,
           connState' = "disconnecting" /\ ~raced /\ ~disposed => DOMAIN r.loops = {}
    PROVE  /\ LoopsOk(Running)' /\ LoopsFollowAttempt' /\ LoopsAlone'
           /\ \A l \in DOMAIN loops' : ~loops'[l].aborted
           /\ LoopGoesOn(st, why) => \A l \in DOMAIN r.loops : ~r.loops[l].aborted => l \in DOMAIN loops'
<1> DEFINE a == AttemptSettled(r, st, why)
<1>1. /\ Bundle(a) /\ LoopsOk(a)
      /\ SingleLoop(r) => SingleLoop(a)
      /\ DOMAIN a.loops \subseteq DOMAIN r.loops
      /\ \A l \in DOMAIN a.loops : a.loops[l].pc = "sleep" /\ ~a.loops[l].aborted
      /\ LoopGoesOn(st, why) => \A l \in DOMAIN r.loops : ~r.loops[l].aborted => l \in DOMAIN a.loops
  BY SettledKeeps
<1> HIDE DEF a
<1>2. LoopsOk(Running)' /\ Running' = a /\ loops' = a.loops
  BY <1>1, BecomeKeeps DEF a
<1>3. LoopsFollowAttempt'
  BY <1>1, <1>2 DEF LoopsFollowAttempt
<1>4. LoopsAlone'
  BY <1>1, <1>2 DEF LoopsAlone, SingleLoop
<1>. QED  BY <1>1, <1>2, <1>3, <1>4

\* The open event.
LEMMA OpensKeeps == ConnInv /\ (\E s \in DOMAIN sock : SocketOpens(s)) => ConnInv'
<1>. SUFFICES ASSUME ConnInv, NEW s \in DOMAIN sock, SocketOpens(s) PROVE ConnInv'
  OBVIOUS
<1>. USE DEF ConnInv
<1>1. /\ sock[s] = "opening" /\ sock' = [sock EXCEPT ![s] = "open"]
      /\ connState' = "connected" /\ reason' = "server" /\ attempt' = None
      /\ UNCHANGED <<override, ctx, ref, byClient, hooks, paused, disposed, explicit, raced>>
      /\ Become(AttemptSettled(Running, "connected", "server"))
  BY DEF SocketOpens
<1>2. PICK n \in 0..MaxSockets : sock \in [1..n -> Socket]
  BY DEF ConnTyped
<1>3. sock' \in [1..n -> Socket] /\ DOMAIN sock' = DOMAIN sock /\ sock'[s] = "open"
      /\ \A t \in DOMAIN sock : t # s => sock'[t] = sock[t]
  BY <1>1, <1>2 DEF Socket
<1>4. ConnTyped'
  <2>1. connState' \in ConnStates /\ reason' \in Reasons
    BY <1>1 DEF ConnStates, Reasons
  <2>. QED  BY <1>1, <1>3, <2>1 DEF ConnTyped
<1>5. LoopsOk(Running)' /\ LoopsFollowAttempt' /\ LoopsAlone'
  <2>1. Bundle(Running) /\ (~raced => SingleLoop(Running))
    BY DEF Bundle, Running, LoopsAlone
  <2>. QED  BY <1>1, <2>1, SettledFollows
<1>6. NeverStuck'
  BY <1>1 DEF NeverStuck
<1>7. SocketsFollowState'
  <2>. SUFFICES ASSUME ~raced', ~disposed' PROVE SocketOk'
    BY DEF SocketsFollowState
  <2>1. SocketOk
    BY <1>1 DEF SocketsFollowState
  <2>2. s = ref /\ ref # None
    BY <1>1, <1>2, <2>1, ConnAssumption DEF SocketOk
  <2>3. connState = "connecting" /\ ctx
    BY <1>1, <2>1, <2>2 DEF SocketOk, ConnTyped, ConnStates
  <2>. QED  BY <1>1, <1>3, <2>1, <2>2, <2>3 DEF SocketOk
<1>. QED  BY <1>4, <1>5, <1>6, <1>7

\* handleDisconnected, for a socket that has just been closed.
LEMMA DisconnectedKeeps ==
    ASSUME ConnInv, NEW s \in DOMAIN sock, sock[s] # "closed",
           NEW why \in Reasons, NEW failed \in {s, None},
           sock' = [sock EXCEPT ![s] = "closed"], ref' = None,
           HandleDisconnected(why, failed),
           failed = s => why = "connect_error" /\ sock[s] \in {"opening", "abandoned"},
           failed = None => sock[s] \in {"open", "closing"},
           UNCHANGED <<byClient, paused, disposed, explicit, raced>>
    PROVE  ConnInv'
<1>. USE DEF ConnInv
<1> DEFINE effective == IF why = "client" /\ override # None THEN override ELSE why
           h == [why |-> effective, failed |-> failed]
<1>1. effective \in Reasons /\ (failed = s => effective = "connect_error") /\ s # None
  BY ConnAssumption DEF ConnTyped, Reasons
<1>2. PICK n \in 0..MaxSockets : sock \in [1..n -> Socket]
  BY DEF ConnTyped
<1>3. sock' \in [1..n -> Socket] /\ DOMAIN sock' = DOMAIN sock /\ sock'[s] = "closed"
      /\ \A t \in DOMAIN sock : t # s => sock'[t] = sock[t]
  BY <1>2 DEF Socket
<1>4. override' = None /\ ctx' = FALSE
  BY DEF HandleDisconnected
<1>5. CASE connState = "disconnected" /\ (~ctx \/ failed # None) /\ reason = effective
  <2>1. /\ attempt' = IF failed # None THEN None ELSE attempt
        /\ Become(IF failed # None THEN AttemptSettled(Running, connState, reason) ELSE Running)
        /\ UNCHANGED <<connState, reason, hooks>>
    BY <1>5 DEF HandleDisconnected
  <2>2. ConnTyped'
    BY <1>3, <1>4, <2>1 DEF ConnTyped
  <2>3. SocketsFollowState'
    <3>1. ~raced /\ ~disposed => FALSE
      BY <1>1, <1>5 DEF SocketsFollowState, SocketOk
    <3>. QED  BY <3>1 DEF SocketsFollowState
  <2>4. LoopsOk(Running)' /\ LoopsFollowAttempt' /\ LoopsAlone' /\ NeverStuck'
    <3>1. CASE failed # None
      <4>1. Bundle(Running) /\ (~raced => SingleLoop(Running)) /\ Running.loops = loops
        BY DEF Bundle, Running, LoopsAlone
      <4>2. /\ LoopsOk(Running)' /\ LoopsFollowAttempt' /\ LoopsAlone'
            /\ \A l \in DOMAIN loops' : ~loops'[l].aborted
            /\ LoopGoesOn(connState, reason) => \A l \in DOMAIN loops : ~loops[l].aborted => l \in DOMAIN loops'
        BY <1>5, <2>1, <3>1, <4>1, SettledFollows
      <4>3. NeverStuck'
        BY <1>5, <2>1, <4>2 DEF NeverStuck, Live, LoopGoesOn
      <4>. QED  BY <4>2, <4>3
    <3>2. CASE failed = None
      <4>1. UNCHANGED <<loops, promise, controller, attempt>>
        BY <2>1, <3>2 DEF Become, Running
      <4>. QED  BY <2>1, <4>1 DEF LoopsOk, Running, LoopsFollowAttempt, LoopsAlone, SingleLoop, NeverStuck, Live
    <3>. QED  BY <3>1, <3>2
  <2>. QED  BY <2>2, <2>3, <2>4
<1>6. CASE ~(connState = "disconnected" /\ (~ctx \/ failed # None) /\ reason = effective)
  <2>1. /\ connState' = "disconnected" /\ reason' = effective /\ hooks' = hooks \cup {h}
        /\ UNCHANGED <<attempt, loops, promise, controller>>
    BY <1>6 DEF HandleDisconnected
  <2>2. h.why = effective /\ h.failed = failed /\ h = [why |-> h.why, failed |-> h.failed] /\ h \in hooks'
    BY <2>1
  <2> HIDE DEF effective, h
  <2>3. ConnTyped'
    <3>1. connState' \in ConnStates
      BY <2>1 DEF ConnStates
    <3>2. \A g \in hooks' : /\ g = [why |-> g.why, failed |-> g.failed]
                            /\ g.why \in Reasons /\ g.failed \in DOMAIN sock' \cup {None}
                            /\ g.failed # None => g.why = "connect_error"
      BY <1>1, <1>3, <2>1, <2>2 DEF ConnTyped
    <3>. QED  BY <1>1, <1>3, <1>4, <2>1, <3>1, <3>2 DEF ConnTyped
  <2>4. LoopsOk(Running)' /\ LoopsFollowAttempt' /\ LoopsAlone'
    BY <2>1 DEF LoopsOk, Running, LoopsFollowAttempt, LoopsAlone, SingleLoop
  <2>5. NeverStuck'
    BY <2>1, <2>2 DEF NeverStuck
  <2>6. SocketsFollowState'
    <3>. SUFFICES ASSUME ~raced', ~disposed' PROVE SocketOk'
      BY DEF SocketsFollowState
    <3>1. SocketOk /\ s = ref
      BY DEF SocketsFollowState, SocketOk
    <3>2. /\ failed = s => attempt = s /\ connState = "connecting"
          /\ failed = None => attempt = None /\ connState \in {"connected", "disconnecting"}
      BY <1>1, <3>1 DEF SocketOk, ConnTyped, ConnStates, LoopsFollowAttempt
    <3>3. \A g \in hooks : g.failed = None
      BY <3>1, <3>2 DEF SocketOk
    <3>. QED  BY <1>3, <2>1, <2>2, <3>1, <3>2, <3>3 DEF SocketOk
  <2>. QED  BY <2>3, <2>4, <2>5, <2>6
<1>. QED  BY <1>5, <1>6

\* The close event of a socket, opened or not.
LEMMA ClosesKeeps == ConnInv /\ (\E s \in DOMAIN sock : SocketFails(s) \/ SocketCloses(s)) => ConnInv'
<1>. SUFFICES ASSUME ConnInv, NEW s \in DOMAIN sock, SocketFails(s) \/ SocketCloses(s) PROVE ConnInv'
  OBVIOUS
<1>0. s # None
  BY ConnAssumption DEF ConnInv, ConnTyped
<1>1. CASE SocketFails(s)
  <2>1. "connect_error" \in Reasons
    BY DEF Reasons
  <2>. QED  BY <1>0, <1>1, <2>1, DisconnectedKeeps DEF SocketFails
<1>2. CASE SocketCloses(s)
  <2> DEFINE why == IF byClient \/ sock[s] = "closing" THEN "client" ELSE "server"
  <2>1. why \in Reasons /\ HandleDisconnected(why, None)
    BY <1>2 DEF Reasons, SocketCloses
  <2> HIDE DEF why
  <2>. QED  BY <1>0, <1>2, <2>1, DisconnectedKeeps DEF SocketCloses
<1>. QED  BY <1>1, <1>2
\* A loop is started, or none: by the hooks' end or the browser plugin.
LEMMA StartedFollows ==
    ASSUME ConnInv, NEW st, NEW why, Become(EnsureReconnectLoop(st, why)), st = connState,
           UNCHANGED <<connState, attempt, disposed, explicit, raced>>
    PROVE  /\ LoopsOk(Running)' /\ LoopsFollowAttempt' /\ LoopsAlone'
           /\ \A k \in DOMAIN loops : k \in DOMAIN loops' /\ loops'[k] = loops[k]
           /\ LoopGoesOn(st, why) => \E k \in DOMAIN loops' : ~loops'[k].aborted
<1> DEFINE e == EnsureReconnectLoop(st, why)
<1>1. /\ Bundle(e) /\ LoopsOk(e)
      /\ ~raced => SingleLoop(e)
      /\ \A k \in DOMAIN loops : k \in DOMAIN e.loops /\ e.loops[k] = loops[k]
      /\ \A k \in DOMAIN e.loops \ DOMAIN loops : e.loops[k].pc = "sleep" /\ ~e.loops[k].aborted
      /\ LoopGoesOn(st, why) => \E k \in DOMAIN e.loops : ~e.loops[k].aborted
      /\ ~LoopGoesOn(st, why) => e = Running
  BY EnsureKeeps
<1> HIDE DEF e
<1>2. LoopsOk(Running)' /\ Running' = e /\ loops' = e.loops
  BY <1>1, BecomeKeeps DEF e
<1>3. LoopsFollowAttempt'
  BY <1>1, <1>2 DEF ConnInv, LoopsFollowAttempt
<1>4. LoopsAlone'
  <2>1. connState = "disconnecting" => loops' = loops
    BY <1>1, <1>2 DEF LoopGoesOn, Running
  <2>. QED  BY <1>1, <1>2, <2>1 DEF ConnInv, LoopsAlone, SingleLoop
<1>. QED  BY <1>1, <1>2, <1>3, <1>4

\* The hooks of a disconnect have ended, and with them a failed attempt.
LEMMA HooksEndKeeps == ConnInv /\ (\E h \in hooks : HooksEnd(h)) => ConnInv'
<1>. SUFFICES ASSUME ConnInv, NEW h \in hooks, HooksEnd(h) PROVE ConnInv'
  OBVIOUS
<1> DEFINE e == ReconnectAfter(h)
<1>1. /\ hooks' = hooks \ {h}
      /\ UNCHANGED <<connState, reason, override, ctx, sock, ref, byClient, paused, disposed, explicit, raced>>
  BY DEF HooksEnd
<1>2. CASE h.failed # None
  <2>1. attempt' = None /\ Become(AttemptSettled(e, connState, reason))
    BY <1>2 DEF HooksEnd
  <2>2. /\ Bundle(e) /\ LoopsOk(e)
        /\ ~raced => SingleLoop(e)
        /\ \A k \in DOMAIN loops : k \in DOMAIN e.loops /\ e.loops[k] = loops[k]
        /\ ~disposed /\ h.why # "client" /\ LoopGoesOn(connState, reason) =>
              \E k \in DOMAIN e.loops : ~e.loops[k].aborted
        /\ connState = "disconnecting" => e = Running
    <3>1. CASE ~disposed /\ h.why # "client"
      <4>1. e = EnsureReconnectLoop(connState, reason)
        BY <3>1 DEF ReconnectAfter
      <4>2. connState = "disconnecting" => ~LoopGoesOn(connState, reason)
        BY DEF LoopGoesOn
      <4> HIDE DEF e
      <4>. QED  BY <4>1, <4>2, EnsureKeeps
    <3>2. CASE ~(~disposed /\ h.why # "client")
      <4>1. e = Running
        BY <3>2 DEF ReconnectAfter
      <4> HIDE DEF e
      <4>. QED  BY <3>2, <4>1 DEF ConnInv, Bundle, Running, LoopsAlone
    <3>. QED  BY <3>1, <3>2
  <2> HIDE DEF e
  <2>3. /\ LoopsOk(Running)' /\ LoopsFollowAttempt' /\ LoopsAlone'
        /\ \A l \in DOMAIN loops' : ~loops'[l].aborted
        /\ LoopGoesOn(connState, reason) => \A l \in DOMAIN e.loops : ~e.loops[l].aborted => l \in DOMAIN loops'
    <3>1. connState' = "disconnecting" /\ ~raced /\ ~disposed => DOMAIN e.loops = {}
      BY <1>1, <2>2 DEF ConnInv, LoopsAlone, Running
    <3>. QED  BY <1>1, <2>1, <2>2, <3>1, SettledFollows
  <2>4. ConnTyped'
    BY <1>1, <2>1 DEF ConnInv, ConnTyped
  <2>5. NeverStuck'
    <3>. SUFFICES ASSUME connState = "disconnected", reason # "client", ~disposed,
                         \A g \in hooks \ {h} : g.why = "client"
                  PROVE  \E l \in DOMAIN loops' : ~loops'[l].aborted
      BY <1>1 DEF NeverStuck, Live
    <3>1. LoopGoesOn(connState, reason)
      BY DEF LoopGoesOn
    <3>2. \E k \in DOMAIN e.loops : ~e.loops[k].aborted
      BY <2>2, <3>1 DEF ConnInv, NeverStuck, Live
    <3>. QED  BY <2>3, <3>1, <3>2
  <2>6. SocketsFollowState'
    <3>. SUFFICES ASSUME ~raced, ~disposed PROVE SocketOk'
      BY <1>1 DEF SocketsFollowState
    <3>1. SocketOk
      BY DEF ConnInv, SocketsFollowState
    <3>2. connState = "disconnected" /\ attempt = h.failed
      BY <1>2, <3>1 DEF SocketOk
    <3>3. \A g \in hooks' : g.failed = None
      <4>1. ASSUME NEW g \in hooks, g.failed # None PROVE g = h
        <5>1. g.failed = h.failed
          BY <3>1, <3>2, <4>1 DEF SocketOk
        <5>2. g.why = h.why
          BY <1>2, <4>1 DEF ConnInv, ConnTyped
        <5>3. g = [why |-> g.why, failed |-> g.failed] /\ h = [why |-> h.why, failed |-> h.failed]
          BY DEF ConnInv, ConnTyped
        <5>. QED  BY <5>1, <5>2, <5>3
      <4>. QED  BY <1>1, <4>1
    <3>. QED  BY <1>1, <2>1, <3>1, <3>2, <3>3 DEF SocketOk
  <2>. QED  BY <2>3, <2>4, <2>5, <2>6 DEF ConnInv
<1>3. CASE h.failed = None
  <2>1. attempt' = attempt /\ Become(e)
    BY <1>3 DEF HooksEnd
  <2>2. /\ LoopsOk(Running)' /\ LoopsFollowAttempt' /\ LoopsAlone'
        /\ \A k \in DOMAIN loops : k \in DOMAIN loops' /\ loops'[k] = loops[k]
        /\ ~disposed /\ h.why # "client" /\ LoopGoesOn(connState, reason) =>
              \E k \in DOMAIN loops' : ~loops'[k].aborted
    <3>1. CASE ~disposed /\ h.why # "client"
      <4>1. e = EnsureReconnectLoop(connState, reason)
        BY <3>1 DEF ReconnectAfter
      <4> HIDE DEF e
      <4>. QED  BY <1>1, <2>1, <4>1, StartedFollows
    <3>2. CASE ~(~disposed /\ h.why # "client")
      <4>1. UNCHANGED <<loops, promise, controller>>
        BY <2>1, <3>2 DEF ReconnectAfter, Become, Running
      <4>. QED  BY <1>1, <2>1, <3>2, <4>1
              DEF ConnInv, LoopsOk, Running, LoopsFollowAttempt, LoopsAlone, SingleLoop
    <3>. QED  BY <3>1, <3>2
  <2> HIDE DEF e
  <2>3. ConnTyped'
    BY <1>1, <2>1 DEF ConnInv, ConnTyped
  <2>4. NeverStuck'
    BY <1>1, <2>2 DEF ConnInv, NeverStuck, Live, LoopGoesOn
  <2>5. SocketsFollowState'
    <3>. SUFFICES ASSUME ~raced, ~disposed PROVE SocketOk'
      BY <1>1 DEF SocketsFollowState
    <3>1. SocketOk
      BY DEF ConnInv, SocketsFollowState
    <3>. QED  BY <1>1, <1>3, <2>1, <3>1 DEF SocketOk
  <2>. QED  BY <2>2, <2>3, <2>4, <2>5 DEF ConnInv
<1>. QED  BY <1>2, <1>3

\* disconnect, by the application or by a heartbeat that timed out: unless
\* it overtook another call, it leaves no loop behind.
LEMMA DisconnectKeeps == ConnInv /\ (Disconnect \/ HeartbeatTimesOut) => ConnInv'
<1>. SUFFICES ASSUME ConnInv, Disconnect \/ HeartbeatTimesOut PROVE ConnInv'
  OBVIOUS
<1>1. \E o \in {None, "heartbeat_timeout"} : DisconnectWith(o)
  BY DEF Disconnect, HeartbeatTimesOut, ConnInv, ConnTyped
<1>2. PICK o \in {None, "heartbeat_timeout"} : DisconnectWith(o)
  BY <1>1
<1>3. CancelReconnectLoop /\ UNCHANGED <<ref, attempt, paused, disposed>> /\ ~disposed
  BY <1>2 DEF DisconnectWith, Disconnect, HeartbeatTimesOut
<1>4. /\ LoopsOk(Running)' /\ promise' = None /\ controller' = None
      /\ DOMAIN loops' = {k \in DOMAIN loops : k # controller \/ loops[k].pc = "await"}
      /\ \A l \in DOMAIN loops' :
            /\ loops'[l].pc = loops[l].pc
            /\ loops'[l].aborted <=> loops[l].aborted \/ l = controller
  BY <1>3, CancelKeeps DEF ConnInv
<1>5. /\ raced' \in BOOLEAN /\ explicit' \in BOOLEAN
      /\ raced => raced'
      /\ ~raced' => attempt = None /\ connState # "disconnecting" /\ (connState = "connected" \/ hooks = {})
      /\ \/ explicit' /\ ~explicit
         \/ explicit' = explicit /\ attempt = None
  <2>1. raced \in BOOLEAN /\ explicit \in BOOLEAN /\ (connState = "connected" => attempt = None)
    BY DEF ConnInv, ConnTyped, LoopsFollowAttempt
  <2>2. CASE Disconnect
    BY <2>1, <2>2 DEF Disconnect
  <2>3. CASE HeartbeatTimesOut
    BY <2>1, <2>3 DEF HeartbeatTimesOut
  <2>. QED  BY <2>2, <2>3
<1>6. \/ /\ connState \in {"idle", "disconnected"}
         /\ reason' = "client" /\ connState' = "disconnected" /\ override' = o
         /\ UNCHANGED <<sock, byClient, ctx, hooks>>
      \/ /\ connState \notin {"idle", "disconnected"} /\ ref # None
         /\ connState' = "disconnecting" /\ override' = o
         /\ CloseSocket
         /\ UNCHANGED <<reason, ctx, hooks>>
      \/ /\ connState \notin {"idle", "disconnected"} /\ ref = None
         /\ connState' = "disconnected" /\ ctx' = FALSE /\ override' = None
         /\ reason' = (IF o = None THEN "client" ELSE o)
         /\ hooks' = hooks \cup {[why |-> reason', failed |-> None]}
         /\ UNCHANGED <<sock, byClient>>
  BY <1>2 DEF DisconnectWith
<1>7. LoopsFollowAttempt' /\ LoopsAlone'
  <2>1. connState' # "connected"
    BY <1>6
  <2>2. \A l \in DOMAIN loops : loops[l].pc = "await" => attempt # None
    BY DEF ConnInv, LoopsFollowAttempt
  <2>3. \A l \in DOMAIN loops' : loops'[l].aborted => explicit'
    BY <1>3, <1>4, <1>5, <2>2 DEF ConnInv, LoopsFollowAttempt
  <2>4. \A k, l \in DOMAIN loops' : loops'[k].aborted /\ loops'[l].aborted => k = l
    BY <1>3, <1>4, <1>5, <2>2 DEF ConnInv, LoopsFollowAttempt
  <2>5. ASSUME ~raced' PROVE DOMAIN loops' = {}
    <3>1. ~raced /\ attempt = None
      BY <1>5, <2>5
    <3>2. \A l \in DOMAIN loops : l = promise /\ l # None
      BY <1>3, <3>1, ConnAssumption DEF ConnInv, LoopsAlone, SingleLoop, Running, LoopsOk
    <3>3. \A l \in DOMAIN loops : l = controller
      BY <3>2 DEF ConnInv, LoopsOk, Running
    <3>. QED  BY <1>4, <2>2, <3>1, <3>3
  <2>. QED  BY <1>3, <1>4, <2>1, <2>2, <2>3, <2>4, <2>5 DEF LoopsFollowAttempt, LoopsAlone, SingleLoop, Running
<1>8. ConnTyped'
  <2>1. PICK n \in 0..MaxSockets : sock \in [1..n -> Socket]
    BY DEF ConnInv, ConnTyped
  <2>2. sock' \in [1..n -> Socket] /\ DOMAIN sock' = DOMAIN sock
    BY <1>6, <2>1 DEF CloseSocket, Socket
  <2>3. connState' \in ConnStates /\ reason' \in Reasons /\ override' \in {None, "heartbeat_timeout"}
    BY <1>6 DEF ConnInv, ConnTyped, ConnStates, Reasons
  <2>4. byClient' \in BOOLEAN /\ ctx' \in BOOLEAN
    BY <1>6 DEF ConnInv, ConnTyped, CloseSocket
  <2>5. \A g \in hooks' : /\ g = [why |-> g.why, failed |-> g.failed]
                          /\ g.why \in Reasons /\ g.failed \in DOMAIN sock' \cup {None}
                          /\ g.failed # None => g.why = "connect_error"
    BY <1>6, <2>2, <2>3 DEF ConnInv, ConnTyped
  <2>. QED  BY <1>3, <1>5, <2>2, <2>3, <2>4, <2>5 DEF ConnInv, ConnTyped
<1>9. NeverStuck'
  <2>1. ASSUME connState' = "disconnected", reason' # "client" PROVE \E g \in hooks' : g.why # "client"
    <3> DEFINE g == [why |-> reason', failed |-> None]
    <3>1. g \in hooks' /\ g.why = reason'
      BY <1>6, <2>1
    <3>. QED  BY <2>1, <3>1
  <2>. QED  BY <2>1 DEF NeverStuck
<1>10. SocketsFollowState'
  <2>. SUFFICES ASSUME ~raced', ~disposed' PROVE SocketOk'
    BY DEF SocketsFollowState
  <2>1. SocketOk /\ attempt = None /\ connState # "disconnecting" /\ (connState = "connected" \/ hooks = {})
    BY <1>3, <1>5 DEF ConnInv, SocketsFollowState
  <2>2. connState \in {"idle", "disconnected", "connected"}
    BY <2>1 DEF SocketOk, ConnInv, ConnTyped, ConnStates
  <2>3. CASE connState \in {"idle", "disconnected"}
    BY <1>3, <1>6, <2>1, <2>3 DEF SocketOk
  <2>4. CASE connState = "connected"
    <3>1. ref # None /\ sock[ref] = "open" /\ \A g \in hooks : g.failed = None
      BY <2>1, <2>4 DEF SocketOk
    <3>2. connState' = "disconnecting" /\ UNCHANGED <<ctx, hooks>> /\ CloseSocket
      BY <1>6, <2>4, <3>1
    <3>3. /\ DOMAIN sock' = DOMAIN sock /\ sock'[ref] = "closing"
          /\ \A t \in DOMAIN sock : t # ref => sock'[t] = sock[t]
      BY <3>1, <3>2 DEF CloseSocket, ConnInv, ConnTyped
    <3>. QED  BY <1>3, <2>1, <3>1, <3>2, <3>3 DEF SocketOk
  <2>. QED  BY <2>2, <2>3, <2>4
<1>. QED  BY <1>4, <1>7, <1>8, <1>9, <1>10 DEF ConnInv

\* dispose: what is left of the loops is aborted.
LEMMA DisposeKeeps == ConnInv /\ Dispose => ConnInv'
<1>. SUFFICES ASSUME ConnInv, Dispose PROVE ConnInv'
  OBVIOUS
<1>1. /\ ~disposed /\ disposed' = TRUE /\ ctx' = FALSE /\ CancelReconnectLoop
      /\ UNCHANGED <<connState, reason, override, ref, attempt, hooks, paused, explicit, raced>>
      /\ UNCHANGED <<sock, byClient>> \/ CloseSocket
  BY DEF Dispose
<1>2. /\ LoopsOk(Running)' /\ promise' = None /\ controller' = None
      /\ DOMAIN loops' = {k \in DOMAIN loops : k # controller \/ loops[k].pc = "await"}
      /\ \A l \in DOMAIN loops' :
            /\ loops'[l].pc = loops[l].pc
            /\ loops'[l].aborted <=> loops[l].aborted \/ l = controller
  BY <1>1, CancelKeeps DEF ConnInv
<1>3. LoopsFollowAttempt'
  BY <1>1, <1>2 DEF ConnInv, LoopsFollowAttempt
<1>4. LoopsAlone'
  <2>1. ASSUME ~raced PROVE \A l \in DOMAIN loops : l = controller
    BY <1>1, <2>1, ConnAssumption DEF ConnInv, LoopsAlone, SingleLoop, Running, LoopsOk
  <2>. QED  BY <1>1, <1>2, <2>1 DEF LoopsAlone, SingleLoop, Running
<1>5. ConnTyped'
  <2>1. PICK n \in 0..MaxSockets : sock \in [1..n -> Socket]
    BY DEF ConnInv, ConnTyped
  <2>2. sock' \in [1..n -> Socket] /\ DOMAIN sock' = DOMAIN sock
    BY <1>1, <2>1 DEF CloseSocket, Socket
  <2>3. byClient' \in BOOLEAN
    BY <1>1 DEF ConnInv, ConnTyped, CloseSocket
  <2>. QED  BY <1>1, <2>2, <2>3 DEF ConnInv, ConnTyped
<1>. QED  BY <1>1, <1>2, <1>3, <1>4, <1>5 DEF ConnInv, NeverStuck, SocketsFollowState

\* The browser plugin's steps.
LEMMA BrowserKeeps == ConnInv /\ (TriggerReconnect \/ \E b \in BOOLEAN : SetPaused(b)) => ConnInv'
<1>. SUFFICES ASSUME ConnInv, TriggerReconnect \/ \E b \in BOOLEAN : SetPaused(b) PROVE ConnInv'
  OBVIOUS
<1>1. CASE TriggerReconnect
  <2>1. /\ Become(EnsureReconnectLoop(connState, reason))
        /\ UNCHANGED <<connState, reason, override, ctx, sock, ref, byClient, attempt, hooks, paused,
                       disposed, explicit, raced>>
    BY <1>1 DEF TriggerReconnect
  <2>2. /\ LoopsOk(Running)' /\ LoopsFollowAttempt' /\ LoopsAlone'
        /\ \A k \in DOMAIN loops : k \in DOMAIN loops' /\ loops'[k] = loops[k]
    BY <2>1, StartedFollows
  <2>3. ConnTyped' /\ SocketsFollowState'
    BY <2>1 DEF ConnInv, ConnTyped, SocketsFollowState, SocketOk
  <2>4. NeverStuck'
    BY <2>1, <2>2 DEF ConnInv, NeverStuck, Live
  <2>. QED  BY <2>2, <2>3, <2>4 DEF ConnInv
<1>2. CASE \E b \in BOOLEAN : SetPaused(b)
  <2>1. /\ paused' \in BOOLEAN
        /\ UNCHANGED <<connState, reason, override, ctx, sock, ref, byClient, attempt, loops, promise,
                       controller, hooks, disposed, explicit, raced>>
    BY <1>2 DEF SetPaused
  <2>2. ConnTyped' /\ SocketsFollowState'
    BY <2>1 DEF ConnInv, ConnTyped, SocketsFollowState, SocketOk
  <2>3. LoopsOk(Running)' /\ LoopsFollowAttempt' /\ LoopsAlone' /\ NeverStuck'
    BY <2>1 DEF ConnInv, LoopsOk, Running, LoopsFollowAttempt, LoopsAlone, SingleLoop, NeverStuck, Live
  <2>. QED  BY <2>2, <2>3 DEF ConnInv
<1>. QED  BY <1>1, <1>2

\* A client that may reconnect always will: it has a reconnect loop or is
\* about to start one.  Unless a call overtook another it never has two
\* loops, and while it is connected it has a message context and its
\* transport the only open socket (core.ts, ws.ts and the reconnect
\* plugin).
THEOREM ClientsReconnect == ConnSpec => []ConnectionSound
<1>1. ConnInit => ConnInv
  <2>. SUFFICES ASSUME ConnInit PROVE ConnInv
    OBVIOUS
  <2>. USE DEF ConnInit
  <2>1. ConnTyped
    <3>1. sock \in [1..0 -> Socket] /\ 0 \in 0..MaxSockets
      BY ConnAssumption
    <3>. QED  BY <3>1 DEF ConnTyped, ConnStates, Reasons
  <2>2. DOMAIN loops = {} /\ loops \in [DOMAIN loops -> Loop] /\ DOMAIN sock = {}
    OBVIOUS
  <2>3. LoopsOk(Running) /\ LoopsFollowAttempt /\ NeverStuck /\ LoopsAlone
    BY <2>2 DEF LoopsOk, Running, LoopsFollowAttempt, NeverStuck, LoopsAlone, SingleLoop
  <2>4. SocketsFollowState
    BY <2>2 DEF SocketsFollowState, SocketOk
  <2>. QED  BY <2>1, <2>3, <2>4 DEF ConnInv
<1>2. ConnInv /\ [ConnNext]_connVars => ConnInv'
  <2>. SUFFICES ASSUME ConnInv, [ConnNext]_connVars PROVE ConnInv'
    OBVIOUS
  <2>1. CASE UNCHANGED connVars
    BY <2>1 DEF connVars, ConnInv, ConnTyped, LoopsOk, Running, LoopsFollowAttempt, NeverStuck, Live,
                LoopsAlone, SingleLoop, SocketsFollowState, SocketOk
  <2>. QED  BY <2>1, ConnectKeeps, LoopWakesKeeps, OpensKeeps, ClosesKeeps, HooksEndKeeps, DisconnectKeeps,
               DisposeKeeps, BrowserKeeps DEF ConnNext
<1>3. ConnInv => ConnectionSound
  <2>. SUFFICES ASSUME ConnInv PROVE ConnectionSound
    OBVIOUS
  <2>1. ConnTypeOK
    BY DEF ConnInv, ConnTyped, ConnTypeOK, Socket, LoopsOk, Running
  <2>2. OneReconnectLoop
    <3> DEFINE D == {l \in DOMAIN loops : Live(l)}
    <3>. SUFFICES ASSUME ~raced PROVE Cardinality(D) <= 1
      BY DEF OneReconnectLoop
    <3>1. \A l \in D : l = promise
      BY DEF ConnInv, LoopsAlone, SingleLoop, Running, Live
    <3>2. D = {} \/ D = {promise}
      BY <3>1
    <3> HIDE DEF D
    <3>3. CASE D = {}
      BY <3>3, FS_EmptySet
    <3>4. CASE D = {promise}
      BY <3>4, FS_Singleton
    <3>. QED  BY <3>2, <3>3, <3>4
  <2>3. ConnectedIsUsable
    BY ConnAssumption DEF ConnInv, ConnectedIsUsable, SocketsFollowState, SocketOk
  <2>. QED  BY <2>1, <2>2, <2>3 DEF ConnectionSound, ConnInv
<1>. QED  BY <1>1, <1>2, <1>3, PTL DEF ConnSpec

-----------------------------------------------------------------------------
(* Calls over the link.                                                    *)

UpFrames == {f \in [type : {"Rpc", "RpcAbort", "RpcStreamPull", "Pong"}, call : Calls \cup {NoCall}, size : Nat] :
                f.type = "Pong" \/ f.call \in Calls}
Answers == {"RpcResponse", "RpcStreamResponse", "RpcStreamChunk", "RpcStreamEnd", "RpcStreamAbort"}
DownFrames == {f \in [type : Answers \cup {"Ping"}, call : Calls \cup {NoCall}, size : Nat] :
                  f.type = "Ping" \/ f.call \in Calls}
Reader == [initial : BOOLEAN, untilRefill : Nat \ {0}, reading : BOOLEAN, buffered : Nat]

RpcTyped ==
    /\ call \in [Calls -> {"idle", "pending", "streaming", "draining", "settled"}]
    /\ srv \in [Calls -> {"idle", "running", "stream", "done"}]
    /\ credits \in [Calls -> Nat] /\ made \in [Calls -> 0..MaxChunks]
    /\ reader \in [Calls -> Reader]
    /\ up \in Seq(UpFrames) /\ down \in Seq(DownFrames)

\* A frame of call c, of a type in T; its place among the others.
IsOf(f, T, c) == f.call = c /\ f.type \in T

Has(q, T, c) == \E i \in DOMAIN q : IsOf(q[i], T, c)

Preceded(q, T, u, c) ==
    \A i \in DOMAIN q : IsOf(q[i], T, c) => \E j \in DOMAIN q : j < i /\ IsOf(q[j], {u}, c)

Followed(q, t, u, c) ==
    \A i \in DOMAIN q : IsOf(q[i], {t}, c) => \E j \in DOMAIN q : j > i /\ IsOf(q[j], {u}, c)

Once(q, t, c) == \A i, j \in DOMAIN q : IsOf(q[i], {t}, c) /\ IsOf(q[j], {t}, c) => i = j

Finals == {"RpcResponse", "RpcStreamEnd", "RpcStreamAbort"}
OfStream == {"RpcStreamChunk", "RpcStreamEnd", "RpcStreamAbort"}

\* The two ends of a call agree as far as frames under way allow.
EndsAgree(c) ==
    /\ call[c] = "idle" => srv[c] = "idle" /\ ~Has(up, {"Rpc", "RpcAbort"}, c)
    /\ srv[c] = "idle" /\ call[c] # "idle" => Has(up, {"Rpc"}, c)
    /\ call[c] = "streaming" => srv[c] \in {"stream", "done"}
    /\ call[c] = "draining" => srv[c] = "done"

\* The request is sent once and before its abort; of a call that is over
\* at the client alone the abort is on its way or was heard.
UpOrdered(c) ==
    /\ Once(up, "Rpc", c)
    /\ Has(up, {"Rpc"}, c) => srv[c] = "idle"
    /\ srv[c] = "idle" => Preceded(up, {"RpcAbort"}, "Rpc", c)
    /\ call[c] = "settled" => Followed(up, "Rpc", "RpcAbort", c)
    /\ call[c] = "settled" /\ srv[c] \in {"running", "stream"} /\ c \notin signal => Has(up, {"RpcAbort"}, c)

\* The response comes first, alone or with a stream behind it, and the
\* last frame of a call comes with its end at the server.
DownOrdered(c) ==
    /\ srv[c] \in {"idle", "running"} => ~Has(down, Answers, c)
    /\ Has(down, Finals, c) => srv[c] = "done"
    /\ Has(down, {"RpcResponse"}, c) => call[c] \in {"pending", "settled"} /\ ~Has(down, {"RpcStreamResponse"}, c)
    /\ call[c] = "pending" => Preceded(down, OfStream, "RpcStreamResponse", c)
    /\ call[c] = "pending" /\ srv[c] = "stream" => Has(down, {"RpcStreamResponse"}, c)
    /\ call[c] \in {"pending", "streaming"} /\ srv[c] = "done" /\ c \notin unheard => Has(down, Finals, c)

RpcInv == RpcTyped /\ (Connected => \A c \in Calls : EndsAgree(c) /\ UpOrdered(c) /\ DownOrdered(c))
\* A frame is added at the end of a queue.
LEMMA Added ==
    ASSUME NEW F, NEW q \in Seq(F), NEW f \in F
    PROVE  LET p == Append(q, f)
           IN  /\ p \in Seq(F)
               /\ \A T, c : Has(p, T, c) <=> Has(q, T, c) \/ IsOf(f, T, c)
               /\ \A T, u, c : Preceded(q, T, u, c) /\ (Has(q, {u}, c) \/ ~IsOf(f, T, c)) => Preceded(p, T, u, c)
               /\ \A t, u, c : Followed(q, t, u, c) /\ ~IsOf(f, {t}, c) => Followed(p, t, u, c)
               /\ \A t, u, c : t # u /\ IsOf(f, {u}, c) => Followed(p, t, u, c)
               /\ \A t, c : Once(q, t, c) /\ (~Has(q, {t}, c) \/ ~IsOf(f, {t}, c)) => Once(p, t, c)
<1> DEFINE p == Append(q, f)
           n == Len(q)
<1>1. n \in Nat /\ DOMAIN q = 1..n /\ p \in Seq(F) /\ DOMAIN p = 1..(n + 1)
  OBVIOUS
<1>2. p[n + 1] = f /\ \A i \in 1..n : p[i] = q[i]
  OBVIOUS
<1> HIDE DEF p, n
<1>3. \A i \in DOMAIN p : i \in DOMAIN q \/ i = n + 1
  BY <1>1
<1>4. n + 1 \in DOMAIN p /\ \A i \in DOMAIN q : i \in DOMAIN p /\ i < n + 1 /\ p[i] = q[i]
  BY <1>1, <1>2
<1>5. \A T, c : Has(p, T, c) <=> Has(q, T, c) \/ IsOf(f, T, c)
  BY <1>2, <1>3, <1>4 DEF Has
<1>6. \A T, u, c : Preceded(q, T, u, c) /\ (Has(q, {u}, c) \/ ~IsOf(f, T, c)) => Preceded(p, T, u, c)
  BY <1>2, <1>3, <1>4 DEF Has, Preceded
<1>7. \A t, u, c : Followed(q, t, u, c) /\ ~IsOf(f, {t}, c) => Followed(p, t, u, c)
  BY <1>2, <1>3, <1>4 DEF Followed
<1>8. \A t, u, c : t # u /\ IsOf(f, {u}, c) => Followed(p, t, u, c)
  <2>1. ASSUME NEW t, NEW u, NEW c, t # u, IsOf(f, {u}, c) PROVE Followed(p, t, u, c)
    <3>1. ~IsOf(f, {t}, c)
      BY <2>1 DEF IsOf
    <3>. QED  BY <1>1, <1>2, <1>3, <1>4, <2>1, <3>1 DEF Followed
  <2>. QED  BY <2>1
<1>9. \A t, c : Once(q, t, c) /\ (~Has(q, {t}, c) \/ ~IsOf(f, {t}, c)) => Once(p, t, c)
  BY <1>2, <1>3, <1>4 DEF Has, Once
<1>. QED  BY <1>1, <1>5, <1>6, <1>7, <1>8, <1>9 DEF p

\* The first frame of a queue is taken.
LEMMA Taken ==
    ASSUME NEW F, NEW q \in Seq(F), q # <<>>
    PROVE  LET p == Tail(q)
               f == Head(q)
           IN  /\ p \in Seq(F) /\ f \in F
               /\ \A T, c : Has(q, T, c) <=> Has(p, T, c) \/ IsOf(f, T, c)
               /\ \A T, u, c : Preceded(q, T, u, c) => ~IsOf(f, T, c)
               /\ \A T, u, c : Preceded(q, T, u, c) /\ ~IsOf(f, {u}, c) => Preceded(p, T, u, c)
               /\ \A t, u, c : Followed(q, t, u, c) => Followed(p, t, u, c)
               /\ \A t, u, c : Followed(q, t, u, c) /\ IsOf(f, {t}, c) => Has(p, {u}, c)
               /\ \A t, c : Once(q, t, c) => Once(p, t, c)
               /\ \A t, c : Once(q, t, c) /\ IsOf(f, {t}, c) => ~Has(p, {t}, c)
<1> DEFINE p == Tail(q)
           f == Head(q)
           n == Len(q)
<1>1. /\ n \in Nat \ {0} /\ DOMAIN q = 1..n /\ p \in Seq(F) /\ f \in F
      /\ DOMAIN p = 1..(n - 1)
  OBVIOUS
<1>2. f = q[1] /\ \A i \in 1..(n - 1) : p[i] = q[i + 1]
  OBVIOUS
<1> HIDE DEF p, f, n
<1>3. \A i \in DOMAIN q : i = 1 \/ (i - 1 \in DOMAIN p /\ p[i - 1] = q[i])
  <2>1. ASSUME NEW i \in DOMAIN q, i # 1 PROVE i - 1 \in 1..(n - 1) /\ (i - 1) + 1 = i
    BY <1>1, <2>1
  <2>. QED  BY <1>1, <1>2, <2>1
<1>4. 1 \in DOMAIN q /\ \A i \in DOMAIN p : i \in Nat /\ i + 1 \in DOMAIN q /\ p[i] = q[i + 1] /\ i + 1 # 1
  BY <1>1, <1>2
<1>5. \A T, c : Has(q, T, c) <=> Has(p, T, c) \/ IsOf(f, T, c)
  BY <1>2, <1>3, <1>4 DEF Has
<1>6. \A T, u, c : Preceded(q, T, u, c) => ~IsOf(f, T, c)
  BY <1>1, <1>2, <1>4 DEF Preceded
<1>7. ASSUME NEW T, NEW u, NEW c, Preceded(q, T, u, c), ~IsOf(f, {u}, c) PROVE Preceded(p, T, u, c)
  <2>. SUFFICES ASSUME NEW i \in DOMAIN p, IsOf(p[i], T, c) PROVE \E j \in DOMAIN p : j < i /\ IsOf(p[j], {u}, c)
    BY DEF Preceded
  <2>1. PICK k \in DOMAIN q : k < i + 1 /\ IsOf(q[k], {u}, c)
    BY <1>4, <1>7 DEF Preceded
  <2>2. k # 1
    BY <1>2, <1>7, <2>1
  <2>3. k - 1 \in DOMAIN p /\ p[k - 1] = q[k] /\ k - 1 < i
    BY <1>1, <1>3, <1>4, <2>1, <2>2
  <2>. QED  BY <2>1, <2>3
<1>8. ASSUME NEW t, NEW u, NEW c, Followed(q, t, u, c) PROVE Followed(p, t, u, c)
  <2>. SUFFICES ASSUME NEW i \in DOMAIN p, IsOf(p[i], {t}, c) PROVE \E j \in DOMAIN p : j > i /\ IsOf(p[j], {u}, c)
    BY DEF Followed
  <2>1. PICK k \in DOMAIN q : k > i + 1 /\ IsOf(q[k], {u}, c)
    BY <1>4, <1>8 DEF Followed
  <2>2. k - 1 \in DOMAIN p /\ p[k - 1] = q[k] /\ k - 1 > i
    BY <1>1, <1>3, <1>4, <2>1
  <2>. QED  BY <2>1, <2>2
<1>9. ASSUME NEW t, NEW u, NEW c, Followed(q, t, u, c), IsOf(f, {t}, c) PROVE Has(p, {u}, c)
  <2>1. PICK k \in DOMAIN q : k > 1 /\ IsOf(q[k], {u}, c)
    BY <1>2, <1>4, <1>9 DEF Followed
  <2>. QED  BY <1>1, <1>3, <2>1 DEF Has
<1>10. ASSUME NEW t, NEW c, Once(q, t, c) PROVE Once(p, t, c)
  <2>. SUFFICES ASSUME NEW i \in DOMAIN p, NEW j \in DOMAIN p, IsOf(p[i], {t}, c), IsOf(p[j], {t}, c) PROVE i = j
    BY DEF Once
  <2>1. i + 1 = j + 1
    BY <1>4, <1>10 DEF Once
  <2>. QED  BY <1>4, <2>1
<1>11. \A t, c : Once(q, t, c) /\ IsOf(f, {t}, c) => ~Has(p, {t}, c)
  BY <1>2, <1>4 DEF Once, Has
<1>. QED  BY <1>1, <1>5, <1>6, <1>7, <1>8, <1>9, <1>10, <1>11 DEF p, f
\* The frames that are sent.
LEMMA FrameFacts ==
    /\ \A t, c, T, d : IsOf(Frame(t, c), T, d) <=> c = d /\ t \in T
    /\ \A c, n, T, d : IsOf(Pull(c, n), T, d) <=> c = d /\ "RpcStreamPull" \in T
    /\ \A c \in Calls : Frame("Rpc", c) \in UpFrames /\ Frame("RpcAbort", c) \in UpFrames
    /\ \A c \in Calls, n \in Nat : Pull(c, n) \in UpFrames
    /\ Frame("Pong", NoCall) \in UpFrames /\ Frame("Ping", NoCall) \in DownFrames
    /\ \A c \in Calls, t \in Answers : Frame(t, c) \in DownFrames
BY DEF IsOf, Frame, Pull, UpFrames, DownFrames, Answers

\* A frame of a type in S is one of a type in any larger set, and a queue
\* without frames of a type has none to be followed or preceded.
LEMMA HasFacts ==
    /\ \A q, S, T, c : S \subseteq T /\ Has(q, S, c) => Has(q, T, c)
    /\ \A f, S, T, c : S \subseteq T /\ IsOf(f, S, c) => IsOf(f, T, c)
    /\ \A q, t, u, c : ~Has(q, {t}, c) => Followed(q, t, u, c)
    /\ \A q, T, u, c : ~Has(q, T, c) => Preceded(q, T, u, c)
    /\ \A q, t, c : ~Has(q, {t}, c) => Once(q, t, c)
BY DEF Has, IsOf, Followed, Preceded, Once

\* A queue to which a frame is added, or none.
LEMMA QueueTyped ==
    ASSUME NEW F, NEW q \in Seq(F), NEW f \in F, NEW p, p = q \/ p = Append(q, f)
    PROVE  p \in Seq(F)
<1>1. CASE p = q
  BY <1>1
<1>2. CASE p = Append(q, f)
  BY <1>2
<1>. QED  BY <1>1, <1>2

\* A grant leaves a reader a reader, and grants a natural number.
LEMMA GrantTyped ==
    ASSUME NEW r \in Reader
    PROVE  Grant(r)[1] \in Nat /\ Grant(r)[2] \in Reader
<1>1. Refill \in Nat \ {0} /\ Window \in Nat
  BY RpcAssumption DEF Refill
<1>2. CASE r.initial
  BY <1>1, <1>2 DEF Grant, Reader
<1>3. CASE ~r.initial /\ r.untilRefill > 1
  <2> DEFINE k == r.untilRefill - 1
  <2>1. k \in Nat \ {0}
    BY <1>3 DEF Reader
  <2>2. Grant(r) = <<0, [r EXCEPT !.untilRefill = k]>>
    BY <1>3 DEF Grant
  <2> HIDE DEF k
  <2>. QED  BY <2>1, <2>2 DEF Reader
<1>4. CASE ~r.initial /\ ~(r.untilRefill > 1)
  BY <1>1, <1>4 DEF Grant, Reader
<1>. QED  BY <1>2, <1>3, <1>4

\* Types, for the steps of the client ...
LEMMA ClientTyped ==
    ASSUME RpcTyped,
           \/ \E c \in Calls : Call(c) \/ AbortCall(c) \/ Read(c) \/ ReadRest(c)
           \/ ClientReceives \/ ClientDisconnected
    PROVE  RpcTyped'
<1>. USE DEF RpcTyped
<1>1. ASSUME NEW c \in Calls, Call(c) PROVE RpcTyped'
  BY <1>1, FrameFacts DEF Call, ClientOnly
<1>2. ASSUME NEW c \in Calls, AbortCall(c) PROVE RpcTyped'
  BY <1>2, FrameFacts DEF AbortCall, ClientOnly
<1>3. ASSUME NEW c \in Calls, Read(c) PROVE RpcTyped'
  <2> DEFINE g == Grant(reader[c])
             r == IF g[2].buffered > 0 THEN [g[2] EXCEPT !.buffered = @ - 1] ELSE [g[2] EXCEPT !.reading = TRUE]
  <2>1. g[1] \in Nat /\ g[2] \in Reader
    BY GrantTyped
  <2>2. /\ reader' = [reader EXCEPT ![c] = r]
        /\ up' = (IF g[1] = 0 THEN up ELSE Append(up, Pull(c, g[1])))
        /\ UNCHANGED <<call, down, srv, credits, made>>
    BY <1>3 DEF Read, ClientOnly
  <2> HIDE DEF g
  <2>3. r \in Reader
    <3>1. CASE g[2].buffered > 0
      <4> DEFINE k == g[2].buffered - 1
      <4>1. k \in Nat
        BY <2>1, <3>1 DEF Reader
      <4>2. r = [g[2] EXCEPT !.buffered = k]
        BY <3>1
      <4> HIDE DEF k
      <4>. QED  BY <2>1, <4>1, <4>2 DEF Reader
    <3>2. CASE ~(g[2].buffered > 0)
      BY <2>1, <3>2 DEF Reader
    <3>. QED  BY <3>1, <3>2
  <2> HIDE DEF r
  <2>4. up' \in Seq(UpFrames)
    BY <2>1, <2>2, FrameFacts
  <2>. QED  BY <2>2, <2>3, <2>4
<1>4. ASSUME NEW c \in Calls, ReadRest(c) PROVE RpcTyped'
  <2>1. CASE reader[c].buffered = 0
    BY <1>4, <2>1 DEF ReadRest, ClientOnly
  <2>2. CASE reader[c].buffered # 0
    <3> DEFINE k == reader[c].buffered - 1
    <3>1. reader[c] \in Reader /\ k \in Nat
      BY <2>2 DEF Reader
    <3>2. reader' = [reader EXCEPT ![c] = [reader[c] EXCEPT !.buffered = k]]
      BY <1>4, <2>2 DEF ReadRest
    <3> HIDE DEF k
    <3>3. [reader[c] EXCEPT !.buffered = k] \in Reader
      BY <3>1 DEF Reader
    <3>4. reader' \in [Calls -> Reader]
      BY <3>2, <3>3
    <3>. QED  BY <1>4, <2>2, <3>4 DEF ReadRest, ClientOnly
  <2>. QED  BY <2>1, <2>2
<1>5. ASSUME ClientReceives PROVE RpcTyped'
  <2> DEFINE f == Head(down)
             c == f.call
  <2>1. down' \in Seq(DownFrames) /\ f \in DownFrames /\ UNCHANGED <<srv, credits, made>>
    BY <1>5 DEF ClientReceives, ClientOnly
  <2>2. f.type # "Ping" => c \in Calls
    BY <2>1 DEF DownFrames
  <2>3. \/ c \in Calls /\ OnRpcResponse(c)
        \/ c \in Calls /\ OnRpcStreamResponse(c)
        \/ c \in Calls /\ OnRpcStreamChunk(c)
        \/ c \in Calls /\ OnRpcStreamEnd(c)
        \/ c \in Calls /\ OnRpcStreamAbort(c)
        \/ up' = Append(up, Frame("Pong", NoCall)) /\ UNCHANGED <<call, reader>>
    BY <1>5, <2>2 DEF ClientReceives
  <2> HIDE DEF c
  <2>4. /\ call' \in [Calls -> {"idle", "pending", "streaming", "draining", "settled"}]
        /\ up' \in Seq(UpFrames)
    <3>1. up' = up \/ up' = Append(up, Frame("Pong", NoCall)) \/ (c \in Calls /\ up' = Append(up, Frame("RpcAbort", c)))
      BY <2>3 DEF OnRpcResponse, OnRpcStreamResponse, OnRpcStreamChunk, OnRpcStreamEnd, OnRpcStreamAbort
    <3>2. Frame("Pong", NoCall) \in UpFrames /\ (c \in Calls => Frame("RpcAbort", c) \in UpFrames)
      BY FrameFacts
    <3>3. \/ call' = call
          \/ \E s \in {"pending", "streaming", "draining", "settled"} : call' = [call EXCEPT ![c] = s]
          \/ call' = [call EXCEPT ![c] = call[c]]
      BY <2>3 DEF OnRpcResponse, OnRpcStreamResponse, OnRpcStreamChunk, OnRpcStreamEnd, OnRpcStreamAbort
    <3>4. up' \in Seq(UpFrames)
      BY <3>1, <3>2, QueueTyped
    <3>5. call' \in [Calls -> {"idle", "pending", "streaming", "draining", "settled"}]
      BY <3>3
    <3>. QED  BY <3>4, <3>5
  <2>5. reader' \in [Calls -> Reader]
    <3>1. CASE c \in Calls /\ OnRpcStreamChunk(c)
      <4> DEFINE k == reader[c].buffered + 1
      <4>1. reader[c] \in Reader /\ k \in Nat
        BY <3>1 DEF Reader
      <4>2. \/ reader' = reader
            \/ reader' = [reader EXCEPT ![c] = [reader[c] EXCEPT !.reading = FALSE]]
            \/ reader' = [reader EXCEPT ![c] = [reader[c] EXCEPT !.buffered = k]]
        BY <3>1 DEF OnRpcStreamChunk
      <4> HIDE DEF k
      <4>3. [reader[c] EXCEPT !.buffered = k] \in Reader /\ [reader[c] EXCEPT !.reading = FALSE] \in Reader
        BY <4>1 DEF Reader
      <4>. QED  BY <4>2, <4>3
    <3>2. CASE c \in Calls /\ OnRpcStreamEnd(c)
      <4>1. [reader[c] EXCEPT !.reading = FALSE] \in Reader
        BY <3>2 DEF Reader
      <4>2. reader' = [reader EXCEPT ![c] = [reader[c] EXCEPT !.reading = FALSE]]
        BY <3>2 DEF OnRpcStreamEnd
      <4>. QED  BY <4>1, <4>2
    <3>. QED  BY <2>3, <3>1, <3>2 DEF OnRpcResponse, OnRpcStreamResponse, OnRpcStreamAbort
  <2>. QED  BY <2>1, <2>4, <2>5
<1>6. ASSUME ClientDisconnected PROVE RpcTyped'
  BY <1>6 DEF ClientDisconnected
<1>. QED  BY <1>1, <1>2, <1>3, <1>4, <1>5, <1>6

\* ... and of the server.
LEMMA ServerTyped ==
    ASSUME RpcTyped,
           \/ \E c \in Calls : Respond(c) \/ OpenStream(c) \/ SendChunk(c) \/ EndStream(c) \/ AbortStream(c)
           \/ ServerReceives \/ Ping \/ ServerDisconnected
    PROVE  RpcTyped'
<1>. USE DEF RpcTyped
<1>1. ASSUME CloseSession
      PROVE  srv' \in [Calls -> {"idle", "running", "stream", "done"}] /\ credits' \in [Calls -> Nat]
  BY <1>1 DEF CloseSession
<1>2. ASSUME NEW c \in Calls, NEW t \in Answers, Finish(c, t)
      PROVE  /\ srv' \in [Calls -> {"idle", "running", "stream", "done"}] /\ credits' \in [Calls -> Nat]
             /\ down' \in Seq(DownFrames)
  <2>1. Frame(t, c) \in DownFrames
    BY FrameFacts
  <2>2. srv' \in [Calls -> {"idle", "running", "stream", "done"}] /\ credits' \in [Calls -> Nat]
    <3>1. CASE CloseSession
      BY <1>1, <3>1
    <3>2. CASE srv' = [srv EXCEPT ![c] = "done"] /\ credits' = [credits EXCEPT ![c] = 0]
      BY <3>2
    <3>. QED  BY <1>2, <3>1, <3>2 DEF Finish
  <2>3. down' = down \/ down' = Append(down, Frame(t, c))
    BY <1>2 DEF Finish
  <2>. QED  BY <2>1, <2>2, <2>3, QueueTyped
<1>3. "RpcResponse" \in Answers /\ "RpcStreamResponse" \in Answers /\ "RpcStreamChunk" \in Answers
      /\ "RpcStreamEnd" \in Answers /\ "RpcStreamAbort" \in Answers
  BY DEF Answers
<1>4. ASSUME NEW c \in Calls, Respond(c) PROVE RpcTyped'
  <2>1. Frame("RpcResponse", c) \in DownFrames
    BY <1>3, FrameFacts
  <2>2. down' = down \/ down' = Append(down, Frame("RpcResponse", c))
    BY <1>4 DEF Respond
  <2>3. down' \in Seq(DownFrames)
    BY <2>1, <2>2, QueueTyped
  <2>4. srv' \in [Calls -> {"idle", "running", "stream", "done"}] /\ UNCHANGED <<call, reader, up, credits, made>>
    BY <1>4 DEF Respond
  <2>. QED  BY <2>3, <2>4
<1>5. ASSUME NEW c \in Calls, OpenStream(c) PROVE RpcTyped'
  <2>1. Frame("RpcStreamResponse", c) \in DownFrames
    BY <1>3, FrameFacts
  <2>2. down' = down \/ down' = Append(down, Frame("RpcStreamResponse", c))
    BY <1>5 DEF OpenStream
  <2>3. down' \in Seq(DownFrames)
    BY <2>1, <2>2, QueueTyped
  <2>4. CloseSession \/ (srv' = [srv EXCEPT ![c] = "stream"] /\ credits' = credits)
    BY <1>5 DEF OpenStream
  <2>5. srv' \in [Calls -> {"idle", "running", "stream", "done"}] /\ credits' \in [Calls -> Nat]
    BY <1>1, <2>4
  <2>. QED  BY <1>5, <2>3, <2>5 DEF OpenStream
<1>6. ASSUME NEW c \in Calls, SendChunk(c) PROVE RpcTyped'
  <2> DEFINE k == made[c] + 1
  <2>1. k \in 0..MaxChunks /\ made' = [made EXCEPT ![c] = k]
    BY <1>6, RpcAssumption DEF SendChunk
  <2> HIDE DEF k
  <2>2. made' \in [Calls -> 0..MaxChunks] /\ UNCHANGED <<call, reader, up>>
    BY <1>6, <2>1 DEF SendChunk
  <2>3. CASE Finish(c, "RpcStreamAbort")
    BY <1>2, <1>3, <2>2, <2>3
  <2>4. CASE /\ down' = Append(down, Frame("RpcStreamChunk", c))
             /\ credits' = [credits EXCEPT ![c] = @ - 1] /\ srv' = srv
    <3>1. credits' \in [Calls -> Nat]
      BY <1>6, <2>4 DEF SendChunk
    <3>. QED  BY <1>3, <2>2, <2>4, <3>1, FrameFacts
  <2>. QED  BY <1>6, <2>3, <2>4 DEF SendChunk
<1>7. ASSUME NEW c \in Calls, EndStream(c) PROVE RpcTyped'
  BY <1>2, <1>3, <1>7 DEF EndStream
<1>8. ASSUME NEW c \in Calls, AbortStream(c) PROVE RpcTyped'
  BY <1>2, <1>3, <1>8 DEF AbortStream
<1>9. ASSUME ServerReceives PROVE RpcTyped'
  <2> DEFINE f == Head(up)
  <2>1. up' \in Seq(UpFrames) /\ f \in UpFrames /\ UNCHANGED <<call, reader, down, made>>
    BY <1>9 DEF ServerReceives
  <2>2. f.size \in Nat
    BY <2>1 DEF UpFrames
  <2>3. \/ OnRpc(f.call)
        \/ OnRpcAbort(f.call)
        \/ OnRpcStreamPull(f.call, f.size)
        \/ UNCHANGED <<srv, signal, credits>>
    BY <1>9 DEF ServerReceives
  <2> HIDE DEF f
  <2>4. srv' \in [Calls -> {"idle", "running", "stream", "done"}] /\ credits' \in [Calls -> Nat]
    <3>1. CASE OnRpc(f.call)
      BY <3>1 DEF OnRpc
    <3>2. CASE OnRpcAbort(f.call)
      BY <3>2 DEF OnRpcAbort
    <3>3. CASE OnRpcStreamPull(f.call, f.size)
      <4> DEFINE c == f.call
                 v == IF srv[c] = "stream" THEN credits[c] + f.size ELSE credits[c]
      <4>1. srv' = srv /\ credits' = [credits EXCEPT ![c] = v]
        BY <3>3 DEF OnRpcStreamPull
      <4>2. c \in Calls => v \in Nat
        BY <2>2
      <4> HIDE DEF c, v
      <4>. QED  BY <4>1, <4>2
    <3>. QED  BY <2>3, <3>1, <3>2, <3>3
  <2>. QED  BY <2>1, <2>4
<1>10. ASSUME Ping PROVE RpcTyped'
  BY <1>10, FrameFacts DEF Ping
<1>11. ASSUME ServerDisconnected PROVE RpcTyped'
  BY <1>1, <1>11 DEF ServerDisconnected
<1>. QED  BY <1>4, <1>5, <1>6, <1>7, <1>8, <1>9, <1>10, <1>11
LinkOrdered == \A c \in Calls : EndsAgree(c) /\ UpOrdered(c) /\ DownOrdered(c)

\* The queue p is q with an abort of c behind it, or several.
AbortSent(q, p, c) ==
    /\ \A T, d : Has(p, T, d) <=> Has(q, T, d) \/ (c = d /\ "RpcAbort" \in T)
    /\ \A d : Once(q, "Rpc", d) => Once(p, "Rpc", d)
    /\ \A d : Preceded(q, {"RpcAbort"}, "Rpc", d) /\ (d = c => Has(q, {"Rpc"}, c)) =>
                 Preceded(p, {"RpcAbort"}, "Rpc", d)
    /\ \A d : d # c /\ Followed(q, "Rpc", "RpcAbort", d) => Followed(p, "Rpc", "RpcAbort", d)
    /\ Followed(p, "Rpc", "RpcAbort", c)

\* One abort, and one more.
LEMMA AbortsSent ==
    ASSUME NEW c \in Calls, NEW q \in Seq(UpFrames)
    PROVE  LET f == Frame("RpcAbort", c)
           IN  AbortSent(q, Append(q, f), c) /\ AbortSent(q, Append(Append(q, f), f), c)
<1> DEFINE f == Frame("RpcAbort", c)
<1>1. /\ \A T, d : IsOf(f, T, d) <=> c = d /\ "RpcAbort" \in T
      /\ f \in UpFrames
  BY FrameFacts
<1>2. \A d : ~IsOf(f, {"Rpc"}, d) /\ (IsOf(f, {"RpcAbort"}, d) <=> d = c)
  BY <1>1
<1> HIDE DEF f
<1>3. ASSUME NEW x \in Seq(UpFrames) PROVE AbortSent(x, Append(x, f), c) /\ Append(x, f) \in Seq(UpFrames)
  <2> DEFINE p == Append(x, f)
  <2>1. /\ p \in Seq(UpFrames)
        /\ \A T, d : Has(p, T, d) <=> Has(x, T, d) \/ IsOf(f, T, d)
        /\ \A T, u, d : Preceded(x, T, u, d) /\ (Has(x, {u}, d) \/ ~IsOf(f, T, d)) => Preceded(p, T, u, d)
        /\ \A k, u, d : Followed(x, k, u, d) /\ ~IsOf(f, {k}, d) => Followed(p, k, u, d)
        /\ \A k, u, d : k # u /\ IsOf(f, {u}, d) => Followed(p, k, u, d)
        /\ \A k, d : Once(x, k, d) /\ (~Has(x, {k}, d) \/ ~IsOf(f, {k}, d)) => Once(p, k, d)
    BY <1>1, Added
  <2> HIDE DEF p
  <2>2. AbortSent(x, p, c)
    BY <1>1, <1>2, <2>1 DEF AbortSent
  <2>. QED  BY <2>1, <2>2 DEF p
<1>4. ASSUME NEW x, NEW y, AbortSent(q, x, c), AbortSent(x, y, c) PROVE AbortSent(q, y, c)
  BY <1>4 DEF AbortSent
<1>. QED  BY <1>3, <1>4 DEF f

\* The client moves a call on: it sends an abort with it, or the call is
\* over at the server too.
LEMMA UpFollows ==
    ASSUME RpcTyped, LinkOrdered, NEW c \in Calls, NEW s \in {"pending", "streaming", "draining", "settled"},
           call' = [call EXCEPT ![c] = s], UNCHANGED <<srv, signal>>, call[c] # "idle",
           s = "streaming" => srv[c] \in {"stream", "done"},
           s = "draining" => srv[c] = "done",
           \/ up' = up /\ (s = "settled" => call[c] = "settled" \/ srv[c] = "done")
           \/ AbortSent(up, up', c)
    PROVE  \A d \in Calls : EndsAgree(d)' /\ UpOrdered(d)'
<1>1. call'[c] = s /\ \A d \in Calls \ {c} : call'[d] = call[d]
  BY DEF RpcTyped
<1>2. CASE up' = up /\ (s = "settled" => call[c] = "settled" \/ srv[c] = "done")
  <2>1. srv[c] # "idle" => Followed(up, "Rpc", "RpcAbort", c)
    BY HasFacts DEF LinkOrdered, UpOrdered
  <2>. QED  BY <1>1, <1>2, <2>1 DEF LinkOrdered, EndsAgree, UpOrdered
<1>3. CASE AbortSent(up, up', c)
  <2>1. ASSUME NEW d \in Calls PROVE EndsAgree(d)'
    BY <1>1, <1>3 DEF LinkOrdered, EndsAgree, AbortSent
  <2>2. ASSUME NEW d \in Calls PROVE UpOrdered(d)'
    <3>1. EndsAgree(d) /\ UpOrdered(d)
      BY DEF LinkOrdered
    <3>2. /\ Has(up', {"Rpc"}, d) <=> Has(up, {"Rpc"}, d)
          /\ Has(up', {"RpcAbort"}, d) <=> Has(up, {"RpcAbort"}, d) \/ d = c
      BY <1>3 DEF AbortSent
    <3>3. Once(up', "Rpc", d)
      BY <1>3, <3>1 DEF UpOrdered, AbortSent
    <3>4. srv[d] = "idle" => Preceded(up', {"RpcAbort"}, "Rpc", d)
      BY <1>3, <3>1 DEF EndsAgree, UpOrdered, AbortSent
    <3>5. call'[d] = "settled" => Followed(up', "Rpc", "RpcAbort", d)
      BY <1>1, <1>3, <3>1 DEF UpOrdered, AbortSent
    <3>. QED  BY <1>1, <3>1, <3>2, <3>3, <3>4, <3>5 DEF UpOrdered
  <2>. QED  BY <2>1, <2>2
<1>. QED  BY <1>2, <1>3

\* The client's own steps.
LEMMA ClientKeeps ==
    ASSUME RpcTyped, LinkOrdered, NEW c \in Calls, Call(c) \/ AbortCall(c) \/ Read(c) \/ ReadRest(c)
    PROVE  LinkOrdered'
<1>. USE FrameFacts
<1>1. UNCHANGED <<down, srv, signal, unheard>>
  BY DEF Call, AbortCall, Read, ReadRest, ClientOnly
<1>2. CASE Call(c)
  <2> DEFINE f == Frame("Rpc", c)
  <2>1. /\ \A T, d : IsOf(f, T, d) <=> c = d /\ "Rpc" \in T
        /\ f \in UpFrames
    OBVIOUS
  <2>2. call[c] = "idle" /\ call'[c] = "pending" /\ (\A d \in Calls \ {c} : call'[d] = call[d]) /\ up' = Append(up, f)
    BY <1>2 DEF Call, RpcTyped
  <2> HIDE FrameFacts DEF f
  <2>3. /\ \A T, d : Has(up', T, d) <=> Has(up, T, d) \/ IsOf(f, T, d)
        /\ \A T, u, d : Preceded(up, T, u, d) /\ (Has(up, {u}, d) \/ ~IsOf(f, T, d)) => Preceded(up', T, u, d)
        /\ \A k, u, d : Followed(up, k, u, d) /\ ~IsOf(f, {k}, d) => Followed(up', k, u, d)
        /\ \A k, d : Once(up, k, d) /\ (~Has(up, {k}, d) \/ ~IsOf(f, {k}, d)) => Once(up', k, d)
    BY <2>1, <2>2, Added DEF RpcTyped
  <2>4. srv[c] = "idle" /\ ~Has(up, {"Rpc", "RpcAbort"}, c) /\ ~Has(up, {"Rpc"}, c) /\ ~Has(down, Answers, c)
    BY <2>2, HasFacts DEF LinkOrdered, EndsAgree, DownOrdered
  <2>5. ASSUME NEW d \in Calls PROVE EndsAgree(d)' /\ UpOrdered(d)'
    BY <1>1, <2>1, <2>2, <2>3, <2>4 DEF LinkOrdered, EndsAgree, UpOrdered
  <2>6. ASSUME NEW d \in Calls PROVE DownOrdered(d)'
    <3>1. CASE d = c
      <4>1. /\ ~Has(down, Finals, c) /\ ~Has(down, OfStream, c) /\ ~Has(down, {"RpcResponse"}, c)
            /\ Preceded(down, OfStream, "RpcStreamResponse", c)
        BY <2>4, HasFacts DEF Answers, Finals, OfStream
      <4>. QED  BY <1>1, <2>2, <2>4, <3>1, <4>1 DEF DownOrdered
    <3>2. CASE d # c
      BY <1>1, <2>2, <3>2 DEF LinkOrdered, DownOrdered
    <3>. QED  BY <3>1, <3>2
  <2>. QED  BY <2>5, <2>6 DEF LinkOrdered
<1>3. CASE AbortCall(c)
  <2>. HIDE FrameFacts
  <2>1. /\ call[c] \in {"pending", "streaming", "draining"}
        /\ call'[c] = "settled" /\ \A d \in Calls \ {c} : call'[d] = call[d]
        /\ call' = [call EXCEPT ![c] = "settled"]
    BY <1>3 DEF AbortCall, RpcTyped
  <2>2. \A d \in Calls : DownOrdered(d)'
    BY <1>1, <2>1 DEF LinkOrdered, DownOrdered
  <2> DEFINE f == Frame("RpcAbort", c)
             p == IF call[c] = "streaming" THEN Append(up, f) ELSE up
  <2>3. up' = Append(p, f)
    BY <1>3 DEF AbortCall
  <2>4. \A d \in Calls : EndsAgree(d)' /\ UpOrdered(d)'
    <3>1. AbortSent(up, up', c)
      BY <2>3, AbortsSent DEF RpcTyped
    <3>. QED  BY <1>1, <2>1, <3>1, UpFollows
  <2>. QED  BY <2>2, <2>4 DEF LinkOrdered
<1>4. CASE Read(c)
  <2>1. call' = call
    BY <1>4 DEF Read
  <2>2. \A d \in Calls : DownOrdered(d)'
    BY <1>1, <2>1 DEF LinkOrdered, DownOrdered
  <2>3. CASE up' = up
    BY <1>1, <2>1, <2>2, <2>3 DEF LinkOrdered, EndsAgree, UpOrdered
  <2>4. ASSUME NEW n \in Nat, up' = Append(up, Pull(c, n)) PROVE LinkOrdered'
    <3> DEFINE f == Pull(c, n)
    <3>1. f \in UpFrames /\ \A d : ~IsOf(f, {"Rpc"}, d) /\ ~IsOf(f, {"RpcAbort"}, d) /\ ~IsOf(f, {"Rpc", "RpcAbort"}, d)
      OBVIOUS
    <3> HIDE FrameFacts DEF f
    <3>2. /\ \A T, d : Has(up', T, d) <=> Has(up, T, d) \/ IsOf(f, T, d)
          /\ \A T, u, d : Preceded(up, T, u, d) /\ (Has(up, {u}, d) \/ ~IsOf(f, T, d)) => Preceded(up', T, u, d)
          /\ \A k, u, d : Followed(up, k, u, d) /\ ~IsOf(f, {k}, d) => Followed(up', k, u, d)
          /\ \A k, d : Once(up, k, d) /\ (~Has(up, {k}, d) \/ ~IsOf(f, {k}, d)) => Once(up', k, d)
      BY <2>4, <3>1, Added DEF RpcTyped, f
    <3>3. ASSUME NEW d \in Calls PROVE EndsAgree(d)' /\ UpOrdered(d)'
      BY <1>1, <2>1, <3>1, <3>2 DEF LinkOrdered, EndsAgree, UpOrdered
    <3>. QED  BY <2>2, <3>3 DEF LinkOrdered
  <2>5. up' = up \/ \E n \in Nat : up' = Append(up, Pull(c, n))
    <3> DEFINE g == Grant(reader[c])
    <3>1. up' = (IF g[1] = 0 THEN up ELSE Append(up, Pull(c, g[1])))
      BY <1>4 DEF Read
    <3>2. g[1] \in Nat
      BY GrantTyped DEF RpcTyped
    <3> HIDE DEF g
    <3>. QED  BY <3>1, <3>2
  <2>. QED  BY <2>3, <2>4, <2>5
<1>5. CASE ReadRest(c)
  <2>. HIDE FrameFacts
  <2>1. call[c] = "draining" /\ srv[c] = "done" /\ up' = up
    BY <1>5 DEF ReadRest, LinkOrdered, EndsAgree
  <2>2. CASE call' = call
    BY <1>1, <2>1, <2>2 DEF LinkOrdered, EndsAgree, UpOrdered, DownOrdered
  <2>3. CASE call' = [call EXCEPT ![c] = "settled"]
    <3>1. \A d \in Calls : EndsAgree(d)' /\ UpOrdered(d)'
      BY <1>1, <2>1, <2>3, UpFollows
    <3>2. call'[c] = "settled" /\ \A d \in Calls \ {c} : call'[d] = call[d]
      BY <2>3 DEF RpcTyped
    <3>3. \A d \in Calls : DownOrdered(d)'
      BY <1>1, <2>1, <3>2 DEF LinkOrdered, DownOrdered
    <3>. QED  BY <3>1, <3>3 DEF LinkOrdered
  <2>. QED  BY <1>5, <2>2, <2>3 DEF ReadRest
<1>. QED  BY <1>2, <1>3, <1>4, <1>5
\* The client takes an answer, and its call is not pending any more.
LEMMA DownFollows ==
    ASSUME RpcTyped, LinkOrdered, down # <<>>, down' = Tail(down), NEW c \in Calls, IsOf(Head(down), Answers, c),
           NEW s \in {"streaming", "draining", "settled"},
           call' = [call EXCEPT ![c] = s], UNCHANGED <<srv, unheard>>,
           s = "streaming" => call[c] \in {"pending", "streaming"} /\ ~IsOf(Head(down), Finals, c),
           s # "settled" => ~Has(down, {"RpcResponse"}, c)
    PROVE  \A d \in Calls : DownOrdered(d)'
<1> DEFINE f == Head(down)
<1>1. call'[c] = s /\ \A d \in Calls \ {c} : call'[d] = call[d]
  BY DEF RpcTyped
<1>2. /\ \A T, d : Has(down, T, d) <=> Has(down', T, d) \/ IsOf(f, T, d)
      /\ \A T, u, d : Preceded(down, T, u, d) /\ ~IsOf(f, {u}, d) => Preceded(down', T, u, d)
  BY Taken DEF RpcTyped
<1> HIDE DEF f
<1>3. \A d \in Calls \ {c} : \A T : ~IsOf(f, T, d)
  BY DEF IsOf, f
<1>4. DownOrdered(c)'
  BY <1>1, <1>2 DEF LinkOrdered, DownOrdered, f
<1>5. ASSUME NEW d \in Calls \ {c} PROVE DownOrdered(d)'
  <2>1. DownOrdered(d) /\ call'[d] = call[d] /\ UNCHANGED <<srv, unheard>>
    BY <1>1 DEF LinkOrdered
  <2>2. \A T : Has(down', T, d) <=> Has(down, T, d)
    BY <1>2, <1>3
  <2>3. Preceded(down, OfStream, "RpcStreamResponse", d) => Preceded(down', OfStream, "RpcStreamResponse", d)
    BY <1>2, <1>3
  <2>. QED  BY <2>1, <2>2, <2>3 DEF DownOrdered
<1>. QED  BY <1>4, <1>5

\* The frames of the server at the client.
LEMMA ReceivesKeeps == ASSUME RpcTyped, LinkOrdered, ClientReceives PROVE LinkOrdered'
<1> DEFINE f == Head(down)
           c == f.call
<1>1. down # <<>> /\ down' = Tail(down) /\ UNCHANGED <<srv, signal, unheard>> /\ f \in DownFrames
  BY DEF ClientReceives, ClientOnly, RpcTyped
<1>2. CASE f.type = "Ping"
  <2> DEFINE g == Frame("Pong", NoCall)
  <2>1. call' = call /\ up' = Append(up, g)
    BY <1>2 DEF ClientReceives
  <2>2. /\ g \in UpFrames
        /\ \A d : ~IsOf(g, {"Rpc"}, d) /\ ~IsOf(g, {"RpcAbort"}, d) /\ ~IsOf(g, {"Rpc", "RpcAbort"}, d)
    BY FrameFacts
  <2>3. \A d : /\ ~IsOf(f, Answers, d) /\ ~IsOf(f, Finals, d) /\ ~IsOf(f, {"RpcResponse"}, d)
               /\ ~IsOf(f, {"RpcStreamResponse"}, d)
    BY <1>2 DEF IsOf, Answers, Finals
  <2>4. /\ \A T, d : Has(down, T, d) <=> Has(down', T, d) \/ IsOf(f, T, d)
        /\ \A T, u, d : Preceded(down, T, u, d) /\ ~IsOf(f, {u}, d) => Preceded(down', T, u, d)
    BY <1>1, Taken DEF RpcTyped
  <2>5. /\ \A T, d : Has(up', T, d) <=> Has(up, T, d) \/ IsOf(g, T, d)
        /\ \A T, u, d : Preceded(up, T, u, d) /\ (Has(up, {u}, d) \/ ~IsOf(g, T, d)) => Preceded(up', T, u, d)
        /\ \A k, u, d : Followed(up, k, u, d) /\ ~IsOf(g, {k}, d) => Followed(up', k, u, d)
        /\ \A k, d : Once(up, k, d) /\ (~Has(up, {k}, d) \/ ~IsOf(g, {k}, d)) => Once(up', k, d)
    BY <2>1, <2>2, Added DEF RpcTyped
  <2> HIDE DEF f, g
  <2>6. ASSUME NEW d \in Calls PROVE EndsAgree(d)' /\ UpOrdered(d)'
    BY <1>1, <2>1, <2>2, <2>5 DEF LinkOrdered, EndsAgree, UpOrdered
  <2>7. ASSUME NEW d \in Calls PROVE DownOrdered(d)'
    BY <1>1, <2>1, <2>3, <2>4 DEF LinkOrdered, DownOrdered
  <2>. QED  BY <2>6, <2>7 DEF LinkOrdered
<1>3. CASE f.type # "Ping"
  <2>1. c \in Calls /\ f.type \in Answers /\ IsOf(f, Answers, c) /\ IsOf(f, {f.type}, c)
    BY <1>1, <1>3 DEF DownFrames, IsOf
  <2>2. Has(down, Answers, c) /\ Has(down, {f.type}, c)
    BY <1>1, <2>1, Taken DEF RpcTyped
  <2>3. EndsAgree(c) /\ UpOrdered(c) /\ DownOrdered(c)
    BY <2>1 DEF LinkOrdered
  <2>4. srv[c] \in {"stream", "done"} /\ call[c] \in {"pending", "streaming", "draining", "settled"}
    BY <2>1, <2>2, <2>3 DEF EndsAgree, DownOrdered, RpcTyped
  <2>5. f.type \in OfStream => call[c] # "pending"
    <3>1. f.type \in OfStream => IsOf(f, OfStream, c)
      BY DEF IsOf
    <3>2. Preceded(down, OfStream, "RpcStreamResponse", c) => ~IsOf(f, OfStream, c)
      BY <1>1, Taken DEF RpcTyped
    <3>. QED  BY <2>3, <3>1, <3>2 DEF DownOrdered
  <2>6. f.type \in Finals => srv[c] = "done"
    BY <2>2, <2>3, HasFacts DEF DownOrdered
  <2>7. /\ f.type = "RpcResponse" => call[c] \in {"pending", "settled"}
        /\ f.type = "RpcStreamResponse" \/ call[c] \in {"streaming", "draining"} => ~Has(down, {"RpcResponse"}, c)
    BY <2>2, <2>3 DEF DownOrdered
  <2>8. IsOf(f, Finals, c) <=> f.type \in Finals
    BY DEF IsOf
  <2> HIDE DEF c
  <2>9. ASSUME NEW s \in {"streaming", "draining", "settled"}, call' = [call EXCEPT ![c] = s],
               s = "streaming" => call[c] \in {"pending", "streaming"} /\ f.type \notin Finals,
               s # "settled" => ~Has(down, {"RpcResponse"}, c),
               s = "draining" => srv[c] = "done",
               \/ up' = up /\ (s = "settled" => call[c] = "settled" \/ srv[c] = "done")
               \/ up' = Append(up, Frame("RpcAbort", c))
        PROVE  LinkOrdered'
    <3>1. up' = Append(up, Frame("RpcAbort", c)) => AbortSent(up, up', c)
      BY <2>1, AbortsSent DEF RpcTyped
    <3>2. \A d \in Calls : EndsAgree(d)' /\ UpOrdered(d)'
      BY <1>1, <2>1, <2>4, <2>9, <3>1, UpFollows
    <3>3. \A d \in Calls : DownOrdered(d)'
      BY <1>1, <2>1, <2>8, <2>9, DownFollows
    <3>. QED  BY <3>2, <3>3 DEF LinkOrdered
  <2>10. call = [call EXCEPT ![c] = call[c]]
    BY <2>1 DEF RpcTyped
  <2>11. CASE f.type = "RpcResponse"
    <3>1. srv[c] = "done" /\ OnRpcResponse(c)
      BY <2>6, <2>11 DEF Finals, ClientReceives, c
    <3>2. call' = [call EXCEPT ![c] = "settled"] /\ (up' = up \/ up' = Append(up, Frame("RpcAbort", c)))
      BY <2>7, <2>10, <2>11, <3>1 DEF OnRpcResponse
    <3>. QED  BY <2>9, <3>1, <3>2
  <2>12. CASE f.type = "RpcStreamResponse"
    <3>1. OnRpcStreamResponse(c) /\ f.type \notin Finals
      BY <2>12 DEF ClientReceives, c, Finals
    <3>2. CASE call[c] = "pending"
      BY <2>7, <2>9, <2>12, <3>1, <3>2 DEF OnRpcStreamResponse
    <3>3. CASE call[c] # "pending"
      <4>1. call' = [call EXCEPT ![c] = call[c]] /\ up' = Append(up, Frame("RpcAbort", c))
        BY <2>10, <3>1, <3>3 DEF OnRpcStreamResponse
      <4>. QED  BY <2>3, <2>4, <2>7, <2>9, <3>1, <3>3, <4>1 DEF EndsAgree
    <3>. QED  BY <3>2, <3>3
  <2>13. CASE f.type = "RpcStreamChunk"
    <3>1. OnRpcStreamChunk(c) /\ f.type \notin Finals /\ call[c] # "pending"
      BY <2>5, <2>13 DEF ClientReceives, c, Finals, OfStream
    <3>2. CASE call' = call /\ up' = up
      BY <2>3, <2>4, <2>7, <2>9, <2>10, <3>1, <3>2 DEF EndsAgree
    <3>3. CASE call' = [call EXCEPT ![c] = "settled"] /\ up' = Append(up, Frame("RpcAbort", c))
      BY <2>9, <3>3
    <3>. QED  BY <3>1, <3>2, <3>3 DEF OnRpcStreamChunk
  <2>14. CASE f.type = "RpcStreamEnd"
    <3>1. OnRpcStreamEnd(c) /\ srv[c] = "done" /\ call[c] # "pending"
      BY <2>5, <2>6, <2>14 DEF ClientReceives, c, Finals, OfStream
    <3> DEFINE s == IF call[c] = "streaming" THEN "draining" ELSE call[c]
    <3>2. call' = [call EXCEPT ![c] = s] /\ up' = up
      BY <3>1 DEF OnRpcStreamEnd
    <3>3. s \in {"draining", "settled"} /\ (s = "draining" => call[c] \in {"streaming", "draining"})
      BY <2>4, <3>1
    <3> HIDE DEF s
    <3>. QED  BY <2>7, <2>9, <3>1, <3>2, <3>3
  <2>15. CASE f.type = "RpcStreamAbort"
    <3>1. OnRpcStreamAbort(c) /\ srv[c] = "done" /\ call[c] # "pending"
      BY <2>5, <2>6, <2>15 DEF ClientReceives, c, Finals, OfStream
    <3> DEFINE s == IF call[c] \in {"pending", "streaming"} THEN "settled" ELSE call[c]
    <3>2. call' = [call EXCEPT ![c] = s] /\ up' = up
      BY <3>1 DEF OnRpcStreamAbort
    <3>3. s \in {"draining", "settled"} /\ (s = "draining" => call[c] = "draining")
      BY <2>4, <3>1
    <3> HIDE DEF s
    <3>. QED  BY <2>7, <2>9, <3>1, <3>2, <3>3
  <2>. QED  BY <2>1, <2>11, <2>12, <2>13, <2>14, <2>15 DEF Answers
<1>. QED  BY <1>2, <1>3
\* The server sends an answer.
LEMMA ServerSends ==
    ASSUME RpcTyped, LinkOrdered, NEW c \in Calls, NEW t \in Answers, NEW v \in {"stream", "done"},
           srv' = [srv EXCEPT ![c] = v], down' = Append(down, Frame(t, c)),
           UNCHANGED <<call, up, signal, unheard>>,
           \/ srv[c] = "running" /\ t = "RpcResponse" /\ v = "done"
           \/ srv[c] = "running" /\ t = "RpcStreamResponse" /\ v = "stream"
           \/ srv[c] = "stream" /\ t = "RpcStreamChunk" /\ v = "stream"
           \/ srv[c] = "stream" /\ t \in {"RpcStreamEnd", "RpcStreamAbort"} /\ v = "done"
    PROVE  LinkOrdered'
<1> DEFINE f == Frame(t, c)
<1>1. f \in DownFrames /\ \A T, d : IsOf(f, T, d) <=> c = d /\ t \in T
  BY FrameFacts
<1> HIDE DEF f
<1>2. /\ \A T, d : Has(down', T, d) <=> Has(down, T, d) \/ IsOf(f, T, d)
      /\ \A T, u, d : Preceded(down, T, u, d) /\ (Has(down, {u}, d) \/ ~IsOf(f, T, d)) => Preceded(down', T, u, d)
  BY <1>1, Added DEF RpcTyped, f
<1>3. srv'[c] = v /\ \A d \in Calls \ {c} : srv'[d] = srv[d]
  BY DEF RpcTyped
<1>4. srv[c] \in {"running", "stream"} /\ EndsAgree(c) /\ UpOrdered(c) /\ DownOrdered(c)
  BY DEF LinkOrdered
<1>5. call[c] \in {"pending", "streaming", "settled"} /\ (srv[c] = "running" => call[c] \in {"pending", "settled"})
  BY <1>4 DEF EndsAgree, RpcTyped
<1>6. EndsAgree(c)' /\ UpOrdered(c)'
  <2>1. ~Has(up, {"Rpc"}, c)
    BY <1>4 DEF UpOrdered
  <2>. QED  BY <1>3, <1>4, <1>5, <2>1 DEF EndsAgree, UpOrdered
<1>7. DownOrdered(c)'
  <2>1. ~Has(down, Finals, c) /\ ~Has(down, {"RpcResponse"}, c)
    BY <1>4, HasFacts DEF DownOrdered, Finals
  <2>2. srv[c] = "running" => ~Has(down, {"RpcStreamResponse"}, c)
    BY <1>4, HasFacts DEF DownOrdered, Answers
  <2>3. /\ IsOf(f, Finals, c) <=> v = "done"
        /\ IsOf(f, {"RpcResponse"}, c) <=> t = "RpcResponse"
        /\ IsOf(f, {"RpcStreamResponse"}, c) <=> t = "RpcStreamResponse"
        /\ IsOf(f, OfStream, c) => srv[c] = "stream"
    BY <1>1 DEF Finals, OfStream
  <2>4. call[c] = "pending" => Preceded(down', OfStream, "RpcStreamResponse", c)
    BY <1>2, <1>4, <2>3 DEF DownOrdered
  <2>5. call[c] = "pending" /\ v = "stream" => Has(down', {"RpcStreamResponse"}, c)
    BY <1>2, <1>4, <2>3 DEF DownOrdered
  <2>6. Has(down', {"RpcResponse"}, c) => call[c] \in {"pending", "settled"} /\ ~Has(down', {"RpcStreamResponse"}, c)
    BY <1>2, <1>5, <2>1, <2>2, <2>3
  <2>7. Has(down', Finals, c) <=> v = "done"
    BY <1>2, <2>1, <2>3
  <2>. QED  BY <1>3, <2>4, <2>5, <2>6, <2>7 DEF DownOrdered
<1>8. ASSUME NEW d \in Calls \ {c} PROVE EndsAgree(d)' /\ UpOrdered(d)' /\ DownOrdered(d)'
  <2>1. EndsAgree(d) /\ UpOrdered(d) /\ DownOrdered(d) /\ srv'[d] = srv[d] /\ UNCHANGED <<call, up, signal, unheard>>
    BY <1>3 DEF LinkOrdered
  <2>2. \A T : Has(down', T, d) <=> Has(down, T, d)
    BY <1>1, <1>2
  <2>3. Preceded(down, OfStream, "RpcStreamResponse", d) => Preceded(down', OfStream, "RpcStreamResponse", d)
    BY <1>1, <1>2
  <2>4. EndsAgree(d)' /\ UpOrdered(d)'
    BY <2>1 DEF EndsAgree, UpOrdered
  <2>5. DownOrdered(d)'
    BY <2>1, <2>2, <2>3 DEF DownOrdered
  <2>. QED  BY <2>4, <2>5
<1>. QED  BY <1>6, <1>7, <1>8 DEF LinkOrdered

\* The server's steps, unless they end the session.
LEMMA ServerKeeps ==
    ASSUME RpcTyped, LinkOrdered, serverUp',
           \/ \E c \in Calls : Respond(c) \/ OpenStream(c) \/ SendChunk(c) \/ EndStream(c) \/ AbortStream(c)
           \/ Ping \/ ServerDisconnected
    PROVE  LinkOrdered'
<1>1. ~CloseSession
  BY DEF CloseSession
<1>2. {"RpcResponse", "RpcStreamResponse", "RpcStreamChunk", "RpcStreamEnd", "RpcStreamAbort"} \subseteq Answers
  BY DEF Answers
<1>3. ASSUME NEW c \in Calls, Respond(c) PROVE LinkOrdered'
  <2>1. srv[c] = "running" /\ srv' = [srv EXCEPT ![c] = "done"] /\ UNCHANGED <<call, up, signal>>
    BY <1>3 DEF Respond
  <2>2. CASE down' = Append(down, Frame("RpcResponse", c)) /\ UNCHANGED unheard
    BY <1>2, <2>1, <2>2, ServerSends
  <2>3. CASE unheard' = unheard \cup {c} /\ down' = down
    <3>1. srv'[c] = "done" /\ \A d \in Calls \ {c} : srv'[d] = srv[d]
      BY <2>1 DEF RpcTyped
    <3>2. ~Has(down, {"RpcResponse"}, c)
      BY <2>1, HasFacts DEF LinkOrdered, DownOrdered, Answers
    <3>3. \A d \in Calls : EndsAgree(d)' /\ UpOrdered(d)'
      BY <2>1, <3>1 DEF LinkOrdered, EndsAgree, UpOrdered
    <3>4. \A d \in Calls : DownOrdered(d)'
      BY <2>1, <2>3, <3>1, <3>2 DEF LinkOrdered, DownOrdered
    <3>. QED  BY <3>3, <3>4 DEF LinkOrdered
  <2>. QED  BY <1>3, <2>2, <2>3 DEF Respond
<1>4. ASSUME NEW c \in Calls, OpenStream(c) PROVE LinkOrdered'
  BY <1>1, <1>2, <1>4, ServerSends DEF OpenStream
<1>5. ASSUME NEW c \in Calls, NEW t \in {"RpcStreamEnd", "RpcStreamAbort"}, Finish(c, t), srv[c] = "stream",
             UNCHANGED <<call, up, unheard>>
      PROVE  LinkOrdered'
  BY <1>1, <1>2, <1>5, ServerSends DEF Finish
<1>6. ASSUME NEW c \in Calls, SendChunk(c) PROVE LinkOrdered'
  <2>1. srv[c] = "stream" /\ UNCHANGED <<call, up, unheard>>
    BY <1>6 DEF SendChunk
  <2>2. CASE Finish(c, "RpcStreamAbort")
    BY <1>5, <2>1, <2>2
  <2>3. CASE down' = Append(down, Frame("RpcStreamChunk", c)) /\ UNCHANGED <<srv, signal>>
    <3>1. srv' = [srv EXCEPT ![c] = "stream"]
      BY <2>1, <2>3 DEF RpcTyped
    <3>. QED  BY <1>2, <2>1, <2>3, <3>1, ServerSends
  <2>. QED  BY <1>6, <2>2, <2>3 DEF SendChunk
<1>7. ASSUME NEW c \in Calls, EndStream(c) \/ AbortStream(c) PROVE LinkOrdered'
  BY <1>5, <1>7 DEF EndStream, AbortStream
<1>8. ASSUME Ping PROVE LinkOrdered'
  <2> DEFINE f == Frame("Ping", NoCall)
  <2>1. down' = Append(down, f) /\ UNCHANGED <<call, up, srv, signal, unheard>>
    BY <1>8 DEF Ping
  <2>2. f \in DownFrames /\ \A T, d : IsOf(f, T, d) => "Ping" \in T
    BY FrameFacts
  <2>3. \A d : /\ ~IsOf(f, Answers, d) /\ ~IsOf(f, Finals, d) /\ ~IsOf(f, {"RpcResponse"}, d)
               /\ ~IsOf(f, {"RpcStreamResponse"}, d) /\ ~IsOf(f, OfStream, d)
    BY <2>2 DEF Answers, Finals, OfStream
  <2>4. /\ \A T, d : Has(down', T, d) <=> Has(down, T, d) \/ IsOf(f, T, d)
        /\ \A T, u, d : Preceded(down, T, u, d) /\ (Has(down, {u}, d) \/ ~IsOf(f, T, d)) => Preceded(down', T, u, d)
    BY <2>1, <2>2, Added DEF RpcTyped
  <2> HIDE DEF f
  <2>5. \A d \in Calls : EndsAgree(d)' /\ UpOrdered(d)'
    BY <2>1 DEF LinkOrdered, EndsAgree, UpOrdered
  <2>6. \A d \in Calls : DownOrdered(d)'
    BY <2>1, <2>3, <2>4 DEF LinkOrdered, DownOrdered
  <2>. QED  BY <2>5, <2>6 DEF LinkOrdered
<1>. QED  BY <1>1, <1>3, <1>4, <1>6, <1>7, <1>8 DEF ServerDisconnected

\* The frames of the client at the server.  The abort of a call is behind
\* its request, so the server has the call when it hears of it.
LEMMA RequestsKeep == ASSUME RpcTyped, LinkOrdered, ServerReceives PROVE LinkOrdered'
<1>0. PICK f, c : f = Head(up) /\ c = f.call
  OBVIOUS
<1>1. up # <<>> /\ up' = Tail(up) /\ UNCHANGED <<call, down, unheard>> /\ f \in UpFrames
  BY <1>0 DEF ServerReceives, RpcTyped
<1>2. /\ \A T, d : Has(up, T, d) <=> Has(up', T, d) \/ IsOf(f, T, d)
      /\ \A T, u, d : Preceded(up, T, u, d) => ~IsOf(f, T, d)
      /\ \A T, u, d : Preceded(up, T, u, d) /\ ~IsOf(f, {u}, d) => Preceded(up', T, u, d)
      /\ \A t, u, d : Followed(up, t, u, d) => Followed(up', t, u, d)
      /\ \A t, u, d : Followed(up, t, u, d) /\ IsOf(f, {t}, d) => Has(up', {u}, d)
      /\ \A t, d : Once(up, t, d) => Once(up', t, d)
      /\ \A t, d : Once(up, t, d) /\ IsOf(f, {t}, d) => ~Has(up', {t}, d)
  BY <1>0, <1>1, Taken DEF RpcTyped
<1>3. f.type # "Pong" => c \in Calls
  BY <1>0, <1>1 DEF UpFrames
<1>4. \A d, T : IsOf(f, T, d) <=> c = d /\ f.type \in T
  BY <1>0 DEF IsOf
<1>5. \/ f.type = "Rpc" /\ c \in Calls /\ OnRpc(c)
      \/ f.type = "RpcAbort" /\ c \in Calls /\ OnRpcAbort(c)
      \/ f.type \in {"RpcStreamPull", "Pong"} /\ UNCHANGED <<srv, signal>>
  BY <1>0, <1>1, <1>3 DEF ServerReceives, OnRpcStreamPull, UpFrames
<1>6. CASE f.type \in {"RpcStreamPull", "Pong"} /\ UNCHANGED <<srv, signal>>
  <2>1. \A d : ~IsOf(f, {"Rpc"}, d) /\ ~IsOf(f, {"RpcAbort"}, d) /\ ~IsOf(f, {"Rpc", "RpcAbort"}, d)
    BY <1>4, <1>6
  <2>2. \A d \in Calls : EndsAgree(d)' /\ UpOrdered(d)'
    BY <1>1, <1>2, <1>6, <2>1 DEF LinkOrdered, EndsAgree, UpOrdered
  <2>3. \A d \in Calls : DownOrdered(d)'
    BY <1>1, <1>6 DEF LinkOrdered, DownOrdered
  <2>. QED  BY <2>2, <2>3 DEF LinkOrdered
<1>7. CASE f.type = "Rpc" /\ c \in Calls /\ OnRpc(c)
  <2>1. IsOf(f, {"Rpc"}, c) /\ IsOf(f, {"Rpc", "RpcAbort"}, c) /\ (\A T : "Rpc" \notin T => ~IsOf(f, T, c))
        /\ \A d \in Calls \ {c} : \A T : ~IsOf(f, T, d)
    BY <1>4, <1>7
  <2>2. EndsAgree(c) /\ UpOrdered(c) /\ DownOrdered(c) /\ Has(up, {"Rpc"}, c) /\ Has(up, {"Rpc", "RpcAbort"}, c)
    BY <1>2, <1>7, <2>1 DEF LinkOrdered
  <2>3. srv[c] = "idle" /\ call[c] # "idle"
    BY <2>2 DEF EndsAgree, UpOrdered
  <2>4. srv'[c] = "running" /\ (\A d \in Calls \ {c} : srv'[d] = srv[d]) /\ signal' = signal
    BY <1>7, <2>3 DEF OnRpc, RpcTyped
  <2>5. EndsAgree(c)' /\ UpOrdered(c)' /\ DownOrdered(c)'
    <3>1. ~Has(up', {"Rpc"}, c) /\ Once(up', "Rpc", c)
      BY <1>2, <2>1, <2>2 DEF UpOrdered
    <3>2. call[c] = "settled" => Followed(up', "Rpc", "RpcAbort", c) /\ Has(up', {"RpcAbort"}, c)
      BY <1>2, <2>1, <2>2 DEF UpOrdered
    <3>3. EndsAgree(c)'
      BY <1>1, <2>2, <2>3, <2>4 DEF EndsAgree
    <3>4. UpOrdered(c)'
      BY <1>1, <2>4, <3>1, <3>2 DEF UpOrdered
    <3>5. ~Has(down, Finals, c) /\ ~Has(down, {"RpcResponse"}, c)
      BY <2>2, <2>3, HasFacts DEF DownOrdered, Finals
    <3>6. DownOrdered(c)'
      BY <1>1, <2>2, <2>3, <2>4, <3>5 DEF DownOrdered
    <3>. QED  BY <3>3, <3>4, <3>6
  <2>6. ASSUME NEW d \in Calls \ {c} PROVE EndsAgree(d)' /\ UpOrdered(d)' /\ DownOrdered(d)'
    <3>1. EndsAgree(d)' /\ UpOrdered(d)'
      BY <1>1, <1>2, <2>1, <2>4 DEF LinkOrdered, EndsAgree, UpOrdered
    <3>2. DownOrdered(d)'
      BY <1>1, <2>4 DEF LinkOrdered, DownOrdered
    <3>. QED  BY <3>1, <3>2
  <2>. QED  BY <1>7, <2>5, <2>6 DEF LinkOrdered
<1>8. CASE f.type = "RpcAbort" /\ c \in Calls /\ OnRpcAbort(c)
  <2>1. srv' = srv /\ signal' = IF srv[c] \in {"running", "stream"} THEN signal \cup {c} ELSE signal
    BY <1>8 DEF OnRpcAbort
  <2>2. /\ IsOf(f, {"RpcAbort"}, c) /\ IsOf(f, {"Rpc", "RpcAbort"}, c) /\ ~IsOf(f, {"Rpc"}, c)
        /\ \A d \in Calls \ {c} : \A T : ~IsOf(f, T, d)
    BY <1>4, <1>8
  <2>3. EndsAgree(c)' /\ UpOrdered(c)'
    BY <1>1, <1>2, <1>8, <2>1, <2>2 DEF LinkOrdered, EndsAgree, UpOrdered
  <2>4. ASSUME NEW d \in Calls \ {c} PROVE EndsAgree(d)' /\ UpOrdered(d)'
    BY <1>1, <1>2, <2>1, <2>2 DEF LinkOrdered, EndsAgree, UpOrdered
  <2>5. \A d \in Calls : DownOrdered(d)'
    BY <1>1, <2>1 DEF LinkOrdered, DownOrdered
  <2>. QED  BY <2>3, <2>4, <2>5 DEF LinkOrdered
<1>. QED  BY <1>5, <1>6, <1>7, <1>8

\* The two ends of the link agree, whatever is under way.
LEMMA LinkSound == RpcSpec => []RpcInv
<1>1. RpcInit => RpcInv
  <2>. SUFFICES ASSUME RpcInit PROVE RpcInv
    OBVIOUS
  <2>1. NewReader \in Reader
    <3>1. Refill \in Nat \ {0}
      BY RpcAssumption DEF Refill
    <3>. QED  BY <3>1 DEF NewReader, Reader
  <2>2. RpcTyped
    BY <2>1, RpcAssumption DEF RpcInit, RpcTyped
  <2>3. up = <<>> /\ down = <<>> /\ DOMAIN up = {} /\ DOMAIN down = {}
    BY DEF RpcInit
  <2>4. \A T, c : ~Has(up, T, c) /\ ~Has(down, T, c)
    BY <2>3 DEF Has
  <2>5. ASSUME NEW c \in Calls PROVE EndsAgree(c) /\ UpOrdered(c) /\ DownOrdered(c)
    <3>1. call[c] = "idle" /\ srv[c] = "idle"
      BY DEF RpcInit
    <3>2. Once(up, "Rpc", c) /\ Preceded(up, {"RpcAbort"}, "Rpc", c)
      BY <2>4, HasFacts
    <3>. QED  BY <2>4, <3>1, <3>2 DEF EndsAgree, UpOrdered, DownOrdered
  <2>. QED  BY <2>2, <2>5 DEF RpcInv
<1>2. RpcInv /\ [RpcNext]_rpcVars => RpcInv'
  <2>. SUFFICES ASSUME RpcInv, [RpcNext]_rpcVars PROVE RpcInv'
    OBVIOUS
  <2>1. CASE UNCHANGED rpcVars
    BY <2>1 DEF rpcVars, RpcInv, RpcTyped, Connected, EndsAgree, UpOrdered, DownOrdered
  <2>2. CASE RpcNext
    <3>1. RpcTyped'
      BY <2>2, ClientTyped, ServerTyped DEF RpcInv, RpcNext
    <3>2. ASSUME Connected' PROVE LinkOrdered'
      <4>1. clientUp' /\ serverUp'
        BY <3>2 DEF Connected
      <4>2. Connected
        <5>1. \A c \in Calls :
                 /\ Call(c) \/ AbortCall(c) \/ Read(c) \/ ReadRest(c) => UNCHANGED <<clientUp, serverUp>>
                 /\ Respond(c) => UNCHANGED <<clientUp, serverUp>>
                 /\ OpenStream(c) \/ SendChunk(c) \/ EndStream(c) \/ AbortStream(c) => serverUp /\ clientUp' = clientUp
          BY DEF Call, AbortCall, Read, ReadRest, ClientOnly, Respond, OpenStream, SendChunk, EndStream, AbortStream
        <5>2. ClientReceives \/ ServerReceives \/ Ping => UNCHANGED <<clientUp, serverUp>>
          BY DEF ClientReceives, ClientOnly, ServerReceives, Ping
        <5>3. ClientDisconnected => clientUp' = FALSE
          BY DEF ClientDisconnected
        <5>4. ServerDisconnected => serverUp' = FALSE
          BY DEF ServerDisconnected, CloseSession
        <5>. QED  BY <2>2, <4>1, <5>1, <5>2, <5>3, <5>4 DEF RpcNext, Connected
      <4>3. RpcTyped /\ LinkOrdered
        BY <4>2 DEF RpcInv, LinkOrdered
      <4>4. ~ClientDisconnected
        BY <4>1 DEF ClientDisconnected
      <4>. QED  BY <2>2, <4>1, <4>3, <4>4, ClientKeeps, ReceivesKeeps, RequestsKeep, ServerKeeps DEF RpcNext
    <3>. QED  BY <3>1, <3>2 DEF RpcInv, LinkOrdered
  <2>. QED  BY <2>1, <2>2
<1>. QED  BY <1>1, <1>2, PTL DEF RpcSpec

\* A call and its stream end at both ends of the link: no call waits for
\* an answer that cannot come, save one whose response was dropped, and
\* the server knows of every call that its client has given up, for any
\* calls, windows and lengths of streams (the client's rpc layer and the
\* server's session).
THEOREM CallsEndAtBothEnds == RpcSpec => []CallsEnd
<1>1. RpcInv => CallsEnd
  <2>. SUFFICES ASSUME RpcInv PROVE CallsEnd
    OBVIOUS
  <2>1. RpcTypeOK
    BY DEF RpcInv, RpcTyped, RpcTypeOK, Reader
  <2>2. \A c \in Calls : \A T : Quiet(c) => ~Has(up, T, c) /\ ~Has(down, T, c)
    BY DEF Quiet, FramesOf, Has, IsOf
  <2>3. NoHangingCall
    BY <2>2 DEF RpcInv, RpcTyped, NoHangingCall, EndsAgree, DownOrdered
  <2>4. NoOrphanStream
    BY <2>2 DEF RpcInv, NoOrphanStream, UpOrdered
  <2>. QED  BY <2>1, <2>3, <2>4 DEF CallsEnd
<1>. QED  BY <1>1, LinkSound, PTL

-----------------------------------------------------------------------------
(* Induction over the naturals.                                            *)

\* Every set of naturals has a least member.
LEMMA LeastNatural ==
    ASSUME NEW T, T \subseteq Nat, T # {} PROVE \E m \in T : \A k \in T : m <= k
  <1> DEFINE R == OpToRel(<, Nat)
  <1>1. IsWellFoundedOn(R, Nat)
    BY NatLessThanWellFounded, Zenon
  <1>2. PICK x \in T : \A y \in T : ~(<<y, x>> \in R)
    <2> HIDE DEF R
    <2> QED BY <1>1, WFMin
  <1>3. \A y \in T : ~(y < x)
    BY <1>2, Zenon DEF OpToRel
  <1> QED BY <1>3

\* A set with 0 and all successors has every natural.
LEMMA InductionOnSets ==
    ASSUME NEW S, 0 \in S, \A n \in Nat : n \in S => n + 1 \in S PROVE \A n \in Nat : n \in S
  <1> SUFFICES ASSUME NEW b \in Nat, b \notin S PROVE FALSE
    OBVIOUS
  <1> DEFINE T == {n \in Nat : n \notin S}
  <1>1. PICK m \in T : \A k \in T : m <= k
    <2>1. T \subseteq Nat /\ T # {}
      OBVIOUS
    <2> HIDE DEF T
    <2> QED BY <2>1, LeastNatural
  <1>2. m # 0 /\ m - 1 \in Nat
    OBVIOUS
  <1>3. m - 1 \notin T
    BY <1>1, <1>2
  <1> QED BY <1>1, <1>2, <1>3


\* The sums of the prefixes of a sequence of naturals.
IsSum(s, f) ==
    /\ DOMAIN f = 0..Len(s)
    /\ f[0] = 0
    /\ \A i \in 1..Len(s) : f[i] = f[i - 1] + s[i]

\* The sum of a sequence is the last of the sums of its prefixes.
LEMMA SumExists ==
    ASSUME NEW s \in Seq(Nat)
    PROVE  \E f \in [0..Len(s) -> Nat] : IsSum(s, f) /\ Sum(s) = f[Len(s)]
  <1> DEFINE N == Len(s)
             Eq(f, m) == f = [i \in 0..m |-> IF i = 0 THEN 0 ELSE f[i - 1] + s[i]]
             P == CHOOSE f : Eq(f, N)
             S == {m \in Nat : m <= N => \E f \in [0..m -> Nat] : Eq(f, m)}
  <1>1. N \in Nat /\ \A i \in 1..N : s[i] \in Nat
    OBVIOUS
  <1>2. Sum(s) = P[N]
    BY DEF Sum
  <1>3. 0 \in S
    <2> DEFINE f == [i \in 0..0 |-> 0]
    <2>1. f \in [0..0 -> Nat] /\ Eq(f, 0)
      OBVIOUS
    <2> HIDE DEF f
    <2> QED BY <2>1
  <1>4. ASSUME NEW m \in Nat, m \in S PROVE m + 1 \in S
    <2>1. CASE m + 1 <= N
      <3>1. PICK f \in [0..m -> Nat] : Eq(f, m)
        BY <1>1, <1>4, <2>1
      <3> DEFINE h == [i \in 0..(m + 1) |-> IF i = m + 1 THEN f[m] + s[m + 1] ELSE f[i]]
      <3>2. m + 1 \in 1..N /\ m \in 0..m /\ s[m + 1] \in Nat /\ f[m] \in Nat
        BY <1>1, <2>1, <3>1
      <3>3. h \in [0..(m + 1) -> Nat]
        BY <3>1, <3>2
      <3>4. ASSUME NEW i \in 0..(m + 1) PROVE h[i] = IF i = 0 THEN 0 ELSE h[i - 1] + s[i]
        <4>1. CASE i = m + 1
          BY <4>1, <3>2
        <4>2. CASE i # m + 1
          <5>1. i \in 0..m /\ h[i] = f[i]
            BY <4>2
          <5>2. f[i] = IF i = 0 THEN 0 ELSE f[i - 1] + s[i]
            BY <3>1, <5>1
          <5>3. i # 0 => i - 1 \in 0..(m + 1) /\ i - 1 # m + 1
            BY <5>1
          <5> QED BY <5>1, <5>2, <5>3
        <4> QED BY <4>1, <4>2
      <3>5. Eq(h, m + 1)
        BY <3>4
      <3>6. \E e \in [0..(m + 1) -> Nat] : Eq(e, m + 1)
        <4> HIDE DEF h, Eq
        <4> QED BY <3>3, <3>5
      <3>7. m + 1 <= N => \E e \in [0..(m + 1) -> Nat] : Eq(e, m + 1)
        BY <3>6, Zenon
      <3>8. m + 1 \in Nat
        OBVIOUS
      <3> HIDE DEF h, Eq, N
      <3> QED BY <3>7, <3>8, Zenon
    <2>2. CASE ~(m + 1 <= N)
      BY <2>2
    <2> QED BY <2>1, <2>2
  <1>5. \A m \in Nat : m \in S
    <2> HIDE DEF S
    <2> QED BY <1>3, <1>4, InductionOnSets
  <1>6. PICK g \in [0..N -> Nat] : Eq(g, N)
    <2>1. N \in S
      BY <1>1, <1>5
    <2> HIDE DEF Eq
    <2> QED BY <1>1, <2>1
  <1>7. Eq(P, N)
    <2> HIDE DEF Eq
    <2> QED BY <1>6
  <1>8. ASSUME NEW f, NEW e \in [0..N -> Nat], Eq(f, N), Eq(e, N) PROVE f = e
    <2> DEFINE T == {m \in Nat : m <= N => f[m] = e[m]}
    <2>1. 0 \in T
      BY <1>1, <1>8
    <2>2. ASSUME NEW m \in Nat, m \in T PROVE m + 1 \in T
      <3>1. m + 1 <= N => m + 1 \in 0..N /\ m + 1 # 0 /\ (m + 1) - 1 = m /\ m <= N
        BY <1>1
      <3> QED BY <1>8, <2>2, <3>1
    <2>3. \A m \in Nat : m \in T
      <3> HIDE DEF T
      <3> QED BY <2>1, <2>2, InductionOnSets
    <2>4. \A i \in 0..N : f[i] = e[i]
      BY <1>1, <2>3
    <2>5. DOMAIN f = 0..N /\ f = [i \in 0..N |-> f[i]]
      BY <1>8
    <2>6. e = [i \in 0..N |-> e[i]]
      OBVIOUS
    <2> QED BY <2>4, <2>5, <2>6
  <1>9. P = g
    <2> HIDE DEF P, Eq
    <2> QED BY <1>6, <1>7, <1>8
  <1>10. IsSum(s, g)
    <2> HIDE DEF P
    <2>1. ASSUME NEW i \in 0..N PROVE g[i] = IF i = 0 THEN 0 ELSE g[i - 1] + s[i]
      BY <1>6
    <2>2. 0 \in 0..N /\ \A i \in 1..N : i \in 0..N /\ i # 0
      BY <1>1
    <2>3. g[0] = 0 /\ \A i \in 1..N : g[i] = g[i - 1] + s[i]
      BY <2>1, <2>2
    <2> QED BY <2>3 DEF IsSum
  <1> HIDE DEF P
  <1> QED BY <1>2, <1>9, <1>10

\* Two ways to compute a sum agree.
LEMMA SumUnique ==
    ASSUME NEW s \in Seq(Nat), NEW f, IsSum(s, f)
    PROVE  Sum(s) = f[Len(s)] /\ \A i \in 0..Len(s) : f[i] \in Nat
  <1>1. PICK g \in [0..Len(s) -> Nat] : IsSum(s, g) /\ Sum(s) = g[Len(s)]
    BY SumExists
  <1> DEFINE N == Len(s)
             T == {m \in Nat : m <= N => f[m] = g[m]}
  <1>2. N \in Nat
    OBVIOUS
  <1>3. 0 \in T
    BY <1>1 DEF IsSum
  <1>4. ASSUME NEW m \in Nat, m \in T PROVE m + 1 \in T
    <2>1. m + 1 <= N => m + 1 \in 1..N /\ (m + 1) - 1 = m /\ m <= N
      BY <1>2
    <2> QED BY <1>1, <1>4, <2>1 DEF IsSum
  <1>5. \A m \in Nat : m \in T
    <2> HIDE DEF T
    <2> QED BY <1>3, <1>4, InductionOnSets
  <1>6. \A i \in 0..N : f[i] = g[i]
    BY <1>2, <1>5
  <1> QED BY <1>1, <1>2, <1>6

\* One number more at the end, or one less at the front.
LEMMA SumFacts ==
    /\ Sum(<<>>) = 0
    /\ \A s \in Seq(Nat) : Sum(s) \in Nat
    /\ \A s \in Seq(Nat), n \in Nat : Sum(Append(s, n)) = Sum(s) + n
    /\ \A s \in Seq(Nat) : s # <<>> => Sum(s) = Head(s) + Sum(Tail(s))
  <1>1. \A s \in Seq(Nat) : Sum(s) \in Nat
    BY SumExists
  <1>2. Sum(<<>>) = 0
    <2> DEFINE s == <<>>
    <2>1. s \in Seq(Nat) /\ Len(s) = 0
      OBVIOUS
    <2> HIDE DEF s
    <2>2. PICK f \in [0..Len(s) -> Nat] : IsSum(s, f) /\ Sum(s) = f[Len(s)]
      BY <2>1, SumExists
    <2> QED BY <2>1, <2>2 DEF IsSum, s
  <1>3. ASSUME NEW s \in Seq(Nat), NEW n \in Nat PROVE Sum(Append(s, n)) = Sum(s) + n
    <2> DEFINE t == Append(s, n)
               N == Len(s)
    <2>1. PICK f \in [0..N -> Nat] : IsSum(s, f) /\ Sum(s) = f[N]
      BY SumExists
    <2>2. /\ t \in Seq(Nat) /\ N \in Nat /\ Len(t) = N + 1 /\ t[N + 1] = n
          /\ \A i \in 1..N : t[i] = s[i]
      OBVIOUS
    <2> DEFINE h == [i \in 0..(N + 1) |-> IF i = N + 1 THEN f[N] + n ELSE f[i]]
    <2>3. h[N + 1] = f[N] + n /\ h[0] = 0 /\ DOMAIN h = 0..(N + 1)
      BY <2>1, <2>2 DEF IsSum
    <2>4. ASSUME NEW i \in 1..(N + 1) PROVE h[i] = h[i - 1] + t[i]
      <3>1. CASE i = N + 1
        BY <2>2, <3>1
      <3>2. CASE i # N + 1
        <4>1. i \in 1..N /\ i - 1 \in 0..N /\ i \in 0..N /\ i - 1 # N + 1
          BY <2>2, <3>2
        <4> QED BY <2>1, <2>2, <4>1 DEF IsSum
      <3> QED BY <3>1, <3>2
    <2> HIDE DEF h, t, N
    <2>5. IsSum(t, h)
      BY <2>2, <2>3, <2>4 DEF IsSum
    <2>6. Sum(t) = h[Len(t)]
      BY <2>2, <2>5, SumUnique
    <2> QED BY <2>1, <2>2, <2>3, <2>6 DEF t
  <1>4. ASSUME NEW s \in Seq(Nat), s # <<>> PROVE Sum(s) = Head(s) + Sum(Tail(s))
    <2> DEFINE t == Tail(s)
               M == Len(t)
               a == Head(s)
    <2>1. PICK f \in [0..M -> Nat] : IsSum(t, f) /\ Sum(t) = f[M]
      BY SumExists
    <2>2. /\ t \in Seq(Nat) /\ M \in Nat /\ Len(s) = M + 1 /\ a = s[1] /\ a \in Nat
          /\ \A i \in 1..M : t[i] = s[i + 1]
      BY <1>4
    <2> DEFINE h == [i \in 0..(M + 1) |-> IF i = 0 THEN 0 ELSE a + f[i - 1]]
    <2> HIDE DEF t, M, a
    <2>3. h[0] = 0 /\ DOMAIN h = 0..(M + 1) /\ h[M + 1] = a + f[M]
      BY <2>2
    <2>4. ASSUME NEW i \in 1..(M + 1) PROVE h[i] = h[i - 1] + s[i]
      <3>1. CASE i = 1
        BY <2>1, <2>2, <3>1 DEF IsSum
      <3>2. CASE i # 1
        <4>1. i - 1 \in 1..M /\ i \in 0..(M + 1) /\ i # 0 /\ i - 1 \in 0..(M + 1) /\ i - 1 # 0
          BY <2>2, <3>2
        <4>2. h[i] = a + f[i - 1] /\ h[i - 1] = a + f[(i - 1) - 1]
          BY <4>1
        <4>3. f[i - 1] = f[(i - 1) - 1] + t[i - 1]
          BY <2>1, <4>1 DEF IsSum, M
        <4>4. t[i - 1] = s[i]
          BY <2>2, <4>1
        <4>5. (i - 1) - 1 \in 0..M /\ f[(i - 1) - 1] \in Nat
          BY <2>1, <2>2, <4>1
        <4>6. t[i - 1] \in Nat
          BY <2>2, <4>1 DEF M
        <4> QED BY <2>2, <4>2, <4>3, <4>4, <4>5, <4>6
      <3> QED BY <3>1, <3>2
    <2> HIDE DEF h
    <2>5. IsSum(s, h)
      BY <2>2, <2>3, <2>4 DEF IsSum
    <2>6. Sum(s) = h[M + 1]
      BY <2>2, <2>5, SumUnique
    <2> QED BY <2>1, <2>2, <2>3, <2>6 DEF t, a
  <1> QED BY <1>1, <1>2, <1>3, <1>4

\* A sum of nothing but zeros.
LEMMA SumOfZeros ==
    ASSUME NEW n \in Nat PROVE Sum([i \in 1..n |-> 0]) = 0
  <1> DEFINE s == [i \in 1..n |-> 0]
             f == [i \in 0..n |-> 0]
  <1>1. s \in Seq(Nat) /\ Len(s) = n
    OBVIOUS
  <1>2. IsSum(s, f) /\ f[n] = 0
    BY <1>1 DEF IsSum
  <1> HIDE DEF s, f
  <1>3. Sum(s) = 0
    BY <1>1, <1>2, SumUnique
  <1> QED BY <1>3 DEF s

-----------------------------------------------------------------------------
(* The credits of a stream.                                                *)

Grants(q, c) == [i \in DOMAIN q |-> IF q[i].call = c THEN q[i].size ELSE 0]
GrantsOf(q, c) == Sum(Grants(q, c))
Chunks(q, c) == {i \in FramesOf(q, c) : q[i].type = "RpcStreamChunk"}
ChunksOf(q, c) == Cardinality(Chunks(q, c))

SizeFor(f, c) == IF f.call = c THEN f.size ELSE 0
ChunkFor(f, c) == IF IsOf(f, {"RpcStreamChunk"}, c) THEN 1 ELSE 0

\* What one frame more or less does to the credit granted in a queue ...
LEMMA GrantsCount ==
    ASSUME NEW c
    PROVE  /\ GrantsOf(<<>>, c) = 0
           /\ \A q \in Seq(UpFrames) :
                /\ GrantsOf(q, c) \in Nat
                /\ \A f \in UpFrames : /\ SizeFor(f, c) \in Nat
                                       /\ GrantsOf(Append(q, f), c) = GrantsOf(q, c) + SizeFor(f, c)
                /\ q # <<>> => GrantsOf(q, c) = SizeFor(Head(q), c) + GrantsOf(Tail(q), c)
<1>1. GrantsOf(<<>>, c) = 0
  <2>1. Grants(<<>>, c) = <<>>
    BY DEF Grants
  <2>. QED  BY <2>1, SumFacts DEF GrantsOf
<1>2. \A f \in UpFrames : SizeFor(f, c) \in Nat
  BY DEF UpFrames, SizeFor
<1>3. ASSUME NEW q \in Seq(UpFrames) PROVE Grants(q, c) \in Seq(Nat) /\ Len(Grants(q, c)) = Len(q)
  <2>1. \A i \in 1..Len(q) : q[i] \in UpFrames
    OBVIOUS
  <2>2. \A i \in 1..Len(q) : (IF q[i].call = c THEN q[i].size ELSE 0) \in Nat
    BY <1>2, <2>1 DEF SizeFor
  <2>3. Grants(q, c) = [i \in 1..Len(q) |-> IF q[i].call = c THEN q[i].size ELSE 0]
    BY DEF Grants
  <2>. QED  BY <2>2, <2>3
<1>4. ASSUME NEW q \in Seq(UpFrames), NEW f \in UpFrames
      PROVE  GrantsOf(Append(q, f), c) = GrantsOf(q, c) + SizeFor(f, c)
  <2>1. Grants(Append(q, f), c) = Append(Grants(q, c), SizeFor(f, c))
    <3> DEFINE p == Append(q, f)
               s == Grants(p, c)
               t == Append(Grants(q, c), SizeFor(f, c))
               n == Len(q)
    <3>1. n \in Nat /\ p \in Seq(UpFrames) /\ Len(p) = n + 1 /\ p[n + 1] = f /\ \A i \in 1..n : p[i] = q[i]
      OBVIOUS
    <3>2. s \in Seq(Nat) /\ Len(s) = n + 1 /\ \A i \in 1..(n + 1) : s[i] = SizeFor(p[i], c)
      <4> HIDE DEF p, n
      <4>1. s \in Seq(Nat) /\ Len(s) = n + 1
        BY <1>3, <3>1
      <4>2. DOMAIN p = 1..(n + 1)
        BY <3>1
      <4>. QED  BY <4>1, <4>2 DEF Grants, SizeFor
    <3>3. t \in Seq(Nat) /\ Len(t) = n + 1 /\ t[n + 1] = SizeFor(f, c) /\ \A i \in 1..n : t[i] = Grants(q, c)[i]
      BY <1>2, <1>3
    <3>4. \A i \in 1..n : Grants(q, c)[i] = SizeFor(q[i], c)
      BY DEF Grants, SizeFor
    <3> HIDE DEF p, s, t, n
    <3>5. \A i \in 1..(n + 1) : s[i] = t[i]
      BY <3>1, <3>2, <3>3, <3>4
    <3>. QED  BY <3>1, <3>2, <3>3, <3>5 DEF s, t, p
  <2>. QED  BY <1>2, <1>3, <2>1, SumFacts DEF GrantsOf
<1>5. ASSUME NEW q \in Seq(UpFrames), q # <<>>
      PROVE  GrantsOf(q, c) = SizeFor(Head(q), c) + GrantsOf(Tail(q), c)
  <2> DEFINE s == Grants(q, c)
             t == Grants(Tail(q), c)
  <2>1. s \in Seq(Nat) /\ s # <<>> /\ Head(s) = SizeFor(Head(q), c)
    BY <1>3, <1>5 DEF Grants, SizeFor
  <2>2. Tail(s) = t
    <3> DEFINE n == Len(q)
    <3>1. n \in Nat \ {0} /\ Tail(q) \in Seq(UpFrames) /\ Len(Tail(q)) = n - 1 /\ Len(s) = n
      BY <1>3, <1>5
    <3>2. Len(Tail(s)) = n - 1 /\ Tail(s) \in Seq(Nat) /\ \A i \in 1..(n - 1) : Tail(s)[i] = s[i + 1]
      BY <2>1, <3>1
    <3>3. Len(t) = n - 1 /\ t \in Seq(Nat)
      BY <1>3, <3>1
    <3>4. \A i \in 1..(n - 1) : t[i] = SizeFor(Tail(q)[i], c) /\ Tail(q)[i] = q[i + 1]
      BY <1>5, <3>1 DEF Grants, SizeFor
    <3>5. \A i \in 1..(n - 1) : i + 1 \in 1..n /\ s[i + 1] = SizeFor(q[i + 1], c)
      BY <3>1 DEF Grants, SizeFor
    <3> DEFINE u == Tail(s)
    <3> HIDE DEF s, t
    <3>6. Len(u) = n - 1 /\ u \in Seq(Nat) /\ \A i \in 1..(n - 1) : u[i] = t[i]
      BY <3>2, <3>4, <3>5
    <3> HIDE DEF u, n
    <3>7. u = t
      BY <3>1, <3>3, <3>6
    <3>. QED  BY <3>7 DEF u
  <2> HIDE DEF s, t
  <2>3. Sum(s) = Head(s) + Sum(Tail(s))
    BY <2>1, SumFacts
  <2>. QED  BY <2>1, <2>2, <2>3 DEF GrantsOf, s, t
<1>. QED  BY <1>1, <1>2, <1>3, <1>4, <1>5, SumFacts DEF GrantsOf

\* ... and to the chunks.
LEMMA ChunksCount ==
    ASSUME NEW c
    PROVE  /\ ChunksOf(<<>>, c) = 0
           /\ \A q \in Seq(DownFrames) :
                /\ ChunksOf(q, c) \in Nat
                /\ \A f \in DownFrames : ChunksOf(Append(q, f), c) = ChunksOf(q, c) + ChunkFor(f, c)
                /\ q # <<>> => ChunksOf(q, c) = ChunkFor(Head(q), c) + ChunksOf(Tail(q), c)
<1>0. ASSUME NEW q PROVE Chunks(q, c) = {i \in DOMAIN q : IsOf(q[i], {"RpcStreamChunk"}, c)}
  BY DEF Chunks, FramesOf, IsOf
<1>1. ChunksOf(<<>>, c) = 0
  <2>1. Chunks(<<>>, c) = {}
    BY DEF Chunks, FramesOf
  <2>. QED  BY <2>1, FS_EmptySet DEF ChunksOf
<1>2. ASSUME NEW q \in Seq(DownFrames) PROVE IsFiniteSet(Chunks(q, c)) /\ ChunksOf(q, c) \in Nat
  <2>1. IsFiniteSet(1..Len(q)) /\ Chunks(q, c) \subseteq 1..Len(q)
    BY <1>0, FS_Interval
  <2>. QED  BY <2>1, FS_Subset, FS_CardinalityType DEF ChunksOf
<1>3. ASSUME NEW q \in Seq(DownFrames), NEW f \in DownFrames
      PROVE  ChunksOf(Append(q, f), c) = ChunksOf(q, c) + ChunkFor(f, c)
  <2> DEFINE p == Append(q, f)
             n == Len(q)
  <2>1. n \in Nat /\ DOMAIN q = 1..n /\ DOMAIN p = 1..(n + 1) /\ p[n + 1] = f /\ \A i \in 1..n : p[i] = q[i]
    OBVIOUS
  <2> HIDE DEF p, n
  <2>2. /\ IsOf(f, {"RpcStreamChunk"}, c) => Chunks(p, c) = Chunks(q, c) \cup {n + 1}
        /\ ~IsOf(f, {"RpcStreamChunk"}, c) => Chunks(p, c) = Chunks(q, c)
    <3>1. \A i : i \in 1..(n + 1) <=> i \in 1..n \/ i = n + 1
      BY <2>1
    <3>2. \A i : i \in Chunks(p, c) <=> i \in 1..(n + 1) /\ IsOf(p[i], {"RpcStreamChunk"}, c)
      BY <1>0, <2>1
    <3>3. \A i : i \in Chunks(q, c) <=> i \in 1..n /\ IsOf(q[i], {"RpcStreamChunk"}, c)
      BY <1>0, <2>1
    <3>4. \A i : i \in Chunks(p, c) <=> i \in Chunks(q, c) \/ (i = n + 1 /\ IsOf(f, {"RpcStreamChunk"}, c))
      BY <2>1, <3>1, <3>2, <3>3
    <3>. QED  BY <3>4
  <2>3. n + 1 \notin Chunks(q, c)
    BY <1>0, <2>1
  <2>4. IsFiniteSet(Chunks(q, c)) /\ Cardinality(Chunks(q, c)) \in Nat
    BY <1>2 DEF ChunksOf
  <2>5. Cardinality(Chunks(q, c) \cup {n + 1}) = Cardinality(Chunks(q, c)) + 1
    BY <2>3, <2>4, FS_AddElement
  <2>6. ChunksOf(p, c) = ChunksOf(q, c) + ChunkFor(f, c)
    <3>1. CASE IsOf(f, {"RpcStreamChunk"}, c)
      BY <2>2, <2>5, <3>1 DEF ChunksOf, ChunkFor
    <3>2. CASE ~IsOf(f, {"RpcStreamChunk"}, c)
      BY <2>2, <2>4, <3>2 DEF ChunksOf, ChunkFor
    <3>. QED  BY <3>1, <3>2
  <2>. QED  BY <2>6 DEF p
<1>4. ASSUME NEW q \in Seq(DownFrames), q # <<>>
      PROVE  ChunksOf(q, c) = ChunkFor(Head(q), c) + ChunksOf(Tail(q), c)
  <2> DEFINE p == Tail(q)
             n == Len(q)
             C == Chunks(p, c)
             D == Chunks(q, c) \ {1}
             g == [i \in C |-> i + 1]
  <2>1. /\ n \in Nat \ {0} /\ DOMAIN q = 1..n /\ DOMAIN p = 1..(n - 1) /\ p \in Seq(DownFrames)
        /\ Head(q) = q[1] /\ \A i \in 1..(n - 1) : p[i] = q[i + 1]
    BY <1>4
  <2> HIDE DEF p, n
  <2>2. \A i \in 1..(n - 1) : i \in C <=> i + 1 \in Chunks(q, c)
    BY <1>0, <2>1
  <2>3. C \subseteq 1..(n - 1) /\ Chunks(q, c) \subseteq 1..n
    BY <1>0, <2>1
  <2> HIDE DEF C
  <2>4. g \in Bijection(C, D)
    <3>1. \A i \in C : g[i] = i + 1 /\ i + 1 \in D /\ i \in Nat
      BY <2>1, <2>2, <2>3
    <3>2. \A j \in D : j - 1 \in C /\ j \in Nat
      BY <2>1, <2>2, <2>3
    <3>3. \A j \in D : \E i \in C : g[i] = j
      BY <3>1, <3>2
    <3>. QED  BY <3>1, <3>3 DEF Bijection, Injection, Surjection, IsInjective
  <2>5. IsFiniteSet(C) /\ IsFiniteSet(Chunks(q, c))
    BY <1>2, <2>1 DEF C
  <2>6. Cardinality(D) = Cardinality(C) /\ IsFiniteSet(D)
    <3> HIDE DEF D, g
    <3>1. ExistsBijection(C, D)
      BY <2>4 DEF ExistsBijection
    <3>. QED  BY <2>5, <3>1, FS_Bijection
  <2>7. 1 \in Chunks(q, c) <=> IsOf(Head(q), {"RpcStreamChunk"}, c)
    BY <1>0, <2>1
  <2>8. CASE 1 \in Chunks(q, c)
    <3>1. Cardinality(D) = Cardinality(Chunks(q, c)) - 1
      BY <2>5, <2>8, FS_RemoveElement
    <3>. QED  BY <1>2, <2>6, <2>7, <2>8, <3>1 DEF ChunksOf, ChunkFor, C, p
  <2>9. CASE 1 \notin Chunks(q, c)
    <3>1. D = Chunks(q, c)
      BY <2>9
    <3>2. Cardinality(C) = Cardinality(Chunks(q, c)) /\ Cardinality(C) \in Nat
      BY <2>5, <2>6, <3>1, FS_CardinalityType
    <3>. QED  BY <2>7, <2>9, <3>2 DEF ChunksOf, ChunkFor, C, p
  <2>. QED  BY <2>8, <2>9
<1>. QED  BY <1>1, <1>2, <1>3, <1>4

\* The chunks of c that were granted and not yet read, wherever they are.
\* Of a stream that has been read they are a window less the reads since
\* the last refill: at most that always, exactly that while both ends have
\* the stream.  Before the first read there are none.
Ahead(c) == GrantsOf(up, c) + credits[c] + reader[c].buffered + ChunksOf(down, c)

AllGranted(r) == Window + r.untilRefill + (IF r.reading THEN 1 ELSE 0)

CreditOk(c) ==
    LET r == reader[c]
    IN  /\ r.untilRefill <= Refill
        /\ r.initial => r.untilRefill = Refill /\ ~r.reading /\ r.buffered = 0
        /\ call[c] \in {"idle", "pending"} => r.initial
        /\ call[c] \in {"idle", "pending", "streaming"} /\ r.initial => Ahead(c) = 0
        /\ call[c] = "streaming" /\ ~r.initial =>
            /\ r.reading => r.buffered = 0
            /\ Ahead(c) + Refill + 1 <= AllGranted(r)
            /\ Connected /\ srv[c] = "stream" => Ahead(c) + Refill + 1 = AllGranted(r)

OnlyPullsGrant == \A i \in DOMAIN up : up[i].type # "RpcStreamPull" => up[i].size = 0

CreditInv == OnlyPullsGrant /\ \A c \in Calls : CreditOk(c)

\* A refill is positive and not more than the window.
LEMMA RefillFits == Refill \in Nat \ {0} /\ Refill <= Window /\ Window \in Nat
BY RpcAssumption DEF Refill

\* What is ahead of a reader is a number.
LEMMA AheadTyped ==
    ASSUME RpcTyped, NEW c \in Calls
    PROVE  /\ GrantsOf(up, c) \in Nat /\ ChunksOf(down, c) \in Nat /\ credits[c] \in Nat /\ reader[c] \in Reader
           /\ reader[c].buffered \in Nat /\ reader[c].untilRefill \in Nat \ {0} /\ Ahead(c) \in Nat
           /\ AllGranted(reader[c]) \in Nat
<1>1. GrantsOf(up, c) \in Nat /\ ChunksOf(down, c) \in Nat
  BY GrantsCount, ChunksCount DEF RpcTyped
<1>2. credits[c] \in Nat /\ reader[c] \in Reader
  BY DEF RpcTyped
<1>3. reader[c].buffered \in Nat /\ reader[c].untilRefill \in Nat \ {0}
  BY <1>2 DEF Reader
<1>. QED  BY <1>1, <1>2, <1>3, RefillFits DEF Ahead, AllGranted

\* A step that leaves a reader alone, and loses credit only where the
\* stream is over at one of the ends.
LEMMA CreditStays ==
    ASSUME RpcTyped, RpcTyped', NEW c \in Calls, CreditOk(c), reader'[c] = reader[c],
           call'[c] \in {call[c], "settled", "draining"} \/ (call[c] = "idle" /\ call'[c] = "pending")
               \/ (call[c] = "pending" /\ call'[c] = "streaming"),
           Ahead(c)' <= Ahead(c),
           Connected' /\ srv'[c] = "stream" /\ call[c] = "streaming" /\ call'[c] = "streaming" =>
                Connected /\ srv[c] = "stream" /\ Ahead(c)' = Ahead(c)
    PROVE  CreditOk(c)'
<1> DEFINE r == reader[c]
<1>1. Ahead(c) \in Nat /\ Ahead(c)' \in Nat /\ AllGranted(r) \in Nat /\ Refill \in Nat
  <2>1. GrantsOf(up', c) \in Nat /\ ChunksOf(down', c) \in Nat /\ credits'[c] \in Nat
    BY GrantsCount, ChunksCount DEF RpcTyped
  <2>2. reader'[c].buffered \in Nat
    BY AheadTyped
  <2>3. Ahead(c)' \in Nat
    BY <2>1, <2>2 DEF Ahead
  <2>. QED  BY <2>3, AheadTyped, RefillFits
<1>2. AllGranted(reader[c])' = AllGranted(r)
  BY DEF AllGranted
<1>3. /\ r.untilRefill <= Refill
      /\ r.initial => r.untilRefill = Refill /\ ~r.reading /\ r.buffered = 0
      /\ call'[c] \in {"idle", "pending"} => r.initial
      /\ call'[c] \in {"idle", "pending", "streaming"} /\ r.initial => Ahead(c)' = 0
  <2>1. call'[c] \in {"idle", "pending", "streaming"} => call[c] \in {"idle", "pending", "streaming"}
    OBVIOUS
  <2>2. call'[c] \in {"idle", "pending"} => call[c] \in {"idle", "pending"}
    OBVIOUS
  <2>. QED  BY <1>1, <2>1, <2>2 DEF CreditOk
<1>4. ASSUME call'[c] = "streaming", ~r.initial
      PROVE  /\ r.reading => r.buffered = 0
             /\ Ahead(c)' + Refill + 1 <= AllGranted(r)
             /\ (Connected /\ srv[c] = "stream")' => Ahead(c)' + Refill + 1 = AllGranted(r)
  <2>1. call[c] = "streaming"
    BY <1>4 DEF CreditOk
  <2>. QED  BY <1>1, <1>4, <2>1 DEF CreditOk
<1> HIDE DEF r
<1>. QED  BY <1>2, <1>3, <1>4 DEF CreditOk, r

\* What the frames that are sent count for.
LEMMA FrameCounts ==
    /\ \A t, c, d : SizeFor(Frame(t, c), d) = 0
    /\ \A c, n, d : SizeFor(Pull(c, n), d) = IF c = d THEN n ELSE 0
    /\ \A t, c, d : ChunkFor(Frame(t, c), d) = IF c = d /\ t = "RpcStreamChunk" THEN 1 ELSE 0
    /\ \A t, c : Frame(t, c).size = 0 /\ Frame(t, c).type = t
    /\ \A c, n : Pull(c, n).type = "RpcStreamPull"
BY DEF SizeFor, ChunkFor, IsOf, Frame, Pull

\* Frames without a size grant nothing.
LEMMA NothingGranted ==
    ASSUME NEW q \in Seq(UpFrames), NEW f \in UpFrames, f.size = 0, NEW c
    PROVE  GrantsOf(Append(q, f), c) = GrantsOf(q, c)
<1>1. SizeFor(f, c) = 0
  BY DEF SizeFor
<1>2. GrantsOf(Append(q, f), c) = GrantsOf(q, c) + SizeFor(f, c) /\ GrantsOf(q, c) \in Nat
  BY GrantsCount
<1>. QED  BY <1>1, <1>2

\* The client moves call c on, and may send frames that grant nothing.
LEMMA ClientMoves ==
    ASSUME RpcTyped, RpcTyped', CreditInv, NEW c \in Calls,
           \A d \in Calls : GrantsOf(up', d) = GrantsOf(up, d),
           \A d \in Calls : ChunksOf(down', d) <= ChunksOf(down, d),
           \A d \in Calls : call[d] = "streaming" /\ call'[d] = "streaming" => ChunksOf(down', d) = ChunksOf(down, d),
           UNCHANGED <<srv, credits, reader, clientUp, serverUp>>,
           \A d \in Calls : d # c => call'[d] = call[d],
           call'[c] \in {call[c], "settled", "draining"} \/ (call[c] = "idle" /\ call'[c] = "pending")
               \/ (call[c] = "pending" /\ call'[c] = "streaming")
    PROVE  \A d \in Calls : CreditOk(d)'
<1>. SUFFICES ASSUME NEW d \in Calls PROVE CreditOk(d)'
  OBVIOUS
<1>1. GrantsOf(up, d) \in Nat /\ ChunksOf(down, d) \in Nat /\ credits[d] \in Nat /\ reader[d].buffered \in Nat
  BY AheadTyped
<1>2. ChunksOf(down', d) \in Nat
  BY ChunksCount DEF RpcTyped
<1>3. Ahead(d)' <= Ahead(d) /\ (call[d] = "streaming" /\ call'[d] = "streaming" => Ahead(d)' = Ahead(d))
  BY <1>1, <1>2 DEF Ahead
<1>4. reader'[d] = reader[d] /\ CreditOk(d)
  BY DEF CreditInv
<1>5. /\ Connected' <=> Connected
      /\ srv'[d] = srv[d]
      /\ call'[d] \in {call[d], "settled", "draining"} \/ (call[d] = "idle" /\ call'[d] = "pending")
            \/ (call[d] = "pending" /\ call'[d] = "streaming")
  BY DEF Connected
<1>. QED  BY <1>3, <1>4, <1>5, CreditStays

\* The steps of the client, but for a read and a frame received.
LEMMA ClientCredit ==
    ASSUME RpcTyped, RpcTyped', CreditInv,
           \E c \in Calls : Call(c) \/ AbortCall(c) \/ ReadRest(c)
    PROVE  CreditInv'
<1>1. ASSUME NEW c \in Calls, Call(c) \/ AbortCall(c) PROVE CreditInv'
  <2> DEFINE f == Frame("Rpc", c)
             g == Frame("RpcAbort", c)
  <2>1. f \in UpFrames /\ g \in UpFrames /\ f.size = 0 /\ g.size = 0 /\ up \in Seq(UpFrames)
    BY FrameFacts, FrameCounts DEF RpcTyped
  <2>2. /\ up' \in {Append(up, f), Append(up, g), Append(Append(up, g), g)}
        /\ UNCHANGED <<down, reader, srv, credits, clientUp, serverUp>>
        /\ call' = [call EXCEPT ![c] = call'[c]]
        /\ (call[c] = "idle" /\ call'[c] = "pending") \/ call'[c] = "settled"
    BY <1>1 DEF Call, AbortCall, ClientOnly, RpcTyped
  <2> HIDE DEF f, g
  <2>3. Append(up, g) \in Seq(UpFrames)
    BY <2>1
  <2>4. ASSUME NEW d \in Calls PROVE GrantsOf(up', d) = GrantsOf(up, d)
    <3>1. /\ GrantsOf(Append(up, f), d) = GrantsOf(up, d)
          /\ GrantsOf(Append(up, g), d) = GrantsOf(up, d)
      BY <2>1, NothingGranted
    <3>2. GrantsOf(Append(Append(up, g), g), d) = GrantsOf(Append(up, g), d)
      BY <2>1, <2>3, NothingGranted
    <3>. QED  BY <2>2, <3>1, <3>2
  <2>5. OnlyPullsGrant'
    BY <2>1, <2>2, <2>3 DEF CreditInv, OnlyPullsGrant
  <2>6. \A d \in Calls : ChunksOf(down', d) = ChunksOf(down, d) /\ ChunksOf(down, d) \in Nat
    BY <2>2, AheadTyped
  <2>7. \A d \in Calls : d # c => call'[d] = call[d]
    BY <2>2 DEF RpcTyped
  <2>8. \A d \in Calls : CreditOk(d)'
    BY <2>2, <2>4, <2>6, <2>7, ClientMoves
  <2>. QED  BY <2>5, <2>8 DEF CreditInv
<1>2. ASSUME NEW c \in Calls, ReadRest(c) PROVE CreditInv'
  <2>1. UNCHANGED <<up, down, srv, credits, clientUp, serverUp>> /\ call[c] = "draining"
    BY <1>2 DEF ReadRest, ClientOnly
  <2>2. OnlyPullsGrant'
    BY <2>1 DEF CreditInv, OnlyPullsGrant
  <2>3. \A d \in Calls : /\ ChunksOf(down', d) = ChunksOf(down, d) /\ ChunksOf(down, d) \in Nat
                         /\ GrantsOf(up', d) = GrantsOf(up, d)
    BY <2>1, AheadTyped
  <2>4. CASE reader[c].buffered = 0
    <3>1. call' = [call EXCEPT ![c] = "settled"] /\ reader' = reader
      BY <1>2, <2>4 DEF ReadRest
    <3>2. call'[c] = "settled" /\ \A d \in Calls : d # c => call'[d] = call[d]
      BY <3>1 DEF RpcTyped
    <3>3. \A d \in Calls : CreditOk(d)'
      BY <2>1, <2>3, <3>1, <3>2, ClientMoves
    <3>. QED  BY <2>2, <3>3 DEF CreditInv
  <2>5. CASE reader[c].buffered # 0
    <3>1. call' = call /\ reader' = [reader EXCEPT ![c].buffered = @ - 1]
      BY <1>2, <2>5 DEF ReadRest
    <3>2. ASSUME NEW d \in Calls, d # c PROVE CreditOk(d)'
      <4>1. reader'[d] = reader[d] /\ CreditOk(d) /\ Ahead(d)' = Ahead(d) /\ Ahead(d) \in Nat
        BY <2>1, <2>3, <3>1, <3>2, AheadTyped DEF CreditInv, Ahead, RpcTyped
      <4>. QED  BY <2>1, <3>1, <4>1, CreditStays DEF Connected
    <3>3. CreditOk(c)'
      <4>1. CreditOk(c) /\ ~reader[c].initial /\ reader[c] \in Reader
        BY <2>5 DEF CreditInv, CreditOk, RpcTyped
      <4>2. /\ reader'[c].untilRefill = reader[c].untilRefill
            /\ reader'[c].initial = reader[c].initial
        BY <3>1, <4>1 DEF Reader, RpcTyped
      <4>. QED  BY <2>1, <3>1, <4>1, <4>2 DEF CreditOk
    <3>. QED  BY <2>2, <3>2, <3>3 DEF CreditInv
  <2>. QED  BY <2>4, <2>5
<1>. QED  BY <1>1, <1>2

\* A read.
LEMMA ReadCredit ==
    ASSUME RpcTyped, RpcTyped', CreditInv, NEW c \in Calls, Read(c)
    PROVE  CreditInv'
<1> DEFINE r == reader[c]
           g == Grant(r)
           k == g[1]
           s == g[2]
           t == reader'[c]
<1>1. r \in Reader /\ k \in Nat /\ s \in Reader
  BY GrantTyped DEF RpcTyped
<1>2. /\ call[c] = "streaming" /\ ~r.reading
      /\ UNCHANGED <<call, down, srv, credits, clientUp, serverUp>>
      /\ t = (IF s.buffered > 0 THEN [s EXCEPT !.buffered = @ - 1] ELSE [s EXCEPT !.reading = TRUE])
      /\ \A d \in Calls : d # c => reader'[d] = reader[d]
      /\ up' = IF k = 0 THEN up ELSE Append(up, Pull(c, k))
  BY DEF Read, ClientOnly, RpcTyped
<1>3. r.untilRefill \in Nat \ {0} /\ r.buffered \in Nat /\ r.initial \in BOOLEAN /\ Refill \in Nat \ {0} /\ Window \in Nat
  BY <1>1, RefillFits DEF Reader
<1>4. /\ r.initial => k = Window /\ s = [r EXCEPT !.initial = FALSE]
      /\ ~r.initial /\ r.untilRefill > 1 => k = 0 /\ s = [r EXCEPT !.untilRefill = @ - 1]
      /\ ~r.initial /\ ~(r.untilRefill > 1) => k = Refill /\ s = [r EXCEPT !.untilRefill = Refill]
  <2>1. CASE r.initial
    BY <2>1 DEF Grant
  <2>2. CASE ~r.initial /\ r.untilRefill > 1
    BY <2>2 DEF Grant
  <2>3. CASE ~r.initial /\ ~(r.untilRefill > 1)
    BY <2>3 DEF Grant
  <2>. QED  BY <2>1, <2>2, <2>3
<1> HIDE DEF r, g, k, s, t
<1>5. CreditOk(c) /\ r = reader[c] /\ t = reader'[c]
  BY DEF CreditInv, r, t
<1>6. /\ s.buffered = r.buffered /\ s.reading = r.reading /\ s.initial = FALSE
      /\ s.untilRefill = IF r.initial THEN r.untilRefill ELSE IF r.untilRefill > 1 THEN r.untilRefill - 1 ELSE Refill
  BY <1>1, <1>3, <1>4 DEF Reader
<1>7. /\ t.initial = FALSE /\ t.untilRefill = s.untilRefill
      /\ r.buffered > 0 => t.buffered = r.buffered - 1 /\ t.reading = FALSE
      /\ ~(r.buffered > 0) => t.buffered = r.buffered /\ t.reading = TRUE
  BY <1>1, <1>2, <1>6 DEF Reader
<1>8. \A d \in Calls : GrantsOf(up', d) = GrantsOf(up, d) + IF c = d THEN k ELSE 0
  <2>1. \A d \in Calls : GrantsOf(up, d) \in Nat
    BY AheadTyped
  <2>2. CASE k = 0
    BY <1>2, <2>1, <2>2
  <2>3. CASE k # 0
    <3>1. Pull(c, k) \in UpFrames /\ up' = Append(up, Pull(c, k)) /\ up \in Seq(UpFrames)
      BY <1>1, <1>2, <2>3, FrameFacts DEF RpcTyped
    <3>2. \A d \in Calls : GrantsOf(up', d) = GrantsOf(up, d) + SizeFor(Pull(c, k), d)
      BY <3>1, GrantsCount
    <3>. QED  BY <3>2, FrameCounts
  <2>. QED  BY <2>2, <2>3
<1>9. OnlyPullsGrant'
  <2>1. CASE k = 0
    BY <1>2, <2>1 DEF CreditInv, OnlyPullsGrant
  <2>2. CASE k # 0
    <3>1. Pull(c, k).type = "RpcStreamPull" /\ up' = Append(up, Pull(c, k)) /\ up \in Seq(UpFrames)
      BY <1>2, <2>2, FrameCounts DEF RpcTyped
    <3>. QED  BY <3>1 DEF CreditInv, OnlyPullsGrant
  <2>. QED  BY <2>1, <2>2
<1>10. ASSUME NEW d \in Calls, d # c PROVE CreditOk(d)'
  <2>1. reader'[d] = reader[d] /\ CreditOk(d) /\ Ahead(d)' = Ahead(d) /\ Ahead(d) \in Nat
    <3>1. GrantsOf(up', d) = GrantsOf(up, d)
      BY <1>8, <1>10, AheadTyped
    <3>. QED  BY <1>2, <1>10, <3>1, AheadTyped DEF CreditInv, Ahead
  <2>. QED  BY <1>2, <2>1, CreditStays DEF Connected
<1>11. CreditOk(c)'
  <2> DEFINE o == GrantsOf(up, c) + credits[c] + ChunksOf(down, c)
  <2>1. o \in Nat /\ Ahead(c) = o + r.buffered
    BY <1>5, AheadTyped DEF Ahead
  <2>2. Ahead(c)' = o + k + t.buffered
    <3>1. GrantsOf(up', c) = GrantsOf(up, c) + k
      BY <1>8
    <3>2. t.buffered \in Nat
      BY <1>3, <1>7
    <3>3. GrantsOf(up, c) \in Nat /\ credits[c] \in Nat /\ ChunksOf(down, c) \in Nat
      BY AheadTyped
    <3>4. Ahead(c)' = (GrantsOf(up, c) + k) + credits[c] + t.buffered + ChunksOf(down, c)
      BY <1>2, <1>5, <3>1 DEF Ahead
    <3>. QED  BY <1>1, <3>2, <3>3, <3>4
  <2> HIDE DEF o
  <2>3. t.untilRefill <= Refill
    BY <1>3, <1>5, <1>6, <1>7 DEF CreditOk
  <2>4. t.reading => t.buffered = 0
    BY <1>3, <1>7
  <2>5. AllGranted(t) = Window + t.untilRefill + (IF t.reading THEN 1 ELSE 0)
    BY DEF AllGranted
  <2>6. CASE r.initial
    <3>1. r.untilRefill = Refill /\ r.buffered = 0 /\ Ahead(c) = 0
      BY <1>2, <1>5, <2>6 DEF CreditOk
    <3>2. Ahead(c)' = Window /\ t.untilRefill = Refill /\ t.reading = TRUE
      BY <1>3, <1>4, <1>6, <1>7, <2>1, <2>2, <2>6, <3>1
    <3>3. Ahead(c)' + Refill + 1 = AllGranted(t)
      BY <1>3, <2>5, <3>2
    <3>4. Ahead(c)' + Refill + 1 <= AllGranted(t)
      BY <1>3, <3>2, <3>3
    <3>. QED  BY <1>2, <1>5, <1>7, <2>3, <2>4, <3>3, <3>4 DEF CreditOk
  <2>7. CASE ~r.initial
    <3>0. AllGranted(r) = Window + r.untilRefill
      BY <1>2, <1>3 DEF AllGranted
    <3>1. AllGranted(r) = Window + r.untilRefill /\ o + r.buffered + Refill + 1 <= AllGranted(r)
      BY <1>2, <1>5, <2>1, <2>7, <3>0 DEF CreditOk
    <3>2. Connected /\ srv[c] = "stream" => o + r.buffered + Refill + 1 = AllGranted(r)
      BY <1>2, <1>5, <2>1, <2>7 DEF CreditOk
    <3>3. t.untilRefill = r.untilRefill - 1 + k
      BY <1>3, <1>4, <1>6, <1>7, <2>7
    <3>4. t.buffered + 1 = r.buffered + (IF t.reading THEN 1 ELSE 0) /\ t.buffered \in Nat
      <4>1. CASE r.buffered > 0
        BY <1>3, <1>7, <4>1
      <4>2. CASE ~(r.buffered > 0)
        BY <1>3, <1>7, <4>2
      <4>. QED  BY <4>1, <4>2
    <3>5. /\ Ahead(c)' + Refill + 1 <= AllGranted(t)
          /\ Connected /\ srv[c] = "stream" => Ahead(c)' + Refill + 1 = AllGranted(t)
      BY <1>1, <1>3, <2>1, <2>2, <2>5, <3>1, <3>2, <3>3, <3>4
    <3>. QED  BY <1>2, <1>5, <1>7, <2>3, <2>4, <3>5 DEF CreditOk, Connected
  <2>. QED  BY <2>6, <2>7
<1>. QED  BY <1>9, <1>10, <1>11 DEF CreditInv

\* A queue whose frames grant nothing but by pulls, and one frame more.
LEMMA StillOnlyPulls ==
    ASSUME RpcTyped, OnlyPullsGrant, NEW f, f.size = 0, up' = up \/ up' = Append(up, f)
    PROVE  OnlyPullsGrant'
<1>1. CASE up' = up
  BY <1>1 DEF OnlyPullsGrant
<1>2. CASE up' = Append(up, f)
  <2>1. up \in Seq(UpFrames)
    BY DEF RpcTyped
  <2>. QED  BY <1>2, <2>1 DEF OnlyPullsGrant
<1>. QED  BY <1>1, <1>2

\* A frame of the server at the client.
LEMMA ReceivedCredit ==
    ASSUME RpcTyped, RpcTyped', CreditInv, ClientReceives
    PROVE  CreditInv'
<1> DEFINE f == Head(down)
           b == Frame("Pong", NoCall)
<1>1. /\ down # <<>> /\ down' = Tail(down) /\ f \in DownFrames /\ down \in Seq(DownFrames) /\ up \in Seq(UpFrames)
      /\ UNCHANGED <<srv, credits, clientUp, serverUp>>
  BY DEF ClientReceives, ClientOnly, RpcTyped
<1>2. ASSUME NEW d \in Calls
      PROVE  /\ ChunksOf(down, d) = ChunkFor(f, d) + ChunksOf(down', d)
             /\ ChunksOf(down', d) \in Nat /\ ChunksOf(down, d) \in Nat
             /\ ChunkFor(f, d) = IF f.call = d /\ f.type = "RpcStreamChunk" THEN 1 ELSE 0
  <2>1. ChunksOf(down, d) = ChunkFor(f, d) + ChunksOf(down', d) /\ ChunksOf(down, d) \in Nat
    BY <1>1, ChunksCount
  <2>2. ChunksOf(down', d) \in Nat
    BY ChunksCount DEF RpcTyped
  <2>. QED  BY <2>1, <2>2 DEF ChunkFor, IsOf
<1>3. CASE f.type = "Ping"
  <2>1. call' = call /\ reader' = reader /\ up' = Append(up, b)
    BY <1>3 DEF ClientReceives
  <2>2. b \in UpFrames /\ b.size = 0
    BY FrameFacts, FrameCounts
  <2> HIDE DEF f, b
  <2>3. OnlyPullsGrant'
    BY <2>1, <2>2, StillOnlyPulls DEF CreditInv
  <2>4. \A d \in Calls : GrantsOf(up', d) = GrantsOf(up, d)
    BY <1>1, <2>1, <2>2, NothingGranted
  <2>5. ASSUME NEW d \in Calls PROVE CreditOk(d)'
    <3>1. ChunksOf(down', d) = ChunksOf(down, d)
      BY <1>2, <1>3
    <3>2. Ahead(d)' = Ahead(d) /\ Ahead(d) \in Nat /\ CreditOk(d)
      BY <1>1, <2>1, <2>4, <3>1, AheadTyped DEF Ahead, CreditInv
    <3>. QED  BY <1>1, <2>1, <3>2, CreditStays DEF Connected
  <2>. QED  BY <2>3, <2>5 DEF CreditInv
<1>4. CASE f.type # "Ping"
  <2>0. PICK c \in Calls : c = f.call
    BY <1>1, <1>4 DEF DownFrames
  <2> DEFINE a == Frame("RpcAbort", c)
  <2>1. c \in Calls /\ f.type \in Answers
    BY <1>1, <1>4 DEF DownFrames
  <2>2. a \in UpFrames /\ a.size = 0
    BY <2>1, FrameFacts, FrameCounts
  <2> HIDE DEF a
  <2>3. ASSUME up' = up \/ up' = Append(up, a) PROVE OnlyPullsGrant' /\ \A d \in Calls : GrantsOf(up', d) = GrantsOf(up, d)
    <3>1. OnlyPullsGrant'
      BY <2>2, <2>3, StillOnlyPulls DEF CreditInv
    <3>. QED  BY <1>1, <2>2, <2>3, <3>1, NothingGranted
  <2>4. CreditOk(c) /\ reader[c] \in Reader
    BY <2>1 DEF CreditInv, RpcTyped
  <2>5. ASSUME up' = up \/ up' = Append(up, a), NEW s, call' = [call EXCEPT ![c] = s], reader' = reader,
               s \in {call[c], "settled", "draining"} \/ (call[c] = "pending" /\ s = "streaming"),
               s = "streaming" => f.type # "RpcStreamChunk"
        PROVE  CreditInv'
    <3>1. \A d \in Calls : d # c => call'[d] = call[d]
      BY <2>5 DEF RpcTyped
    <3>2. call'[c] = s
      BY <2>1, <2>5 DEF RpcTyped
    <3>3. \A d \in Calls : ChunksOf(down', d) <= ChunksOf(down, d)
      BY <1>2
    <3>4. \A d \in Calls : call[d] = "streaming" /\ call'[d] = "streaming" => ChunksOf(down', d) = ChunksOf(down, d)
      BY <1>2, <2>0, <2>5, <3>2
    <3>5. \A d \in Calls : GrantsOf(up', d) = GrantsOf(up, d)
      BY <2>3, <2>5
    <3> HIDE DEF f
    <3>6. \A d \in Calls : CreditOk(d)'
      BY <1>1, <2>1, <2>5, <3>1, <3>2, <3>3, <3>4, <3>5, ClientMoves
    <3>. QED  BY <2>3, <2>5, <3>6 DEF CreditInv
  <2>6. call = [call EXCEPT ![c] = call[c]]
    BY <2>1 DEF RpcTyped
  <2>7. CASE f.type = "RpcResponse"
    <3>1. OnRpcResponse(c)
      BY <2>0, <2>7 DEF ClientReceives
    <3>2. /\ call' = [call EXCEPT ![c] = IF call[c] = "pending" THEN "settled" ELSE call[c]]
          /\ reader' = reader /\ (up' = up \/ up' = Append(up, a))
      BY <2>6, <3>1 DEF OnRpcResponse, a
    <3>. QED  BY <2>5, <2>7, <3>2
  <2>8. CASE f.type = "RpcStreamResponse"
    <3>1. OnRpcStreamResponse(c)
      BY <2>0, <2>8 DEF ClientReceives
    <3>2. /\ call' = [call EXCEPT ![c] = IF call[c] = "pending" THEN "streaming" ELSE call[c]]
          /\ reader' = reader /\ (up' = up \/ up' = Append(up, a))
      BY <2>6, <3>1 DEF OnRpcStreamResponse, a
    <3>. QED  BY <2>5, <2>8, <3>2
  <2>9. CASE f.type = "RpcStreamAbort"
    <3>1. OnRpcStreamAbort(c)
      BY <2>0, <2>9 DEF ClientReceives
    <3>2. /\ call' = [call EXCEPT ![c] = IF call[c] \in {"pending", "streaming"} THEN "settled" ELSE call[c]]
          /\ reader' = reader /\ (up' = up \/ up' = Append(up, a))
      BY <2>6, <3>1 DEF OnRpcStreamAbort, a
    <3>. QED  BY <2>5, <2>9, <3>2
  <2>10. ASSUME NEW d \in Calls, d # c, up' = up \/ up' = Append(up, a), reader'[d] = reader[d], call'[d] = call[d]
         PROVE  CreditOk(d)'
    <3>1. ChunksOf(down', d) = ChunksOf(down, d)
      BY <1>2, <2>0, <2>10
    <3>2. GrantsOf(up', d) = GrantsOf(up, d)
      BY <2>3, <2>10
    <3>3. Ahead(d)' = Ahead(d) /\ Ahead(d) \in Nat /\ CreditOk(d)
      BY <1>1, <2>10, <3>1, <3>2, AheadTyped DEF Ahead, CreditInv
    <3>. QED  BY <1>1, <2>10, <3>3, CreditStays DEF Connected
  <2>11. CASE f.type = "RpcStreamEnd"
    <3>1. OnRpcStreamEnd(c)
      BY <2>0, <2>11 DEF ClientReceives
    <3>2. /\ call' = [call EXCEPT ![c] = IF @ = "streaming" THEN "draining" ELSE @]
          /\ reader' = [reader EXCEPT ![c].reading = FALSE] /\ up' = up
      BY <3>1 DEF OnRpcStreamEnd
    <3>3. \A d \in Calls : d # c => reader'[d] = reader[d] /\ call'[d] = call[d]
      BY <3>2 DEF RpcTyped
    <3>4. /\ reader'[c].reading = FALSE
          /\ reader'[c].initial = reader[c].initial /\ reader'[c].buffered = reader[c].buffered
          /\ reader'[c].untilRefill = reader[c].untilRefill
      BY <2>1, <2>4, <3>2 DEF Reader, RpcTyped
    <3>5. call'[c] = IF call[c] = "streaming" THEN "draining" ELSE call[c]
      BY <2>1, <3>2 DEF RpcTyped
    <3>6. ChunksOf(down', c) = ChunksOf(down, c)
      BY <1>2, <2>0, <2>11
    <3>7. Ahead(c)' = Ahead(c)
      BY <1>1, <3>2, <3>4, <3>6 DEF Ahead
    <3>8. CreditOk(c)'
      BY <2>4, <3>4, <3>5, <3>7 DEF CreditOk
    <3>. QED  BY <2>3, <2>10, <3>2, <3>3, <3>8 DEF CreditInv
  <2>12. CASE f.type = "RpcStreamChunk"
    <3>1. OnRpcStreamChunk(c)
      BY <2>0, <2>12 DEF ClientReceives
    <3>2. CASE call[c] = "streaming" /\ call' = [call EXCEPT ![c] = "settled"] /\ up' = Append(up, a) /\ reader' = reader
      BY <2>5, <3>2
    <3>3. CASE call[c] # "streaming" /\ reader' = reader /\ call' = call /\ up' = up
      BY <2>5, <2>6, <3>3
    <3>4. CASE /\ call[c] = "streaming" /\ call' = call /\ up' = up
               /\ IF reader[c].reading THEN reader' = [reader EXCEPT ![c].reading = FALSE]
                  ELSE reader' = [reader EXCEPT ![c].buffered = @ + 1]
      <4>1. \A d \in Calls : d # c => reader'[d] = reader[d] /\ call'[d] = call[d]
        BY <3>4 DEF RpcTyped
      <4>2. ChunksOf(down, c) = 1 + ChunksOf(down', c) /\ ChunksOf(down', c) \in Nat
        BY <1>2, <2>0, <2>12
      <4>3. GrantsOf(up, c) \in Nat /\ credits[c] \in Nat /\ reader[c].buffered \in Nat
            /\ reader[c].untilRefill \in Nat /\ Refill \in Nat /\ Window \in Nat
        BY <2>1, AheadTyped, RefillFits
      <4>4. Ahead(c) = GrantsOf(up, c) + credits[c] + reader[c].buffered + (1 + ChunksOf(down', c))
        BY <4>2 DEF Ahead
      <4>5. Ahead(c)' = GrantsOf(up, c) + credits[c] + reader'[c].buffered + ChunksOf(down', c)
        BY <1>1, <3>4 DEF Ahead
      <4>6. ~reader[c].initial
        BY <2>4, <3>4, <4>2, <4>3, <4>4 DEF CreditOk
      <4>7. CASE reader[c].reading
        <5>1. /\ reader'[c].reading = FALSE
              /\ reader'[c].initial = reader[c].initial /\ reader'[c].buffered = reader[c].buffered
              /\ reader'[c].untilRefill = reader[c].untilRefill
          BY <2>1, <2>4, <3>4, <4>7 DEF Reader, RpcTyped
        <5>2. Ahead(c)' + 1 = Ahead(c) /\ Ahead(c)' \in Nat
          BY <4>2, <4>3, <4>4, <4>5, <5>1
        <5>3. AllGranted(reader'[c]) + 1 = AllGranted(reader[c]) /\ AllGranted(reader'[c]) \in Nat
          BY <4>3, <4>7, <5>1 DEF AllGranted
        <5>4. /\ Ahead(c) + Refill + 1 <= AllGranted(reader[c])
              /\ Connected /\ srv[c] = "stream" => Ahead(c) + Refill + 1 = AllGranted(reader[c])
              /\ reader[c].buffered = 0 /\ reader[c].untilRefill <= Refill
          BY <2>4, <3>4, <4>6, <4>7 DEF CreditOk
        <5>5. /\ Ahead(c)' + Refill + 1 <= AllGranted(reader'[c])
              /\ Connected /\ srv[c] = "stream" => Ahead(c)' + Refill + 1 = AllGranted(reader'[c])
          BY <4>3, <5>2, <5>3, <5>4
        <5>6. CreditOk(c)'
          BY <1>1, <3>4, <4>6, <5>1, <5>4, <5>5 DEF CreditOk, Connected
        <5>. QED  BY <2>3, <2>10, <3>4, <4>1, <5>6 DEF CreditInv
      <4>8. CASE ~reader[c].reading
        <5>1. /\ reader'[c].reading = FALSE
              /\ reader'[c].initial = reader[c].initial /\ reader'[c].buffered = reader[c].buffered + 1
              /\ reader'[c].untilRefill = reader[c].untilRefill
          BY <2>1, <2>4, <3>4, <4>8 DEF Reader, RpcTyped
        <5>2. Ahead(c)' = Ahead(c)
          BY <4>2, <4>3, <4>4, <4>5, <5>1
        <5>3. AllGranted(reader'[c]) = AllGranted(reader[c])
          BY <4>3, <4>8, <5>1 DEF AllGranted
        <5>. QED  BY <1>1, <2>3, <2>4, <2>10, <3>4, <4>1, <4>3, <4>6, <5>1, <5>2, <5>3 DEF CreditInv, CreditOk, Connected
      <4>. QED  BY <4>7, <4>8
    <3>5. \/ call[c] = "streaming" /\ call' = [call EXCEPT ![c] = "settled"] /\ up' = Append(up, a) /\ reader' = reader
          \/ call[c] # "streaming" /\ reader' = reader /\ call' = call /\ up' = up
          \/ /\ call[c] = "streaming" /\ call' = call /\ up' = up
             /\ IF reader[c].reading THEN reader' = [reader EXCEPT ![c].reading = FALSE]
                ELSE reader' = [reader EXCEPT ![c].buffered = @ + 1]
      BY <3>1 DEF OnRpcStreamChunk, a
    <3>. QED  BY <3>2, <3>3, <3>4, <3>5
  <2>. QED  BY <2>1, <2>7, <2>8, <2>9, <2>11, <2>12 DEF Answers
<1>. QED  BY <1>3, <1>4

\* The connection is lost at the client: nothing is under way any more.
LEMMA DisconnectedCredit ==
    ASSUME RpcTyped, RpcTyped', CreditInv, ClientDisconnected
    PROVE  CreditInv'
<1>1. /\ up' = <<>> /\ down' = <<>> /\ clientUp' = FALSE /\ UNCHANGED <<reader, credits>>
      /\ \A d \in Calls : call'[d] \in {call[d], "settled"} /\ (call'[d] = "streaming" => FALSE)
  BY DEF ClientDisconnected
<1>2. OnlyPullsGrant'
  BY <1>1 DEF OnlyPullsGrant
<1>3. ASSUME NEW d \in Calls PROVE CreditOk(d)'
  <2>1. GrantsOf(up', d) = 0 /\ ChunksOf(down', d) = 0
    BY <1>1, GrantsCount, ChunksCount
  <2>2. GrantsOf(up, d) \in Nat /\ ChunksOf(down, d) \in Nat /\ credits[d] \in Nat /\ reader[d].buffered \in Nat
    BY AheadTyped
  <2>3. Ahead(d)' = 0 + credits[d] + reader[d].buffered + 0
    BY <1>1, <2>1 DEF Ahead
  <2>4. Ahead(d)' <= Ahead(d) /\ ~Connected' /\ CreditOk(d) /\ reader'[d] = reader[d]
    BY <1>1, <2>2, <2>3 DEF Ahead, CreditInv, Connected
  <2>. QED  BY <1>1, <2>4, CreditStays
<1>. QED  BY <1>2, <1>3 DEF CreditInv

\* The server moves call c on: its credit goes to a chunk, or with the
\* end of the stream or of the session.
LEMMA ServerMoves ==
    ASSUME RpcTyped, RpcTyped', CreditInv, NEW c \in Calls, UNCHANGED <<call, reader, up, clientUp>>,
           \A d \in Calls : credits'[d] + ChunksOf(down', d) <= credits[d] + ChunksOf(down, d),
           \A d \in Calls : serverUp' /\ srv'[d] = "stream" /\ clientUp /\ call[d] = "streaming" =>
                /\ serverUp /\ srv[d] = "stream"
                /\ credits'[d] + ChunksOf(down', d) = credits[d] + ChunksOf(down, d)
    PROVE  CreditInv'
<1>1. OnlyPullsGrant'
  BY DEF CreditInv, OnlyPullsGrant
<1>2. ASSUME NEW d \in Calls PROVE CreditOk(d)'
  <2>1. GrantsOf(up, d) \in Nat /\ ChunksOf(down, d) \in Nat /\ credits[d] \in Nat /\ reader[d].buffered \in Nat
    BY AheadTyped
  <2>2. ChunksOf(down', d) \in Nat /\ credits'[d] \in Nat
    BY ChunksCount DEF RpcTyped
  <2>3. Ahead(d)' = GrantsOf(up, d) + credits'[d] + reader[d].buffered + ChunksOf(down', d)
    BY DEF Ahead
  <2>4. Ahead(d)' <= Ahead(d)
    BY <2>1, <2>2, <2>3 DEF Ahead
  <2>5. Connected' /\ srv'[d] = "stream" /\ call[d] = "streaming" => Connected /\ srv[d] = "stream" /\ Ahead(d)' = Ahead(d)
    <3>1. SUFFICES ASSUME Connected', srv'[d] = "stream", call[d] = "streaming"
                   PROVE  Connected /\ srv[d] = "stream" /\ Ahead(d)' = Ahead(d)
      OBVIOUS
    <3>2. credits'[d] + ChunksOf(down', d) = credits[d] + ChunksOf(down, d) /\ serverUp /\ srv[d] = "stream" /\ clientUp
      BY <3>1 DEF Connected
    <3>. QED  BY <2>1, <2>2, <2>3, <3>2 DEF Ahead, Connected
  <2>6. CreditOk(d) /\ reader'[d] = reader[d] /\ call'[d] = call[d]
    BY DEF CreditInv
  <2>. QED  BY <2>4, <2>5, <2>6, CreditStays
<1>. QED  BY <1>1, <1>2 DEF CreditInv

\* The steps of the server, but for a frame received.
LEMMA ServerCredit ==
    ASSUME RpcTyped, RpcTyped', CreditInv, Connected => LinkOrdered,
           \/ \E c \in Calls : Respond(c) \/ OpenStream(c) \/ SendChunk(c) \/ EndStream(c) \/ AbortStream(c)
           \/ Ping \/ ServerDisconnected
    PROVE  CreditInv'
<1>1. \A d \in Calls : ChunksOf(down, d) \in Nat /\ credits[d] \in Nat
  BY AheadTyped
<1>2. ASSUME NEW c \in Calls, NEW t \in Answers, down' = Append(down, Frame(t, c)), t # "RpcStreamChunk"
      PROVE  \A d \in Calls : ChunksOf(down', d) = ChunksOf(down, d)
  <2>1. Frame(t, c) \in DownFrames /\ \A d : ChunkFor(Frame(t, c), d) = 0
    BY <1>2, FrameFacts, FrameCounts
  <2>2. \A d \in Calls : ChunksOf(down', d) = ChunksOf(down, d) + ChunkFor(Frame(t, c), d)
    BY <1>2, <2>1, ChunksCount DEF RpcTyped
  <2>. QED  BY <1>1, <2>1, <2>2
<1>3. ASSUME NEW c \in Calls, CloseSession, UNCHANGED <<call, reader, up, clientUp, down>> PROVE CreditInv'
  <2>1. serverUp' = FALSE /\ \A d \in Calls : credits'[d] = 0
    BY <1>3 DEF CloseSession
  <2>2. \A d \in Calls : credits'[d] + ChunksOf(down', d) <= credits[d] + ChunksOf(down, d)
    BY <1>1, <1>3, <2>1
  <2>. QED  BY <1>3, <2>1, <2>2, ServerMoves
<1>4. ASSUME NEW c \in Calls, NEW t \in Answers, t # "RpcStreamChunk", Finish(c, t), UNCHANGED <<call, reader, up, clientUp>>
      PROVE  CreditInv'
  <2>1. CASE CloseSession /\ UNCHANGED down
    BY <1>3, <1>4, <2>1
  <2>2. CASE /\ down' = Append(down, Frame(t, c)) /\ srv' = [srv EXCEPT ![c] = "done"]
             /\ credits' = [credits EXCEPT ![c] = 0] /\ serverUp' = serverUp
    <3>1. \A d \in Calls : ChunksOf(down', d) = ChunksOf(down, d)
      BY <1>2, <1>4, <2>2
    <3>2. credits'[c] = 0 /\ srv'[c] = "done" /\ \A d \in Calls : d # c => credits'[d] = credits[d] /\ srv'[d] = srv[d]
      BY <2>2 DEF RpcTyped
    <3>3. \A d \in Calls : credits'[d] + ChunksOf(down', d) <= credits[d] + ChunksOf(down, d)
      BY <1>1, <3>1, <3>2
    <3>4. \A d \in Calls : serverUp' /\ srv'[d] = "stream" =>
            serverUp /\ srv[d] = "stream" /\ credits'[d] + ChunksOf(down', d) = credits[d] + ChunksOf(down, d)
      BY <2>2, <3>1, <3>2
    <3>. QED  BY <1>4, <3>3, <3>4, ServerMoves
  <2>. QED  BY <1>4, <2>1, <2>2 DEF Finish
<1>5. ASSUME NEW c \in Calls, Respond(c) PROVE CreditInv'
  <2>1. /\ UNCHANGED <<call, reader, up, clientUp, serverUp, credits>> /\ srv' = [srv EXCEPT ![c] = "done"]
        /\ down' = down \/ down' = Append(down, Frame("RpcResponse", c))
    BY <1>5 DEF Respond
  <2>2. \A d \in Calls : ChunksOf(down', d) = ChunksOf(down, d)
    BY <1>2, <2>1 DEF Answers
  <2>3. \A d \in Calls : credits'[d] + ChunksOf(down', d) = credits[d] + ChunksOf(down, d)
                         /\ credits'[d] + ChunksOf(down', d) <= credits[d] + ChunksOf(down, d)
    BY <1>1, <2>1, <2>2
  <2>4. \A d \in Calls : srv'[d] = "stream" => srv[d] = "stream"
    BY <2>1 DEF RpcTyped
  <2>. QED  BY <2>1, <2>3, <2>4, ServerMoves
<1>6. ASSUME NEW c \in Calls, OpenStream(c) PROVE CreditInv'
  <2>1. CASE CloseSession /\ UNCHANGED down
    BY <1>3, <1>6, <2>1 DEF OpenStream
  <2>2. CASE /\ down' = Append(down, Frame("RpcStreamResponse", c)) /\ srv' = [srv EXCEPT ![c] = "stream"]
             /\ UNCHANGED <<credits, serverUp>>
    <3>1. UNCHANGED <<call, reader, up, clientUp>> /\ serverUp /\ srv[c] = "running"
      BY <1>6 DEF OpenStream
    <3>2. \A d \in Calls : ChunksOf(down', d) = ChunksOf(down, d)
      BY <1>2, <2>2 DEF Answers
    <3>3. \A d \in Calls : credits'[d] + ChunksOf(down', d) = credits[d] + ChunksOf(down, d)
                           /\ credits'[d] + ChunksOf(down', d) <= credits[d] + ChunksOf(down, d)
      BY <1>1, <2>2, <3>2
    <3>4. clientUp => call[c] # "streaming"
      BY <3>1 DEF Connected, LinkOrdered, EndsAgree
    <3>5. \A d \in Calls : srv'[d] = "stream" => srv[d] = "stream" \/ d = c
      BY <2>2 DEF RpcTyped
    <3>. QED  BY <2>2, <3>1, <3>3, <3>4, <3>5, ServerMoves
  <2>. QED  BY <1>6, <2>1, <2>2 DEF OpenStream
<1>7. ASSUME NEW c \in Calls, SendChunk(c) PROVE CreditInv'
  <2>1. CASE Finish(c, "RpcStreamAbort")
    BY <1>4, <1>7, <2>1 DEF SendChunk, Answers
  <2>2. CASE /\ down' = Append(down, Frame("RpcStreamChunk", c))
             /\ credits' = [credits EXCEPT ![c] = @ - 1] /\ UNCHANGED <<srv, serverUp>>
    <3>1. UNCHANGED <<call, reader, up, clientUp>> /\ credits[c] > 0
      BY <1>7 DEF SendChunk
    <3> DEFINE f == Frame("RpcStreamChunk", c)
    <3>2. f \in DownFrames /\ \A d : ChunkFor(f, d) = IF c = d THEN 1 ELSE 0
      BY FrameFacts, FrameCounts DEF Answers
    <3>3. \A d \in Calls : ChunksOf(down', d) = ChunksOf(down, d) + ChunkFor(f, d)
      BY <2>2, <3>2, ChunksCount DEF RpcTyped
    <3>4. \A d \in Calls : credits'[d] = credits[d] - ChunkFor(f, d)
      BY <1>1, <2>2, <3>2 DEF RpcTyped
    <3> HIDE DEF f
    <3>5. \A d \in Calls : ChunkFor(f, d) \in {0, 1}
      BY <3>2
    <3>6. \A d \in Calls : credits'[d] + ChunksOf(down', d) = credits[d] + ChunksOf(down, d)
                           /\ credits'[d] + ChunksOf(down', d) <= credits[d] + ChunksOf(down, d)
      BY <1>1, <3>3, <3>4, <3>5
    <3>. QED  BY <2>2, <3>1, <3>6, ServerMoves
  <2>. QED  BY <1>7, <2>1, <2>2 DEF SendChunk
<1>8. ASSUME NEW c \in Calls, EndStream(c) PROVE CreditInv'
  BY <1>4, <1>8 DEF EndStream, Answers
<1>9. ASSUME NEW c \in Calls, AbortStream(c) PROVE CreditInv'
  BY <1>4, <1>9 DEF AbortStream, Answers
<1>10. ASSUME Calls = {} PROVE CreditInv'
  <2>1. up' = up \/ Calls # {}
    BY DEF Ping, ServerDisconnected
  <2>. QED  BY <1>10, <2>1 DEF CreditInv, OnlyPullsGrant
<1>11. ASSUME Ping, NEW c \in Calls PROVE CreditInv'
  <2> DEFINE f == Frame("Ping", NoCall)
  <2>1. UNCHANGED <<call, reader, up, clientUp, serverUp, credits, srv>> /\ down' = Append(down, f)
    BY <1>11 DEF Ping
  <2>2. f \in DownFrames /\ \A d : ChunkFor(f, d) = 0
    BY FrameFacts, FrameCounts
  <2> HIDE DEF f
  <2>3. \A d \in Calls : ChunksOf(down', d) = ChunksOf(down, d) + ChunkFor(f, d)
    BY <2>1, <2>2, ChunksCount DEF RpcTyped
  <2>4. \A d \in Calls : credits'[d] + ChunksOf(down', d) = credits[d] + ChunksOf(down, d)
                         /\ credits'[d] + ChunksOf(down', d) <= credits[d] + ChunksOf(down, d)
    BY <1>1, <2>1, <2>2, <2>3
  <2>. QED  BY <2>1, <2>4, ServerMoves
<1>12. ASSUME ServerDisconnected, NEW c \in Calls PROVE CreditInv'
  BY <1>3, <1>12 DEF ServerDisconnected
<1>. QED  BY <1>5, <1>6, <1>7, <1>8, <1>9, <1>10, <1>11, <1>12

\* A frame of the client at the server.
LEMMA PulledCredit ==
    ASSUME RpcTyped, RpcTyped', CreditInv, ServerReceives
    PROVE  CreditInv'
<1> DEFINE f == Head(up)
<1>1. /\ up # <<>> /\ up' = Tail(up) /\ f \in UpFrames /\ up \in Seq(UpFrames)
      /\ UNCHANGED <<call, reader, down, clientUp, serverUp>>
  BY DEF ServerReceives, RpcTyped
<1>2. OnlyPullsGrant'
  <2>1. \A i \in DOMAIN Tail(up) : i + 1 \in DOMAIN up /\ Tail(up)[i] = up[i + 1]
    BY <1>1
  <2>. QED  BY <1>1, <2>1 DEF CreditInv, OnlyPullsGrant
<1>3. f.type # "RpcStreamPull" => f.size = 0
  <2>1. 1 \in DOMAIN up /\ f = up[1]
    BY <1>1
  <2>. QED  BY <2>1 DEF CreditInv, OnlyPullsGrant
<1>4. ASSUME NEW d \in Calls
      PROVE  GrantsOf(up, d) = SizeFor(f, d) + GrantsOf(up', d) /\ GrantsOf(up', d) \in Nat /\ SizeFor(f, d) \in Nat
  <2>1. GrantsOf(up, d) = SizeFor(f, d) + GrantsOf(up', d) /\ SizeFor(f, d) \in Nat
    BY <1>1, GrantsCount
  <2>2. GrantsOf(up', d) \in Nat
    BY GrantsCount DEF RpcTyped
  <2>. QED  BY <2>1, <2>2
<1>5. ASSUME NEW d \in Calls
      PROVE  /\ srv'[d] = "stream" <=> srv[d] = "stream"
             /\ credits'[d] <= credits[d] + SizeFor(f, d)
             /\ srv[d] = "stream" => credits'[d] = credits[d] + SizeFor(f, d)
  <2>1. credits[d] \in Nat /\ SizeFor(f, d) \in Nat
    BY <1>4 DEF RpcTyped
  <2>2. CASE f.type = "RpcStreamPull"
    <3>1. OnRpcStreamPull(f.call, f.size)
      BY <2>2 DEF ServerReceives
    <3>2. srv' = srv /\ credits'[d] = IF f.call = d /\ srv[d] = "stream" THEN credits[d] + f.size ELSE credits[d]
      BY <3>1 DEF OnRpcStreamPull, RpcTyped
    <3>. QED  BY <2>1, <3>2 DEF SizeFor
  <2>3. CASE f.type # "RpcStreamPull"
    <3>1. credits' = credits /\ SizeFor(f, d) = 0
      BY <1>1, <1>3, <2>3 DEF ServerReceives, OnRpc, OnRpcAbort, SizeFor, UpFrames
    <3>2. srv'[d] = "stream" <=> srv[d] = "stream"
      <4>1. OnRpc(f.call) \/ srv' = srv
        BY <2>3 DEF ServerReceives, OnRpcAbort
      <4>. QED  BY <4>1 DEF OnRpc, RpcTyped
    <3>. QED  BY <2>1, <3>1, <3>2
  <2>. QED  BY <2>2, <2>3
<1>6. ASSUME NEW d \in Calls PROVE CreditOk(d)'
  <2>1. credits[d] \in Nat /\ reader[d].buffered \in Nat /\ ChunksOf(down, d) \in Nat /\ credits'[d] \in Nat
    BY AheadTyped DEF RpcTyped
  <2>2. Ahead(d) = (SizeFor(f, d) + GrantsOf(up', d)) + credits[d] + reader[d].buffered + ChunksOf(down, d)
    BY <1>4 DEF Ahead
  <2>3. Ahead(d)' = GrantsOf(up', d) + credits'[d] + reader[d].buffered + ChunksOf(down, d)
    BY <1>1 DEF Ahead
  <2> HIDE DEF f
  <2>4. Ahead(d)' <= Ahead(d) /\ (srv[d] = "stream" => Ahead(d)' = Ahead(d))
    BY <1>4, <1>5, <2>1, <2>2, <2>3
  <2>5. CreditOk(d)
    BY DEF CreditInv
  <2>. QED  BY <1>1, <1>5, <2>4, <2>5, CreditStays DEF Connected
<1>. QED  BY <1>2, <1>6 DEF CreditInv

\* The credits of a stream neither starve its reader nor let the server
\* run ahead of it: a consumer that waits has granted the credit for a
\* chunk, and the chunks granted and not yet read are at most a window,
\* for any calls, windows and lengths of streams (rpcStreamRefill and the
\* stream's pull at the client, the session's streaming loop).
THEOREM CreditsNeverStarve == RpcSpec => []CreditsBalance
<1>1. RpcInit => CreditInv
  <2>. SUFFICES ASSUME RpcInit PROVE CreditInv
    OBVIOUS
  <2>1. OnlyPullsGrant
    BY DEF RpcInit, OnlyPullsGrant
  <2>2. ASSUME NEW c \in Calls PROVE CreditOk(c)
    <3>1. GrantsOf(up, c) = 0 /\ ChunksOf(down, c) = 0
      BY GrantsCount, ChunksCount DEF RpcInit
    <3>2. reader[c] = NewReader /\ credits[c] = 0 /\ call[c] = "idle"
      BY DEF RpcInit
    <3>3. NewReader.untilRefill = Refill /\ NewReader.initial /\ ~NewReader.reading /\ NewReader.buffered = 0
      BY DEF NewReader
    <3>4. Ahead(c) = 0
      BY <3>1, <3>2, <3>3 DEF Ahead
    <3>. QED  BY <3>2, <3>3, <3>4, RefillFits DEF CreditOk
  <2>. QED  BY <2>1, <2>2 DEF CreditInv
<1>2. RpcInv /\ RpcInv' /\ CreditInv /\ [RpcNext]_rpcVars => CreditInv'
  <2>. SUFFICES ASSUME RpcInv, RpcInv', CreditInv, [RpcNext]_rpcVars PROVE CreditInv'
    OBVIOUS
  <2>1. RpcTyped /\ RpcTyped' /\ (Connected => LinkOrdered)
    BY DEF RpcInv, LinkOrdered
  <2>2. CASE UNCHANGED rpcVars
    BY <2>2 DEF rpcVars, CreditInv, OnlyPullsGrant, CreditOk, Ahead, Connected
  <2>3. CASE RpcNext
    BY <2>1, <2>3, ClientCredit, ReadCredit, ReceivedCredit, DisconnectedCredit, ServerCredit, PulledCredit DEF RpcNext
  <2>. QED  BY <2>2, <2>3
<1>3. RpcInv /\ CreditInv => CreditsBalance
  <2>. SUFFICES ASSUME RpcInv, CreditInv PROVE CreditsBalance
    OBVIOUS
  <2>. RpcTyped
    BY DEF RpcInv
  <2>1. ASSUME NEW c \in Calls PROVE Granted(c) = GrantsOf(up, c)
    BY DEF Granted, GrantsOf, Grants, Sum
  <2>2. ASSUME NEW c \in Calls
        PROVE  /\ GrantsOf(up, c) \in Nat /\ ChunksOf(down, c) \in Nat /\ credits[c] \in Nat
               /\ reader[c].buffered \in Nat /\ reader[c].untilRefill \in Nat \ {0}
               /\ Refill \in Nat /\ Window \in Nat /\ Refill <= Window
    BY AheadTyped, RefillFits
  <2>3. ReaderHasCredit
    <3>. SUFFICES ASSUME NEW c \in Calls, Connected, call[c] = "streaming", reader[c].reading, srv[c] = "stream", Quiet(c)
                  PROVE  credits[c] > 0
      BY DEF ReaderHasCredit
    <3>1. ~reader[c].initial /\ reader[c].buffered = 0 /\ Ahead(c) + Refill + 1 = Window + reader[c].untilRefill + 1
      BY DEF CreditInv, CreditOk, AllGranted
    <3>2. ChunksOf(down, c) = 0
      <4>1. Chunks(down, c) = {}
        BY DEF Quiet, Chunks
      <4>. QED  BY <4>1, FS_EmptySet DEF ChunksOf
    <3>3. GrantsOf(up, c) = 0
      <4>1. Grants(up, c) = [i \in 1..Len(up) |-> 0] /\ up \in Seq(UpFrames)
        BY DEF Quiet, FramesOf, Grants, RpcTyped
      <4>. QED  BY <4>1, SumOfZeros DEF GrantsOf
    <3>. QED  BY <2>2, <3>1, <3>2, <3>3 DEF Ahead
  <2>4. LeadBounded
    <3>. SUFFICES ASSUME NEW c \in Calls, call[c] = "streaming"
                  PROVE  Granted(c) + credits[c] + reader[c].buffered
                            + Cardinality({i \in FramesOf(down, c) : down[i].type = "RpcStreamChunk"}) <= Window
      BY DEF LeadBounded
    <3>1. Granted(c) + credits[c] + reader[c].buffered
              + Cardinality({i \in FramesOf(down, c) : down[i].type = "RpcStreamChunk"}) = Ahead(c)
      BY <2>1 DEF Ahead, ChunksOf, Chunks
    <3>2. Ahead(c) \in Nat /\ reader[c].untilRefill <= Refill
      BY AheadTyped DEF CreditInv, CreditOk
    <3>3. CASE reader[c].initial
      <4>1. Ahead(c) = 0
        BY <3>3 DEF CreditInv, CreditOk
      <4>. QED  BY <2>2, <3>1, <4>1
    <3>4. CASE ~reader[c].initial
      <4>1. Ahead(c) + Refill + 1 <= Window + reader[c].untilRefill + (IF reader[c].reading THEN 1 ELSE 0)
        BY <3>4 DEF CreditInv, CreditOk, AllGranted
      <4>2. Ahead(c) <= Window
        BY <2>2, <3>2, <4>1
      <4>. QED  BY <3>1, <4>2
    <3>. QED  BY <3>3, <3>4
  <2>. QED  BY <2>3, <2>4 DEF CreditsBalance
<1>. QED  BY <1>1, <1>2, <1>3, LinkSound, PTL DEF RpcSpec

-----------------------------------------------------------------------------
(* Sums over a queue.                                                      *)

\* A sum grows with its terms and their number.
LEMMA SumMonotone ==
    ASSUME NEW s \in Seq(Nat), NEW t \in Seq(Nat), Len(s) <= Len(t), \A i \in 1..Len(s) : s[i] <= t[i]
    PROVE  Sum(s) <= Sum(t)
  <1>1. PICK f \in [0..Len(s) -> Nat] : IsSum(s, f) /\ Sum(s) = f[Len(s)]
    BY SumExists
  <1>2. PICK g \in [0..Len(t) -> Nat] : IsSum(t, g) /\ Sum(t) = g[Len(t)]
    BY SumExists
  <1> DEFINE M == Len(s)
             N == Len(t)
             T == {m \in Nat : m <= N => (IF m <= M THEN f[m] ELSE f[M]) <= g[m]}
  <1>3. M \in Nat /\ N \in Nat /\ M <= N
    OBVIOUS
  <1>4. 0 \in T
    BY <1>1, <1>2, <1>3 DEF IsSum
  <1>5. ASSUME NEW m \in Nat, m \in T PROVE m + 1 \in T
    <2> SUFFICES ASSUME m + 1 <= N PROVE (IF m + 1 <= M THEN f[m + 1] ELSE f[M]) <= g[m + 1]
      OBVIOUS
    <2>1. m + 1 \in 1..N /\ (m + 1) - 1 = m /\ m \in 0..N /\ m + 1 \in 0..N
      BY <1>3
    <2>2. g[m + 1] = g[m] + t[m + 1] /\ g[m] \in Nat /\ t[m + 1] \in Nat
      <3>1. \A i \in 1..N : g[i] = g[i - 1] + t[i]
        BY <1>2 DEF IsSum
      <3>2. \A i \in 0..N : g[i] \in Nat
        BY <1>2
      <3>3. \A i \in 1..N : t[i] \in Nat
        OBVIOUS
      <3> QED BY <2>1, <3>1, <3>2, <3>3
    <2>3. CASE m + 1 <= M
      <3>1. m + 1 \in 1..M /\ m \in 0..M
        BY <1>3, <2>3
      <3>2. f[m + 1] = f[m] + s[m + 1] /\ f[m] \in Nat /\ s[m + 1] \in Nat /\ s[m + 1] <= t[m + 1]
        <4>1. \A i \in 1..M : f[i] = f[i - 1] + s[i]
          BY <1>1 DEF IsSum
        <4>2. \A i \in 0..M : f[i] \in Nat
          BY <1>1
        <4>3. \A i \in 1..M : s[i] \in Nat /\ s[i] <= t[i]
          OBVIOUS
        <4> QED BY <2>1, <3>1, <4>1, <4>2, <4>3
      <3>3. f[m] <= g[m]
        BY <1>3, <1>5, <2>1, <3>1
      <3> QED BY <2>2, <2>3, <3>2, <3>3
    <2>4. CASE ~(m + 1 <= M)
      <3>1. f[M] <= g[m] /\ f[M] \in Nat
        BY <1>1, <1>3, <1>5, <2>1, <2>4
      <3> QED BY <2>2, <2>4, <3>1
    <2> QED BY <2>3, <2>4
  <1>6. \A m \in Nat : m \in T
    <2> HIDE DEF T
    <2> QED BY <1>4, <1>5, InductionOnSets
  <1>7. N \in T
    BY <1>3, <1>6
  <1> QED BY <1>1, <1>2, <1>3, <1>7

\* The terms of a queue whose frames are weighed.
Weighed(q, w) == [i \in DOMAIN q |-> w[q[i]]]

\* A frame more at the end of a queue, or one less at its front.
LEMMA WeighedMoves ==
    ASSUME NEW F, NEW w \in [F -> Nat]
    PROVE  /\ \A q \in Seq(F) : Weighed(q, w) \in Seq(Nat) /\ Len(Weighed(q, w)) = Len(q)
           /\ \A q \in Seq(F), f \in F : Sum(Weighed(Append(q, f), w)) = Sum(Weighed(q, w)) + w[f]
           /\ \A q \in Seq(F) : q # <<>> => Sum(Weighed(q, w)) = w[Head(q)] + Sum(Weighed(Tail(q), w))
  <1>1. ASSUME NEW q \in Seq(F) PROVE Weighed(q, w) \in Seq(Nat) /\ Len(Weighed(q, w)) = Len(q)
    BY DEF Weighed
  <1>2. ASSUME NEW q \in Seq(F), NEW f \in F
        PROVE  Sum(Weighed(Append(q, f), w)) = Sum(Weighed(q, w)) + w[f]
    <2> DEFINE p == Append(q, f)
               s == Weighed(q, w)
               u == Weighed(p, w)
               v == Append(s, w[f])
    <2>1. p \in Seq(F) /\ Len(p) = Len(q) + 1 /\ Len(q) \in Nat /\ p[Len(q) + 1] = f
          /\ \A i \in 1..Len(q) : p[i] = q[i]
      OBVIOUS
    <2>2. u \in Seq(Nat) /\ Len(u) = Len(q) + 1 /\ s \in Seq(Nat) /\ Len(s) = Len(q)
      BY <1>1, <2>1
    <2>3. v \in Seq(Nat) /\ Len(v) = Len(q) + 1 /\ v[Len(q) + 1] = w[f] /\ \A i \in 1..Len(q) : v[i] = s[i]
      BY <2>2
    <2>4. \A i \in 1..Len(q) : s[i] = w[q[i]] /\ u[i] = w[p[i]]
      BY <2>1 DEF Weighed
    <2>5. u[Len(q) + 1] = w[f]
      BY <2>1 DEF Weighed
    <2> HIDE DEF p, s, u, v
    <2>6. \A i \in 1..(Len(q) + 1) : u[i] = v[i]
      <3> SUFFICES ASSUME NEW i \in 1..(Len(q) + 1) PROVE u[i] = v[i]
        OBVIOUS
      <3>1. i \in 1..Len(q) \/ i = Len(q) + 1
        BY <2>1
      <3> QED BY <2>1, <2>3, <2>4, <2>5, <3>1
    <2>7. u = v
      BY <2>2, <2>3, <2>6
    <2>8. Sum(v) = Sum(s) + w[f]
      BY <2>2, SumFacts DEF v
    <2> QED BY <2>7, <2>8 DEF u, s, p
  <1>3. ASSUME NEW q \in Seq(F), q # <<>>
        PROVE  Sum(Weighed(q, w)) = w[Head(q)] + Sum(Weighed(Tail(q), w))
    <2> DEFINE p == Tail(q)
               s == Weighed(q, w)
               u == Weighed(p, w)
               v == Tail(s)
    <2>1. /\ p \in Seq(F) /\ Len(p) = Len(q) - 1 /\ Len(q) \in Nat \ {0} /\ Head(q) = q[1]
          /\ \A i \in 1..Len(p) : p[i] = q[i + 1]
      BY <1>3
    <2>2. u \in Seq(Nat) /\ Len(u) = Len(p) /\ s \in Seq(Nat) /\ Len(s) = Len(q) /\ s # <<>>
      <3>1. u \in Seq(Nat) /\ Len(u) = Len(p) /\ s \in Seq(Nat) /\ Len(s) = Len(q)
        BY <1>1, <2>1
      <3> HIDE DEF s, u, p
      <3> QED BY <3>1, <2>1
    <2>3. Head(s) = w[Head(q)]
      <3>1. 1 \in DOMAIN q /\ s[1] = w[q[1]]
        BY <2>1 DEF Weighed
      <3> HIDE DEF s
      <3> QED BY <2>1, <2>2, <3>1
    <2>4. \A i \in 1..Len(p) : u[i] = w[p[i]] /\ s[i + 1] = w[q[i + 1]]
      BY <2>1 DEF Weighed
    <2> HIDE DEF p, s, u
    <2>5. v \in Seq(Nat) /\ Len(v) = Len(p) /\ \A i \in 1..Len(p) : v[i] = s[i + 1]
      BY <2>1, <2>2
    <2> HIDE DEF v
    <2>6. u = v
      <3>1. \A i \in 1..Len(p) : u[i] = v[i]
        BY <2>1, <2>4, <2>5
      <3>2. u = [i \in 1..Len(p) |-> u[i]]
        BY <2>2
      <3>3. v = [i \in 1..Len(p) |-> v[i]]
        BY <2>5
      <3> HIDE DEF u, v
      <3> QED BY <3>1, <3>2, <3>3
    <2>7. Sum(s) = Head(s) + Sum(v)
      BY <2>2, SumFacts DEF v
    <2> QED BY <2>3, <2>6, <2>7 DEF u, s, p
  <1> QED BY <1>1, <1>2, <1>3

-----------------------------------------------------------------------------
(* Blobs.                                                                  *)

DownTypes == {"ServerBlobPull", "ServerBlobPush", "ServerBlobEnd", "ServerBlobAbort"}
UpTypes == {"ClientBlobPull", "ClientBlobPush", "ClientBlobEnd", "ClientBlobAbort"}
FrameTypes == UpTypes \cup DownTypes
BlobFrames == [type : FrameTypes, size : Nat]

\* The bytes of the frames of a type in a queue, and the pulls that the
\* pushes of a queue answer, in bytes.
Bytes(q, t) == [i \in DOMAIN q |-> IF q[i].type = t THEN q[i].size ELSE 0]
PullsServed(q) == [i \in DOMAIN q |-> IF q[i].type = "ClientBlobPush" THEN PullSize ELSE 0]

\* The types of the state.
UploadTypes ==
    /\ sent \in [open : BOOLEAN, source : Seq(Nat), pulls : Seq(Nat), queue : Nat]
    /\ uploaded \in [open : BOOLEAN, granted : Nat, reading : BOOLEAN, bytes : Nat, ended : BOOLEAN,
                     consumed : BOOLEAN, told : Nat, heard : BOOLEAN]
DownloadTypes ==
    /\ pump \in [open : BOOLEAN, source : Seq(Nat), buffered : Nat, credits : Nat, granted : BOOLEAN,
                 sourceEnded : BOOLEAN, error : BOOLEAN, told : Nat, heard : BOOLEAN, violated : BOOLEAN]
    /\ got \in [state : {"open", "ended", "aborted"}, reading : BOOLEAN, frames : Nat, bytes : Nat,
                pulled : Nat]
BlobTypes ==
    /\ toServer \in Seq(BlobFrames) /\ toClient \in Seq(BlobFrames)
    /\ UploadTypes /\ DownloadTypes
    /\ total \in [up : Nat, down : Nat, gap : BOOLEAN]

\* An open stream neither told nor heard an abort, and no stream did both,
\* or told twice.
UploadQuiet ==
    /\ uploaded.open => uploaded.told = 0 /\ ~uploaded.heard
    /\ uploaded.told <= 1 /\ (uploaded.heard => uploaded.told = 0)
DownloadQuiet ==
    /\ pump.open => pump.told = 0 /\ ~pump.heard
    /\ pump.told <= 1 /\ (pump.heard => pump.told = 0)

\* At most one pull is outstanding, as a pull, as one to answer or as the
\* push that answers it, and only while the consumer waits; the grant
\* covers it, whatever was lost at the cap.
PullSizes ==
    /\ \A i \in DOMAIN toClient : toClient[i].type = "ClientBlobPull" => toClient[i].size = PullSize
    /\ \A i \in DOMAIN sent.pulls : sent.pulls[i] = PullSize
    /\ \A i \in DOMAIN toServer : toServer[i].type = "ClientBlobPush" => toServer[i].size <= PullSize

OnePull ==
    uploaded.open =>
        /\ Sum(Bytes(toClient, "ClientBlobPull")) + Sum(sent.pulls) + Sum(PullsServed(toServer))
              <= (IF uploaded.reading THEN PullSize ELSE 0)
        /\ uploaded.reading => PullSize <= uploaded.granted

\* While both ends have the upload, what the server has, what is under way
\* and what is left to read are its source.  A client that has closed an
\* upload the server still has sent the end of it, with all of its bytes
\* ahead, or an abort.
LastWord(q, i, bytes) ==
    /\ q[i].type \in {"ClientBlobEnd", "ClientBlobAbort"}
    /\ \A j \in DOMAIN q :
        /\ j < i => q[j].type \notin {"ClientBlobEnd", "ClientBlobAbort"}
        /\ j > i => q[j].type # "ClientBlobPush"
    /\ q[i].type = "ClientBlobEnd" => bytes + Sum(Bytes(q, "ClientBlobPush")) = total.up

UploadWhole ==
    /\ uploaded.open =>
        /\ \A i \in DOMAIN toClient : toClient[i].type # "ClientBlobAbort"
        /\ sent.open =>
            /\ \A i \in DOMAIN toServer : toServer[i].type \notin {"ClientBlobEnd", "ClientBlobAbort"}
            /\ uploaded.bytes + Sum(Bytes(toServer, "ClientBlobPush")) + sent.queue + Sum(sent.source)
                  = total.up
        /\ ~sent.open => \E i \in DOMAIN toServer : LastWord(toServer, i, uploaded.bytes)
    /\ uploaded.ended => uploaded.bytes = total.up /\ ~uploaded.open

\* What the client has, what is under way to it, what the server may send
\* and what is asked for were all pulled.
DownloadGranted ==
    got.bytes + Sum(Bytes(toClient, "ServerBlobPush")) + pump.credits + Sum(Bytes(toServer, "ServerBlobPull"))
        <= got.pulled

\* While both ends have the download, what the client has, what is under
\* way and what is left to send are its source; the end comes behind all
\* of it.
DownloadWhole ==
    /\ pump.error => ~pump.sourceEnded
    /\ pump.sourceEnded => pump.source = <<>>
    /\ \A i \in DOMAIN toClient : toClient[i].type = "ServerBlobEnd" =>
        /\ ~pump.open
        /\ \A j \in DOMAIN toClient : j > i => toClient[j].type # "ServerBlobPush"
        /\ got.state = "open" => got.bytes + Sum(Bytes(toClient, "ServerBlobPush")) = total.down
    /\ pump.open /\ ~pump.error /\ got.state = "open" =>
        got.bytes + Sum(Bytes(toClient, "ServerBlobPush")) + pump.buffered + Sum(pump.source) = total.down
    /\ got.state = "ended" => got.bytes = total.down

UploadInv == UploadQuiet /\ PullSizes /\ OnePull /\ UploadWhole
DownloadInv == DownloadQuiet /\ DownloadGranted /\ DownloadWhole
BlobInv == BlobTypes /\ UploadInv /\ DownloadInv

\* What a queue p holds that is q with f at its end, and one that is q
\* without its head.
FrameAdded(p, q, f) ==
    /\ \A t \in FrameTypes : Sum(Bytes(p, t)) = Sum(Bytes(q, t)) + (IF f.type = t THEN f.size ELSE 0)
    /\ Sum(PullsServed(p)) = Sum(PullsServed(q)) + (IF f.type = "ClientBlobPush" THEN PullSize ELSE 0)
    /\ \A i \in DOMAIN q : i \in DOMAIN p /\ p[i] = q[i]
    /\ \A i \in DOMAIN p : (i \in DOMAIN q) \/ (p[i] = f /\ \A j \in DOMAIN q : j < i)
    /\ \E i \in DOMAIN p : p[i] = f /\ \A j \in DOMAIN q : j < i

FrameRemoved(p, q) ==
    LET f == q[1]
    IN  /\ \A t \in FrameTypes : Sum(Bytes(q, t)) = Sum(Bytes(p, t)) + (IF f.type = t THEN f.size ELSE 0)
        /\ Sum(PullsServed(q)) = Sum(PullsServed(p)) + (IF f.type = "ClientBlobPush" THEN PullSize ELSE 0)
        /\ \A i \in DOMAIN p : i + 1 \in DOMAIN q /\ p[i] = q[i + 1]
        /\ \A i \in DOMAIN q : i # 1 => i - 1 \in DOMAIN p

\* What a queue of frames carries, and what a move does to it.
LEMMA BlobQueues ==
    ASSUME NEW q \in Seq(BlobFrames)
    PROVE  /\ \A t \in FrameTypes : Sum(Bytes(q, t)) \in Nat
           /\ Sum(PullsServed(q)) \in Nat
           /\ \A i \in DOMAIN q : i \in Nat \ {0} /\ q[i] \in BlobFrames
           /\ \A f \in BlobFrames : Append(q, f) \in Seq(BlobFrames) /\ FrameAdded(Append(q, f), q, f)
           /\ q # <<>> => Head(q) = q[1] /\ 1 \in DOMAIN q /\ Tail(q) \in Seq(BlobFrames) /\ FrameRemoved(Tail(q), q)
  <1> DEFINE W(t) == [f \in BlobFrames |-> IF f.type = t THEN f.size ELSE 0]
             A == [f \in BlobFrames |-> IF f.type = "ClientBlobPush" THEN PullSize ELSE 0]
  <1>0. PullSize \in Nat
    BY BlobAssumption
  <1>1. A \in [BlobFrames -> Nat] /\ \A t \in FrameTypes : W(t) \in [BlobFrames -> Nat]
    BY <1>0 DEF BlobFrames
  <1>2. \A p \in Seq(BlobFrames) : \A i \in DOMAIN p : p[i] \in BlobFrames
    OBVIOUS
  <1>3. \A p \in Seq(BlobFrames) : PullsServed(p) = Weighed(p, A) /\ \A t \in FrameTypes : Bytes(p, t) = Weighed(p, W(t))
    BY <1>2 DEF PullsServed, Bytes, Weighed
  <1>4. Sum(PullsServed(q)) \in Nat /\ \A t \in FrameTypes : Sum(Bytes(q, t)) \in Nat
    <2> HIDE DEF W, A
    <2>1. Weighed(q, A) \in Seq(Nat)
      BY <1>1, WeighedMoves
    <2>2. ASSUME NEW t \in FrameTypes PROVE Weighed(q, W(t)) \in Seq(Nat)
      BY <1>1, WeighedMoves
    <2> QED BY <1>3, <2>1, <2>2, SumFacts
  <1>5. \A i \in DOMAIN q : i \in Nat \ {0} /\ q[i] \in BlobFrames
    OBVIOUS
  <1>6. ASSUME NEW f \in BlobFrames PROVE Append(q, f) \in Seq(BlobFrames) /\ FrameAdded(Append(q, f), q, f)
    <2> DEFINE p == Append(q, f)
    <2>1. p \in Seq(BlobFrames) /\ Len(p) = Len(q) + 1 /\ Len(q) \in Nat /\ p[Len(q) + 1] = f
          /\ \A i \in 1..Len(q) : p[i] = q[i]
      OBVIOUS
    <2>2. Sum(Weighed(p, A)) = Sum(Weighed(q, A)) + A[f]
      <3> HIDE DEF A
      <3> QED BY <1>1, WeighedMoves
    <2>3. ASSUME NEW t \in FrameTypes PROVE Sum(Weighed(p, W(t))) = Sum(Weighed(q, W(t))) + W(t)[f]
      <3> HIDE DEF W
      <3> QED BY <1>1, WeighedMoves
    <2> HIDE DEF p
    <2>4. Sum(PullsServed(p)) = Sum(PullsServed(q)) + (IF f.type = "ClientBlobPush" THEN PullSize ELSE 0)
      <3>1. Sum(PullsServed(p)) = Sum(PullsServed(q)) + A[f]
        <4> HIDE DEF A
        <4> QED BY <1>3, <2>1, <2>2
      <3> QED BY <3>1
    <2>5. ASSUME NEW t \in FrameTypes
          PROVE  Sum(Bytes(p, t)) = Sum(Bytes(q, t)) + (IF f.type = t THEN f.size ELSE 0)
      <3>1. Sum(Bytes(p, t)) = Sum(Bytes(q, t)) + W(t)[f]
        <4> HIDE DEF W
        <4> QED BY <1>3, <2>1, <2>3
      <3> QED BY <3>1
    <2>6. DOMAIN p = 1..(Len(q) + 1) /\ DOMAIN q = 1..Len(q)
      BY <2>1
    <2>7. /\ \A i \in DOMAIN q : i \in DOMAIN p /\ p[i] = q[i]
          /\ \A i \in DOMAIN p : (i \in DOMAIN q) \/ (p[i] = f /\ \A j \in DOMAIN q : j < i)
          /\ \E i \in DOMAIN p : p[i] = f /\ \A j \in DOMAIN q : j < i
      <3>1. Len(q) + 1 \in DOMAIN p /\ \A j \in DOMAIN q : j < Len(q) + 1
        BY <2>1, <2>6
      <3>2. \A i \in DOMAIN p : i \in DOMAIN q \/ i = Len(q) + 1
        BY <2>1, <2>6
      <3>3. \A i \in DOMAIN q : i \in DOMAIN p /\ p[i] = q[i]
        BY <2>1, <2>6
      <3> QED BY <2>1, <3>1, <3>2, <3>3, Zenon
    <2> QED BY <2>1, <2>4, <2>5, <2>7 DEF FrameAdded, p
  <1>7. ASSUME q # <<>>
        PROVE  Head(q) = q[1] /\ 1 \in DOMAIN q /\ Tail(q) \in Seq(BlobFrames) /\ FrameRemoved(Tail(q), q)
    <2> DEFINE p == Tail(q)
    <2>1. /\ p \in Seq(BlobFrames) /\ Len(p) = Len(q) - 1 /\ Len(q) \in Nat \ {0} /\ Head(q) = q[1]
          /\ 1 \in DOMAIN q /\ q[1] \in BlobFrames
          /\ \A i \in 1..Len(p) : p[i] = q[i + 1]
      BY <1>7
    <2>2. Sum(Weighed(q, A)) = A[q[1]] + Sum(Weighed(p, A))
      <3> HIDE DEF A
      <3> QED BY <1>1, <1>7, <2>1, WeighedMoves
    <2>3. ASSUME NEW t \in FrameTypes PROVE Sum(Weighed(q, W(t))) = W(t)[q[1]] + Sum(Weighed(p, W(t)))
      <3> HIDE DEF W
      <3> QED BY <1>1, <1>7, <2>1, WeighedMoves
    <2> HIDE DEF p
    <2>4. Sum(PullsServed(q)) = Sum(PullsServed(p)) + (IF q[1].type = "ClientBlobPush" THEN PullSize ELSE 0)
      <3>0. Sum(PullsServed(p)) \in Nat
        <4> HIDE DEF A
        <4>1. Weighed(p, A) \in Seq(Nat)
          BY <1>1, <2>1, WeighedMoves
        <4> QED BY <1>3, <2>1, <4>1, SumFacts
      <3>1. Sum(PullsServed(q)) = A[q[1]] + Sum(PullsServed(p))
        <4> HIDE DEF A
        <4> QED BY <1>3, <2>1, <2>2
      <3> QED BY <1>0, <2>1, <3>0, <3>1
    <2>5. ASSUME NEW t \in FrameTypes
          PROVE  Sum(Bytes(q, t)) = Sum(Bytes(p, t)) + (IF q[1].type = t THEN q[1].size ELSE 0)
      <3>0. Sum(Bytes(p, t)) \in Nat
        <4> HIDE DEF W
        <4>1. Weighed(p, W(t)) \in Seq(Nat)
          BY <1>1, <2>1, WeighedMoves
        <4> QED BY <1>3, <2>1, <4>1, SumFacts
      <3>1. Sum(Bytes(q, t)) = W(t)[q[1]] + Sum(Bytes(p, t))
        <4> HIDE DEF W
        <4> QED BY <1>3, <2>1, <2>3
      <3> QED BY <2>1, <3>0, <3>1 DEF BlobFrames
    <2>6. DOMAIN q = 1..Len(q) /\ DOMAIN p = 1..(Len(q) - 1)
      BY <2>1
    <2>7. /\ \A i \in DOMAIN p : i + 1 \in DOMAIN q /\ p[i] = q[i + 1]
          /\ \A i \in DOMAIN q : i # 1 => i - 1 \in DOMAIN p
      BY <2>1, <2>6
    <2> QED BY <2>1, <2>4, <2>5, <2>7 DEF FrameRemoved, p
  <1> QED BY <1>4, <1>5, <1>6, <1>7

\* A queue none of whose frames has a type carries no bytes of it, and an
\* empty one none at all.
LEMMA NoneCarried ==
    ASSUME NEW q \in Seq(BlobFrames), NEW t \in FrameTypes, \A i \in DOMAIN q : q[i].type # t
    PROVE  Sum(Bytes(q, t)) = 0
  <1>1. Bytes(q, t) = [i \in 1..Len(q) |-> 0]
    BY DEF Bytes
  <1> QED BY <1>1, SumOfZeros

\* A queue p is q, or q with a frame of a type in T at its end, or without
\* one at its front.
Moved(p, q, T) ==
    \/ p = q
    \/ \E f \in BlobFrames : f.type \in T /\ p = Append(q, f)
    \/ q # <<>> /\ Head(q).type \in T /\ p = Tail(q)

\* What such a move leaves of the frames of other types.
LEMMA OtherFrames ==
    ASSUME NEW q \in Seq(BlobFrames), NEW p, NEW T, Moved(p, q, T)
    PROVE  /\ p \in Seq(BlobFrames)
           /\ \A t \in FrameTypes : t \notin T => Sum(Bytes(p, t)) = Sum(Bytes(q, t))
           /\ "ClientBlobPush" \notin T => Sum(PullsServed(p)) = Sum(PullsServed(q))
           /\ \A i \in DOMAIN p : p[i].type \in T \/ \E j \in DOMAIN q : p[i] = q[j]
           /\ \A i, j \in DOMAIN p : i < j /\ p[i].type \notin T /\ p[j].type \notin T
                => \E k, l \in DOMAIN q : k < l /\ p[i] = q[k] /\ p[j] = q[l]
  <1>1. CASE p = q
    BY <1>1
  <1>2. CASE \E f \in BlobFrames : f.type \in T /\ p = Append(q, f)
    <2>1. PICK f \in BlobFrames : f.type \in T /\ p = Append(q, f)
      BY <1>2
    <2>2. p \in Seq(BlobFrames) /\ FrameAdded(p, q, f)
      BY <2>1, BlobQueues
    <2>3. ASSUME NEW t \in FrameTypes, t \notin T PROVE Sum(Bytes(p, t)) = Sum(Bytes(q, t))
      <3>1. f.type # t /\ Sum(Bytes(q, t)) \in Nat
        BY <2>1, <2>3, BlobQueues
      <3> QED BY <2>2, <3>1 DEF FrameAdded
    <2>4. ASSUME "ClientBlobPush" \notin T PROVE Sum(PullsServed(p)) = Sum(PullsServed(q))
      <3>1. f.type # "ClientBlobPush" /\ Sum(PullsServed(q)) \in Nat
        BY <2>1, <2>4, BlobQueues
      <3> QED BY <2>2, <3>1 DEF FrameAdded
    <2>5. \A i \in DOMAIN p : p[i].type \in T \/ (i \in DOMAIN q /\ p[i] = q[i])
      BY <2>1, <2>2 DEF FrameAdded
    <2> QED BY <2>2, <2>3, <2>4, <2>5
  <1>3. CASE q # <<>> /\ Head(q).type \in T /\ p = Tail(q)
    <2>1. p \in Seq(BlobFrames) /\ FrameRemoved(p, q) /\ Head(q) = q[1]
      BY <1>3, BlobQueues
    <2>2. ASSUME NEW t \in FrameTypes, t \notin T PROVE Sum(Bytes(p, t)) = Sum(Bytes(q, t))
      <3>1. q[1].type # t /\ Sum(Bytes(p, t)) \in Nat
        BY <1>3, <2>1, <2>2, BlobQueues
      <3> QED BY <2>1, <3>1 DEF FrameRemoved
    <2>3. ASSUME "ClientBlobPush" \notin T PROVE Sum(PullsServed(p)) = Sum(PullsServed(q))
      <3>1. q[1].type # "ClientBlobPush" /\ Sum(PullsServed(p)) \in Nat
        BY <1>3, <2>1, <2>3, BlobQueues
      <3> QED BY <2>1, <3>1 DEF FrameRemoved
    <2>4. \A i \in DOMAIN p : i \in Nat /\ i + 1 \in DOMAIN q /\ p[i] = q[i + 1]
      BY <2>1 DEF FrameRemoved
    <2>5. \A i, j \in DOMAIN p : i < j => i + 1 < j + 1
      BY <2>4
    <2>6. \A i \in DOMAIN p : \E j \in DOMAIN q : p[i] = q[j]
      BY <2>4
    <2>7. ASSUME NEW i \in DOMAIN p, NEW j \in DOMAIN p, i < j
          PROVE  \E k, l \in DOMAIN q : k < l /\ p[i] = q[k] /\ p[j] = q[l]
      <3>1. i + 1 < j + 1 /\ i + 1 \in DOMAIN q /\ j + 1 \in DOMAIN q /\ p[i] = q[i + 1] /\ p[j] = q[j + 1]
        BY <2>4, <2>5, <2>7
      <3> QED BY <3>1
    <2> QED BY <2>1, <2>2, <2>3, <2>6, <2>7
  <1> QED BY <1>1, <1>2, <1>3 DEF Moved

\* The client's last word on an upload stays that when another frame than
\* a push follows, and when the frame ahead of it is received.
LEMMA LastWordStays ==
    ASSUME NEW q \in Seq(BlobFrames), NEW i \in DOMAIN q, NEW b \in Nat, total.up \in Nat, LastWord(q, i, b)
    PROVE  /\ \A f \in BlobFrames : f.type # "ClientBlobPush" =>
                \E k \in DOMAIN Append(q, f) : LastWord(Append(q, f), k, b)
           /\ q[1].type \notin {"ClientBlobEnd", "ClientBlobAbort"} =>
                \E k \in DOMAIN Tail(q) :
                    LastWord(Tail(q), k, b + (IF q[1].type = "ClientBlobPush" THEN q[1].size ELSE 0))
  <1> DEFINE Push == "ClientBlobPush"
  <1>0. Push \in FrameTypes /\ Sum(Bytes(q, Push)) \in Nat
    <2>1. \A t \in FrameTypes : Sum(Bytes(q, t)) \in Nat
      BY BlobQueues
    <2>2. Push \in FrameTypes
      BY DEF FrameTypes, UpTypes
    <2> HIDE DEF Push
    <2> QED BY <2>1, <2>2
  <1>1. ASSUME NEW f \in BlobFrames, f.type # Push
        PROVE  \E k \in DOMAIN Append(q, f) : LastWord(Append(q, f), k, b)
    <2> DEFINE p == Append(q, f)
    <2>1. FrameAdded(p, q, f)
      BY BlobQueues
    <2> HIDE DEF p
    <2>2. i \in DOMAIN p /\ p[i] = q[i] /\ Sum(Bytes(p, Push)) = Sum(Bytes(q, Push))
      BY <1>0, <1>1, <2>1 DEF FrameAdded
    <2>3. ASSUME NEW j \in DOMAIN p
          PROVE  /\ j < i => p[j].type \notin {"ClientBlobEnd", "ClientBlobAbort"}
                 /\ j > i => p[j].type # Push
      <3>1. CASE j \in DOMAIN q
        BY <2>1, <3>1 DEF FrameAdded, LastWord
      <3>2. CASE j \notin DOMAIN q
        <4>1. p[j] = f /\ i < j
          BY <2>1, <3>2 DEF FrameAdded
        <4>2. i \in Nat /\ j \in Nat
          <5>1. Append(q, f) \in Seq(BlobFrames)
            OBVIOUS
          <5> QED BY <5>1 DEF p
        <4> QED BY <1>1, <4>1, <4>2
      <3> QED BY <3>1, <3>2
    <2>4. LastWord(p, i, b)
      BY <2>2, <2>3 DEF LastWord
    <2> QED BY <2>2, <2>4 DEF p
  <1>2. ASSUME q[1].type \notin {"ClientBlobEnd", "ClientBlobAbort"}
        PROVE  \E k \in DOMAIN Tail(q) : LastWord(Tail(q), k, b + (IF q[1].type = Push THEN q[1].size ELSE 0))
    <2> DEFINE p == Tail(q)
               n == IF q[1].type = Push THEN q[1].size ELSE 0
    <2>1. q # <<>>
      OBVIOUS
    <2>2. FrameRemoved(p, q) /\ p \in Seq(BlobFrames) /\ q[1] \in BlobFrames
      BY <2>1, BlobQueues
    <2>3. i # 1 /\ i \in Nat
      BY <1>2 DEF LastWord
    <2> HIDE DEF p
    <2>4. i - 1 \in DOMAIN p /\ (i - 1) + 1 = i /\ p[i - 1] = q[i]
      BY <2>2, <2>3 DEF FrameRemoved
    <2>5. n \in Nat /\ Sum(Bytes(p, Push)) \in Nat /\ Sum(Bytes(q, Push)) = Sum(Bytes(p, Push)) + n
      <3>0. \A t \in FrameTypes : Sum(Bytes(p, t)) \in Nat
        BY <2>2, BlobQueues
      <3>1. Sum(Bytes(p, Push)) \in Nat
        BY <1>0, <3>0
      <3> QED BY <1>0, <2>2, <3>1 DEF FrameRemoved, BlobFrames
    <2>6. ASSUME NEW j \in DOMAIN p
          PROVE  /\ j < i - 1 => p[j].type \notin {"ClientBlobEnd", "ClientBlobAbort"}
                 /\ j > i - 1 => p[j].type # Push
      <3>1. j \in Nat /\ j + 1 \in DOMAIN q /\ p[j] = q[j + 1]
        BY <2>2 DEF FrameRemoved
      <3>2. (j < i - 1 => j + 1 < i) /\ (j > i - 1 => j + 1 > i)
        BY <2>3, <3>1
      <3> QED BY <3>1, <3>2 DEF LastWord
    <2>7. p[i - 1].type = "ClientBlobEnd" => (b + n) + Sum(Bytes(p, Push)) = total.up
      <3> HIDE DEF n
      <3>1. q[i].type = "ClientBlobEnd" => b + Sum(Bytes(q, Push)) = total.up
        BY DEF LastWord
      <3> QED BY <1>0, <2>4, <2>5, <3>1
    <2>8. p[i - 1].type \in {"ClientBlobEnd", "ClientBlobAbort"}
      BY <2>4 DEF LastWord
    <2>9. LastWord(p, i - 1, b + n)
      <3> HIDE DEF n
      <3> QED BY <2>6, <2>7, <2>8 DEF LastWord
    <2> QED BY <2>4, <2>9 DEF p
  <1> QED BY <1>1, <1>2

\* The frames that are added.
LEMMA NewFrames ==
    \A t \in FrameTypes, n \in Nat :
        /\ [type |-> t, size |-> n] \in BlobFrames
        /\ [type |-> t, size |-> n].type = t /\ [type |-> t, size |-> n].size = n
  BY DEF BlobFrames

\* What the steps of a download leave of an upload.
LEMMA UploadUntouched ==
    ASSUME BlobTypes, UploadInv, UNCHANGED <<sent, uploaded, total>>,
           Moved(toClient', toClient, DownTypes), Moved(toServer', toServer, DownTypes)
    PROVE  UploadInv'
  <1>0. /\ {"ClientBlobPull", "ClientBlobPush", "ClientBlobEnd", "ClientBlobAbort"} \subseteq FrameTypes
        /\ {"ClientBlobPull", "ClientBlobPush", "ClientBlobEnd", "ClientBlobAbort"} \cap DownTypes = {}
    BY DEF FrameTypes, UpTypes, DownTypes
  <1>1. toClient \in Seq(BlobFrames) /\ toServer \in Seq(BlobFrames) /\ total.up \in Nat /\ uploaded.bytes \in Nat
    BY DEF BlobTypes, UploadTypes, DownloadTypes
  <1>2. /\ Sum(Bytes(toClient', "ClientBlobPull")) = Sum(Bytes(toClient, "ClientBlobPull"))
        /\ \A i \in DOMAIN toClient' : toClient'[i].type \in DownTypes \/ \E j \in DOMAIN toClient : toClient'[i] = toClient[j]
    <2> DEFINE p == toClient'
    <2>1. Moved(p, toClient, DownTypes)
      OBVIOUS
    <2> HIDE DEF p
    <2>2. /\ \A t \in FrameTypes : t \notin DownTypes => Sum(Bytes(p, t)) = Sum(Bytes(toClient, t))
          /\ \A i \in DOMAIN p : p[i].type \in DownTypes \/ \E j \in DOMAIN toClient : p[i] = toClient[j]
      BY <1>1, <2>1, OtherFrames
    <2> QED BY <1>0, <2>2 DEF p
  <1>3. /\ Sum(Bytes(toServer', "ClientBlobPush")) = Sum(Bytes(toServer, "ClientBlobPush"))
        /\ Sum(PullsServed(toServer')) = Sum(PullsServed(toServer))
        /\ \A i \in DOMAIN toServer' : toServer'[i].type \in DownTypes \/ \E j \in DOMAIN toServer : toServer'[i] = toServer[j]
    <2> DEFINE p == toServer'
    <2>1. Moved(p, toServer, DownTypes)
      OBVIOUS
    <2> HIDE DEF p
    <2>2. /\ \A t \in FrameTypes : t \notin DownTypes => Sum(Bytes(p, t)) = Sum(Bytes(toServer, t))
          /\ "ClientBlobPush" \notin DownTypes => Sum(PullsServed(p)) = Sum(PullsServed(toServer))
          /\ \A i \in DOMAIN p : p[i].type \in DownTypes \/ \E j \in DOMAIN toServer : p[i] = toServer[j]
      BY <1>1, <2>1, OtherFrames
    <2> QED BY <1>0, <2>2 DEF p
  <1>4. PullSizes' /\ OnePull'
    <2>1. \A i \in DOMAIN toClient' : toClient'[i].type = "ClientBlobPull" => toClient'[i].size = PullSize
      BY <1>0, <1>2 DEF UploadInv, PullSizes, OnePull
    <2>2. \A i \in DOMAIN toServer' : toServer'[i].type = "ClientBlobPush" => toServer'[i].size <= PullSize
      BY <1>0, <1>3 DEF UploadInv, PullSizes, OnePull
    <2> QED BY <1>2, <1>3, <2>1, <2>2 DEF UploadInv, PullSizes, OnePull
  <1>5. UploadWhole'
    <2>1. uploaded.open => \A i \in DOMAIN toClient' : toClient'[i].type # "ClientBlobAbort"
      BY <1>0, <1>2 DEF UploadInv, UploadWhole
    <2>2. uploaded.open /\ sent.open =>
            \A i \in DOMAIN toServer' : toServer'[i].type \notin {"ClientBlobEnd", "ClientBlobAbort"}
      BY <1>0, <1>3 DEF UploadInv, UploadWhole
    <2>3. ASSUME uploaded.open, ~sent.open
          PROVE  \E i \in DOMAIN toServer' : LastWord(toServer', i, uploaded.bytes)
      <3>1. PICK i \in DOMAIN toServer : LastWord(toServer, i, uploaded.bytes)
        BY <2>3 DEF UploadInv, UploadWhole
      <3>2. CASE toServer' = toServer
        BY <3>1, <3>2
      <3>3. CASE \E f \in BlobFrames : f.type \in DownTypes /\ toServer' = Append(toServer, f)
        <4>1. PICK f \in BlobFrames : f.type \in DownTypes /\ toServer' = Append(toServer, f)
          BY <3>3
        <4>2. f.type # "ClientBlobPush"
          BY <1>0, <4>1
        <4> QED BY <1>1, <3>1, <4>1, <4>2, LastWordStays
      <3>4. CASE toServer # <<>> /\ Head(toServer).type \in DownTypes /\ toServer' = Tail(toServer)
        <4>1. toServer[1].type \in DownTypes
          BY <1>1, <3>4, BlobQueues
        <4>2. toServer[1].type \notin {"ClientBlobEnd", "ClientBlobAbort", "ClientBlobPush"}
          BY <1>0, <4>1
        <4>3. \E k \in DOMAIN Tail(toServer) :
                    LastWord(Tail(toServer), k, uploaded.bytes + (IF toServer[1].type = "ClientBlobPush" THEN toServer[1].size ELSE 0))
          BY <1>1, <3>1, <4>2, LastWordStays
        <4>4. uploaded.bytes + (IF toServer[1].type = "ClientBlobPush" THEN toServer[1].size ELSE 0) = uploaded.bytes
          BY <1>1, <4>2
        <4> QED BY <3>4, <4>3, <4>4
      <3> QED BY <3>2, <3>3, <3>4 DEF Moved
    <2>4. ASSUME uploaded.open, ~sent.open
          PROVE  \E i \in DOMAIN toServer' : LastWord(toServer, i, uploaded.bytes)'
      BY <2>3, <2>4 DEF LastWord
    <2> QED BY <1>3, <2>1, <2>2, <2>4 DEF UploadInv, UploadWhole
  <1>6. UploadQuiet'
    BY DEF UploadInv, UploadQuiet
  <1> QED BY <1>4, <1>5, <1>6 DEF UploadInv

\* What the steps of an upload leave of a download.
LEMMA DownloadUntouched ==
    ASSUME BlobTypes, DownloadInv, UNCHANGED <<pump, got, total>>,
           Moved(toClient', toClient, UpTypes), Moved(toServer', toServer, UpTypes)
    PROVE  DownloadInv'
  <1>0. /\ {"ServerBlobPull", "ServerBlobPush", "ServerBlobEnd"} \subseteq FrameTypes
        /\ {"ServerBlobPull", "ServerBlobPush", "ServerBlobEnd"} \cap UpTypes = {}
    BY DEF FrameTypes, UpTypes, DownTypes
  <1>1. toClient \in Seq(BlobFrames) /\ toServer \in Seq(BlobFrames)
    BY DEF BlobTypes, UploadTypes, DownloadTypes
  <1>2. /\ Sum(Bytes(toClient', "ServerBlobPush")) = Sum(Bytes(toClient, "ServerBlobPush"))
        /\ \A i \in DOMAIN toClient' : toClient'[i].type \in UpTypes \/ \E j \in DOMAIN toClient : toClient'[i] = toClient[j]
        /\ \A i, j \in DOMAIN toClient' : i < j /\ toClient'[i].type \notin UpTypes /\ toClient'[j].type \notin UpTypes
              => \E k, l \in DOMAIN toClient : k < l /\ toClient'[i] = toClient[k] /\ toClient'[j] = toClient[l]
    <2> DEFINE p == toClient'
    <2>1. Moved(p, toClient, UpTypes)
      OBVIOUS
    <2> HIDE DEF p
    <2>2. /\ \A t \in FrameTypes : t \notin UpTypes => Sum(Bytes(p, t)) = Sum(Bytes(toClient, t))
          /\ \A i \in DOMAIN p : p[i].type \in UpTypes \/ \E j \in DOMAIN toClient : p[i] = toClient[j]
          /\ \A i, j \in DOMAIN p : i < j /\ p[i].type \notin UpTypes /\ p[j].type \notin UpTypes
                => \E k, l \in DOMAIN toClient : k < l /\ p[i] = toClient[k] /\ p[j] = toClient[l]
      BY <1>1, <2>1, OtherFrames
    <2>3. Sum(Bytes(p, "ServerBlobPush")) = Sum(Bytes(toClient, "ServerBlobPush"))
      BY <1>0, <2>2
    <2> QED BY <2>2, <2>3 DEF p
  <1>3. Sum(Bytes(toServer', "ServerBlobPull")) = Sum(Bytes(toServer, "ServerBlobPull"))
    <2> DEFINE p == toServer'
    <2>1. Moved(p, toServer, UpTypes)
      OBVIOUS
    <2> HIDE DEF p
    <2>2. \A t \in FrameTypes : t \notin UpTypes => Sum(Bytes(p, t)) = Sum(Bytes(toServer, t))
      BY <1>1, <2>1, OtherFrames
    <2> QED BY <1>0, <2>2 DEF p
  <1>4. DownloadGranted'
    BY <1>2, <1>3 DEF DownloadInv, DownloadGranted
  <1>5. DownloadWhole'
    <2>1. ASSUME NEW i \in DOMAIN toClient', toClient'[i].type = "ServerBlobEnd"
          PROVE  /\ \E k \in DOMAIN toClient : toClient[k].type = "ServerBlobEnd"
                 /\ \A j \in DOMAIN toClient' : j > i => toClient'[j].type # "ServerBlobPush"
      <3>1. \E k \in DOMAIN toClient : toClient[k].type = "ServerBlobEnd"
        BY <1>0, <1>2, <2>1
      <3>2. ASSUME NEW j \in DOMAIN toClient', i < j, toClient'[j].type = "ServerBlobPush" PROVE FALSE
        <4>1. PICK k, l \in DOMAIN toClient : k < l /\ toClient'[i] = toClient[k] /\ toClient'[j] = toClient[l]
          BY <1>0, <1>2, <2>1, <3>2
        <4>2. l > k
          BY <1>1, <4>1
        <4> QED BY <2>1, <3>2, <4>1, <4>2 DEF DownloadInv, DownloadWhole
      <3>3. \A j \in DOMAIN toClient' : j > i => i < j
        <4>1. toClient' \in Seq(BlobFrames)
          <5> DEFINE p == toClient'
          <5>1. Moved(p, toClient, UpTypes)
            OBVIOUS
          <5> HIDE DEF p
          <5>2. p \in Seq(BlobFrames)
            BY <1>1, <5>1, OtherFrames
          <5> QED BY <5>2 DEF p
        <4> QED BY <4>1
      <3> QED BY <3>1, <3>2, <3>3
    <2>2. ASSUME NEW i \in DOMAIN toClient', toClient'[i].type = "ServerBlobEnd"
          PROVE  /\ ~pump'.open
                 /\ got'.state = "open" => got'.bytes + Sum(Bytes(toClient', "ServerBlobPush")) = total'.down
      BY <1>2, <2>1, <2>2 DEF DownloadInv, DownloadWhole
    <2> QED BY <1>2, <2>1, <2>2 DEF DownloadInv, DownloadWhole
  <1>6. DownloadQuiet'
    BY DEF DownloadInv, DownloadQuiet
  <1> QED BY <1>4, <1>5, <1>6 DEF DownloadInv

\* The steps, by the frames they handle.
UploadStep ==
    \/ Demand \/ ConsumeUpload \/ UploadExpires \/ AnswerPull
    \/ ServerReceivesBlob /\ Head(toServer).type \in UpTypes
    \/ ClientReceivesBlob /\ Head(toClient).type \in UpTypes
DownloadStep ==
    \/ SourceFails \/ SourceEnds \/ Pump \/ DownloadExpires \/ ReadBlob \/ AbortServerBlob
    \/ ServerReceivesBlob /\ Head(toServer).type \in DownTypes
    \/ ClientReceivesBlob /\ Head(toClient).type \in DownTypes

\* The frames that the steps of an upload move.
LEMMA UploadMoves ==
    ASSUME BlobTypes, UploadStep
    PROVE  /\ UNCHANGED <<pump, got, total>>
           /\ Moved(toClient', toClient, UpTypes) /\ Moved(toServer', toServer, UpTypes)
  <1>0. PullSize \in Nat
    BY BlobAssumption
  <1>1. \A t \in UpTypes, n \in Nat : [type |-> t, size |-> n] \in BlobFrames /\ [type |-> t, size |-> n].type \in UpTypes
    BY NewFrames DEF FrameTypes
  <1>2. {"ClientBlobPull", "ClientBlobPush", "ClientBlobEnd", "ClientBlobAbort"} \subseteq UpTypes
    BY DEF UpTypes
  <1>3. \A q, n : n \in Nat => \A t \in UpTypes : Moved(Append(q, [type |-> t, size |-> n]), q, UpTypes)
    BY <1>1 DEF Moved
  <1>4. \A q : Moved(q, q, UpTypes)
    BY DEF Moved
  <1>5. ASSUME AbortUpload(TRUE) \/ AbortUpload(FALSE) \/ UNCHANGED <<uploaded, toClient>>
        PROVE Moved(toClient', toClient, UpTypes)
    BY <1>2, <1>3, <1>4, <1>5 DEF AbortUpload, ToClient
  <1>6. CASE Demand
    <2>1. UNCHANGED <<toServer, sent, pump, got, total>>
      BY <1>6 DEF Demand
    <2>2. Moved(toClient', toClient, UpTypes)
      BY <1>0, <1>2, <1>3, <1>5, <1>6 DEF Demand, ToClient
    <2> QED BY <1>4, <2>1, <2>2
  <1>7. CASE ConsumeUpload
    BY <1>4, <1>7 DEF ConsumeUpload
  <1>8. CASE UploadExpires
    BY <1>4, <1>5, <1>8 DEF UploadExpires
  <1>9. CASE AnswerPull
    <2>1. UNCHANGED <<toClient, uploaded, pump, got, total>>
      BY <1>9 DEF AnswerPull
    <2>2. CASE sent.open /\ (sent.queue > 0 \/ sent.source # <<>>) /\ sent.pulls # <<>>
               /\ toServer' = ToServer("ClientBlobPush", ReadSource(Head(sent.pulls)).bytes)
      <3>1. Head(sent.pulls) \in Nat /\ sent.queue \in Nat /\ (sent.queue = 0 => Head(sent.source) \in Nat)
        <4>1. sent.pulls \in Seq(Nat) /\ sent.queue \in Nat /\ sent.source \in Seq(Nat)
          BY DEF BlobTypes, UploadTypes, DownloadTypes
        <4>2. \A s \in Seq(Nat) : s # <<>> => Head(s) \in Nat
          OBVIOUS
        <4>3. sent.queue = 0 => sent.source # <<>>
          BY <2>2
        <4> QED BY <2>2, <4>1, <4>2, <4>3
      <3>2. ReadSource(Head(sent.pulls)).bytes \in Nat
        BY <3>1 DEF ReadSource, Smaller
      <3> QED BY <1>2, <1>3, <1>4, <2>1, <2>2, <3>2 DEF ToServer
    <2>3. CASE toServer' = ToServer("ClientBlobEnd", 0) \/ toServer' = ToServer("ClientBlobAbort", 0)
      BY <1>2, <1>3, <1>4, <2>1, <2>3 DEF ToServer
    <2> QED BY <1>9, <2>2, <2>3 DEF AnswerPull
  <1>10. CASE ServerReceivesBlob /\ Head(toServer).type \in UpTypes
    <2>1. /\ toServer # <<>> /\ toServer' = Tail(toServer) /\ UNCHANGED <<sent, got, total>>
      BY <1>10 DEF ServerReceivesBlob
    <2>2. Moved(toServer', toServer, UpTypes)
      BY <1>10, <2>1 DEF Moved
    <2>3. UNCHANGED pump /\ (OnClientBlobPush(Head(toServer).size) \/ OnClientBlobEnd \/ OnClientBlobAbort)
      BY <1>10 DEF ServerReceivesBlob, UpTypes
    <2>4. (AbortUpload(TRUE) \/ AbortUpload(FALSE)) \/ UNCHANGED toClient
      BY <2>3 DEF OnClientBlobPush, OnClientBlobEnd, OnClientBlobAbort
    <2>5. Moved(toClient', toClient, UpTypes)
      BY <1>4, <1>5, <2>4
    <2> QED BY <2>1, <2>2, <2>3, <2>5
  <1>11. CASE ClientReceivesBlob /\ Head(toClient).type \in UpTypes
    <2>1. /\ toClient # <<>> /\ toClient' = Tail(toClient) /\ UNCHANGED <<toServer, uploaded, pump, total>>
      BY <1>11 DEF ClientReceivesBlob
    <2>2. UNCHANGED got
      BY <1>11 DEF ClientReceivesBlob, UpTypes
    <2>3. Moved(toClient', toClient, UpTypes)
      BY <1>11, <2>1 DEF Moved
    <2> QED BY <1>4, <2>1, <2>2, <2>3
  <1> QED BY <1>6, <1>7, <1>8, <1>9, <1>10, <1>11 DEF UploadStep

\* The frames that the steps of a download move.
LEMMA DownloadMoves ==
    ASSUME BlobTypes, DownloadStep
    PROVE  /\ UNCHANGED <<sent, uploaded, total>>
           /\ Moved(toClient', toClient, DownTypes) /\ Moved(toServer', toServer, DownTypes)
  <1>0. PullSize \in Nat
    BY BlobAssumption
  <1>1. \A t \in DownTypes, n \in Nat : [type |-> t, size |-> n] \in BlobFrames /\ [type |-> t, size |-> n].type \in DownTypes
    BY NewFrames DEF FrameTypes
  <1>2. {"ServerBlobPull", "ServerBlobPush", "ServerBlobEnd", "ServerBlobAbort"} \subseteq DownTypes
    BY DEF DownTypes
  <1>3. \A q, n : n \in Nat => \A t \in DownTypes : Moved(Append(q, [type |-> t, size |-> n]), q, DownTypes)
    BY <1>1 DEF Moved
  <1>4. \A q : Moved(q, q, DownTypes)
    BY DEF Moved
  <1>5. ASSUME FailDownload(TRUE) \/ FailDownload(FALSE) \/ UNCHANGED toClient PROVE Moved(toClient', toClient, DownTypes)
    BY <1>2, <1>3, <1>4, <1>5 DEF FailDownload, ToClient
  <1>6. CASE SourceFails
    <2>1. FailDownload(TRUE) \/ UNCHANGED toClient
      BY <1>6 DEF SourceFails
    <2> QED BY <1>4, <1>5, <1>6, <2>1 DEF SourceFails
  <1>7. CASE SourceEnds
    BY <1>4, <1>7 DEF SourceEnds
  <1>8. CASE Pump
    <2>1. UNCHANGED <<toServer, sent, uploaded, got, total>>
      BY <1>8 DEF Pump
    <2>2. ASSUME NEW n \in Nat, PumpChunk(n) PROVE Moved(toClient', toClient, DownTypes)
      <3>1. pump.credits \in Nat
        BY DEF BlobTypes, UploadTypes, DownloadTypes
      <3>2. Smaller(n, pump.credits) \in Nat
        BY <3>1 DEF Smaller
      <3> QED BY <1>2, <1>3, <2>2, <3>2 DEF PumpChunk, ToClient
    <2>3. CASE PumpChunk(pump.buffered)
      <3>1. pump.buffered \in Nat
        BY DEF BlobTypes, UploadTypes, DownloadTypes
      <3> QED BY <1>4, <2>1, <2>2, <2>3, <3>1
    <2>4. CASE pump.source # <<>> /\ PumpChunk(Head(pump.source))
      <3>1. Head(pump.source) \in Nat
        BY <2>4 DEF BlobTypes, UploadTypes, DownloadTypes
      <3> QED BY <1>4, <2>1, <2>2, <2>4, <3>1
    <2>5. CASE toClient' = ToClient("ServerBlobEnd", 0)
      BY <1>2, <1>3, <1>4, <2>1, <2>5 DEF ToClient
    <2> QED BY <1>8, <2>3, <2>4, <2>5 DEF Pump
  <1>9. CASE DownloadExpires
    BY <1>4, <1>5, <1>9 DEF DownloadExpires
  <1>10. CASE ReadBlob
    BY <1>0, <1>2, <1>3, <1>4, <1>10 DEF ReadBlob, ToServer
  <1>11. CASE AbortServerBlob
    BY <1>2, <1>3, <1>4, <1>11 DEF AbortServerBlob, ToServer
  <1>12. CASE ServerReceivesBlob /\ Head(toServer).type \in DownTypes
    <2>1. /\ toServer # <<>> /\ toServer' = Tail(toServer) /\ UNCHANGED <<sent, got, total>>
      BY <1>12 DEF ServerReceivesBlob
    <2>2. Moved(toServer', toServer, DownTypes)
      BY <1>12, <2>1 DEF Moved
    <2>3. UNCHANGED uploaded /\ (OnServerBlobPull(Head(toServer).size) \/ OnServerBlobAbort)
      BY <1>12 DEF ServerReceivesBlob, DownTypes
    <2>4. FailDownload(TRUE) \/ FailDownload(FALSE) \/ UNCHANGED toClient \/ toClient' = ToClient("ServerBlobAbort", 0)
      BY <2>3 DEF OnServerBlobPull, OnServerBlobAbort
    <2>5. Moved(toClient', toClient, DownTypes)
      BY <1>2, <1>3, <1>5, <2>4 DEF ToClient
    <2> QED BY <2>1, <2>2, <2>3, <2>5
  <1>13. CASE ClientReceivesBlob /\ Head(toClient).type \in DownTypes
    <2>1. /\ toClient # <<>> /\ toClient' = Tail(toClient) /\ UNCHANGED <<toServer, uploaded, pump, total>>
      BY <1>13 DEF ClientReceivesBlob
    <2>2. UNCHANGED sent
      BY <1>13 DEF ClientReceivesBlob, DownTypes
    <2>3. Moved(toClient', toClient, DownTypes)
      BY <1>13, <2>1 DEF Moved
    <2> QED BY <1>4, <2>1, <2>2, <2>3
  <1> QED BY <1>6, <1>7, <1>8, <1>9, <1>10, <1>11, <1>12, <1>13 DEF DownloadStep

\* Every step is one of an upload, one of a download or the end of both.
LEMMA BlobSteps ==
    ASSUME BlobTypes, BlobNext PROVE UploadStep \/ DownloadStep \/ CleanupConnection
  <1>1. ASSUME NEW q \in Seq(BlobFrames), q # <<>> PROVE Head(q).type \in UpTypes \cup DownTypes
    <2>1. Head(q) \in BlobFrames
      BY <1>1
    <2> QED BY <2>1 DEF BlobFrames, FrameTypes
  <1>2. ServerReceivesBlob => toServer # <<>> /\ toServer \in Seq(BlobFrames)
    BY DEF ServerReceivesBlob, BlobTypes
  <1>3. ClientReceivesBlob => toClient # <<>> /\ toClient \in Seq(BlobFrames)
    BY DEF ClientReceivesBlob, BlobTypes
  <1> QED BY <1>1, <1>2, <1>3 DEF BlobNext, UploadStep, DownloadStep

-----------------------------------------------------------------------------
(* The steps of an upload.                                                 *)

\* An abort closes the upload and leaves what it carried.
LEMMA UploadAborted ==
    ASSUME UploadTypes, UploadQuiet, UploadWhole, uploaded.open, NEW b \in BOOLEAN, AbortUpload(b), UNCHANGED sent
    PROVE  UploadTypes' /\ UploadQuiet' /\ OnePull' /\ UploadWhole'
  <1>1. uploaded.heard = FALSE /\ uploaded.told = 0 /\ uploaded.ended = FALSE
    BY DEF UploadTypes, UploadQuiet, UploadWhole
  <1>2. ASSUME NEW n \in Nat, NEW h \in BOOLEAN,
               uploaded' = [uploaded EXCEPT !.open = FALSE, !.told = @ + n, !.heard = h]
        PROVE  /\ UploadTypes' /\ uploaded'.told = n /\ uploaded'.heard = h
               /\ uploaded'.ended = FALSE /\ uploaded'.open = FALSE
    <2>1. uploaded'.told = uploaded.told + n /\ uploaded'.heard = h /\ uploaded'.ended = uploaded.ended
          /\ uploaded'.open = FALSE
      BY <1>2 DEF UploadTypes
    <2>2. uploaded.told + n = n /\ uploaded.told + n \in Nat
      BY <1>1
    <2>3. UploadTypes'
      BY <1>2, <2>2 DEF UploadTypes
    <2> QED BY <1>1, <2>1, <2>2, <2>3
  <1>3. CASE b = TRUE
    <2>1. uploaded' = [uploaded EXCEPT !.open = FALSE, !.told = @ + 1, !.heard = @ \/ FALSE]
      BY <1>3 DEF AbortUpload
    <2>2. (uploaded.heard \/ FALSE) = FALSE
      BY <1>1
    <2>3. uploaded' = [uploaded EXCEPT !.open = FALSE, !.told = @ + 1, !.heard = FALSE]
      BY <2>1, <2>2
    <2>4. UploadTypes' /\ uploaded'.told = 1 /\ uploaded'.heard = FALSE /\ uploaded'.ended = FALSE /\ uploaded'.open = FALSE
      BY <1>2, <2>3
    <2> QED BY <2>4 DEF UploadQuiet, OnePull, UploadWhole
  <1>4. CASE b = FALSE
    <2>1. uploaded' = [uploaded EXCEPT !.open = FALSE, !.told = @ + 0, !.heard = @ \/ TRUE]
      BY <1>4 DEF AbortUpload
    <2>2. (uploaded.heard \/ TRUE) = TRUE
      OBVIOUS
    <2>3. uploaded' = [uploaded EXCEPT !.open = FALSE, !.told = @ + 0, !.heard = TRUE]
      BY <2>1, <2>2
    <2>4. UploadTypes' /\ uploaded'.told = 0 /\ uploaded'.heard = TRUE /\ uploaded'.ended = FALSE /\ uploaded'.open = FALSE
      BY <1>2, <2>3
    <2> QED BY <2>4 DEF UploadQuiet, OnePull, UploadWhole
  <1> QED BY <1>3, <1>4

\* The amounts of an upload are natural numbers.
LEMMA UploadAmounts ==
    ASSUME BlobTypes
    PROVE  /\ PullSize \in Nat \ {0} /\ MaxCredits \in Nat /\ PullSize <= MaxCredits
           /\ Sum(Bytes(toClient, "ClientBlobPull")) \in Nat /\ Sum(Bytes(toServer, "ClientBlobPush")) \in Nat
           /\ Sum(PullsServed(toServer)) \in Nat /\ Sum(sent.pulls) \in Nat /\ Sum(sent.source) \in Nat
           /\ uploaded.granted \in Nat /\ uploaded.bytes \in Nat /\ sent.queue \in Nat /\ total.up \in Nat
  <1>1. \A q \in Seq(BlobFrames) : Sum(PullsServed(q)) \in Nat /\ \A t \in FrameTypes : Sum(Bytes(q, t)) \in Nat
    BY BlobQueues
  <1>2. {"ClientBlobPull", "ClientBlobPush"} \subseteq FrameTypes
    BY DEF FrameTypes, UpTypes
  <1>3. toServer \in Seq(BlobFrames) /\ toClient \in Seq(BlobFrames)
    BY DEF BlobTypes
  <1>4. Sum(sent.pulls) \in Nat /\ Sum(sent.source) \in Nat
    BY SumFacts DEF BlobTypes, UploadTypes
  <1>5. uploaded.granted \in Nat /\ uploaded.bytes \in Nat /\ sent.queue \in Nat /\ total.up \in Nat
    BY DEF BlobTypes, UploadTypes
  <1> QED BY <1>1, <1>2, <1>3, <1>4, <1>5, BlobAssumption

\* The steps of the server's end.
LEMMA DemandUpload ==
    ASSUME BlobTypes, UploadInv, Demand PROVE UploadTypes' /\ UploadInv'
  <1>0. toClient \in Seq(BlobFrames) /\ UploadTypes
    BY DEF BlobTypes
  <1>1. uploaded.open /\ uploaded.consumed /\ ~uploaded.reading /\ UNCHANGED <<toServer, sent, pump, got, total>>
    BY DEF Demand
  <1>2. CASE AbortUpload(TRUE)
    <2>1. UploadTypes' /\ UploadQuiet' /\ OnePull' /\ UploadWhole'
      BY <1>0, <1>1, <1>2, UploadAborted DEF UploadInv
    <2>2. PullSizes'
      <3> DEFINE f == [type |-> "ClientBlobAbort", size |-> 0]
      <3>1. f \in BlobFrames /\ f.type = "ClientBlobAbort"
        BY DEF BlobFrames, FrameTypes, UpTypes
      <3>2. toClient' = Append(toClient, f)
        BY <1>2 DEF AbortUpload, ToClient
      <3> HIDE DEF f
      <3> QED BY <1>0, <1>1, <3>1, <3>2 DEF UploadInv, PullSizes
    <2> QED BY <2>1, <2>2 DEF UploadInv
  <1>3. CASE /\ uploaded' = [uploaded EXCEPT !.granted = Smaller(@ + PullSize, MaxCredits), !.reading = TRUE]
             /\ toClient' = ToClient("ClientBlobPull", PullSize)
    <2> DEFINE f == [type |-> "ClientBlobPull", size |-> PullSize]
    <2>1. f \in BlobFrames /\ f.type = "ClientBlobPull" /\ f.size = PullSize
      BY UploadAmounts DEF BlobFrames, FrameTypes, UpTypes
    <2>2. toClient' = Append(toClient, f)
      BY <1>3 DEF ToClient
    <2> HIDE DEF f
    <2>3. FrameAdded(toClient', toClient, f)
      BY <1>0, <2>1, <2>2, BlobQueues
    <2>4. Smaller(uploaded.granted + PullSize, MaxCredits) \in Nat /\ PullSize <= Smaller(uploaded.granted + PullSize, MaxCredits)
      BY UploadAmounts DEF Smaller
    <2>5. UploadTypes' /\ uploaded'.granted = Smaller(uploaded.granted + PullSize, MaxCredits) /\ uploaded'.reading = TRUE
          /\ uploaded'.open = uploaded.open /\ uploaded'.told = uploaded.told /\ uploaded'.heard = uploaded.heard
          /\ uploaded'.bytes = uploaded.bytes /\ uploaded'.ended = uploaded.ended
      <3> HIDE DEF Smaller
      <3> QED BY <1>0, <1>1, <1>3, <2>4 DEF UploadTypes
    <2>6. UploadQuiet'
      BY <2>5 DEF UploadInv, UploadQuiet
    <2>7. PullSizes'
      BY <1>0, <1>1, <2>1, <2>2 DEF UploadInv, PullSizes
    <2>8. OnePull'
      <3>1. Sum(Bytes(toClient, "ClientBlobPull")) + Sum(sent.pulls) + Sum(PullsServed(toServer)) <= 0
        BY <1>1 DEF UploadInv, OnePull
      <3>2. Sum(Bytes(toClient', "ClientBlobPull")) = Sum(Bytes(toClient, "ClientBlobPull")) + PullSize
        BY <2>1, <2>3 DEF FrameAdded, FrameTypes, UpTypes
      <3>3. Sum(Bytes(toClient', "ClientBlobPull")) + Sum(sent.pulls) + Sum(PullsServed(toServer)) <= PullSize
        BY <3>1, <3>2, UploadAmounts
      <3> QED BY <1>1, <2>4, <2>5, <3>3 DEF OnePull
    <2>9. UploadWhole'
      <3>1. \A i \in DOMAIN toClient' : toClient'[i].type # "ClientBlobAbort"
        BY <1>1, <2>1, <2>3 DEF FrameAdded, UploadInv, UploadWhole
      <3> QED BY <1>1, <2>5, <3>1 DEF UploadInv, UploadWhole, LastWord
    <2> QED BY <2>5, <2>6, <2>7, <2>8, <2>9 DEF UploadInv
  <1> QED BY <1>2, <1>3 DEF Demand

\* The handler takes the upload, or its timer runs out.
LEMMA ConsumeOrExpire ==
    ASSUME BlobTypes, UploadInv, ConsumeUpload \/ UploadExpires PROVE UploadTypes' /\ UploadInv'
  <1>0. toClient \in Seq(BlobFrames) /\ UploadTypes
    BY DEF BlobTypes
  <1>1. CASE ConsumeUpload
    <2>1. UNCHANGED <<toServer, toClient, sent, pump, got, total>> /\ uploaded' = [uploaded EXCEPT !.consumed = TRUE]
      BY <1>1 DEF ConsumeUpload
    <2>2. /\ UploadTypes' /\ uploaded'.open = uploaded.open /\ uploaded'.told = uploaded.told
          /\ uploaded'.heard = uploaded.heard /\ uploaded'.reading = uploaded.reading
          /\ uploaded'.granted = uploaded.granted
          /\ uploaded'.bytes = uploaded.bytes /\ uploaded'.ended = uploaded.ended
      BY <1>0, <2>1 DEF UploadTypes
    <2> QED BY <2>1, <2>2 DEF UploadInv, UploadQuiet, PullSizes, OnePull, UploadWhole, LastWord
  <1>2. CASE UploadExpires
    <2>0. uploaded.open /\ AbortUpload(TRUE) /\ UNCHANGED <<toServer, sent, pump, got, total>>
      BY <1>2 DEF UploadExpires
    <2>1. UploadTypes' /\ UploadQuiet' /\ OnePull' /\ UploadWhole'
      BY <1>0, <2>0, UploadAborted DEF UploadInv
    <2>2. PullSizes'
      <3> DEFINE f == [type |-> "ClientBlobAbort", size |-> 0]
      <3>1. f \in BlobFrames /\ f.type = "ClientBlobAbort"
        BY DEF BlobFrames, FrameTypes, UpTypes
      <3>2. toClient' = Append(toClient, f)
        BY <2>0 DEF AbortUpload, ToClient
      <3> HIDE DEF f
      <3> QED BY <1>0, <2>0, <3>1, <3>2 DEF UploadInv, PullSizes
    <2> QED BY <2>1, <2>2 DEF UploadInv
  <1> QED BY <1>1, <1>2

\* A frame less, or an abort more, leaves the sizes of the others.
LEMMA SizesKept ==
    ASSUME BlobTypes, PullSizes, UNCHANGED sent,
           toServer' = toServer \/ (toServer # <<>> /\ toServer' = Tail(toServer)),
           toClient' = toClient \/ (toClient # <<>> /\ toClient' = Tail(toClient)) \/ toClient' = ToClient("ClientBlobAbort", 0)
    PROVE  PullSizes'
  <1>0. toServer \in Seq(BlobFrames) /\ toClient \in Seq(BlobFrames)
    BY DEF BlobTypes
  <1>1. \A i \in DOMAIN toServer' : toServer'[i].type = "ClientBlobPush" => toServer'[i].size <= PullSize
    BY <1>0 DEF PullSizes
  <1>2. \A i \in DOMAIN toClient' : toClient'[i].type = "ClientBlobPull" => toClient'[i].size = PullSize
    <2>1. CASE toClient' = toClient \/ (toClient # <<>> /\ toClient' = Tail(toClient))
      BY <1>0, <2>1 DEF PullSizes
    <2>2. CASE toClient' = ToClient("ClientBlobAbort", 0)
      <3> DEFINE f == [type |-> "ClientBlobAbort", size |-> 0]
      <3>1. f \in BlobFrames /\ f.type = "ClientBlobAbort"
        BY DEF BlobFrames, FrameTypes, UpTypes
      <3>2. toClient' = Append(toClient, f)
        BY <2>2 DEF ToClient
      <3> HIDE DEF f
      <3> QED BY <1>0, <3>1, <3>2 DEF PullSizes
    <2> QED BY <2>1, <2>2
  <1> QED BY <1>1, <1>2 DEF PullSizes

\* The server takes a push, an end or an abort of the client.
LEMMA ReceivedUpload ==
    ASSUME BlobTypes, UploadInv, ServerReceivesBlob, Head(toServer).type \in UpTypes
    PROVE  UploadTypes' /\ UploadInv'
  <1> DEFINE f == Head(toServer)
  <1>0. toServer \in Seq(BlobFrames) /\ toClient \in Seq(BlobFrames) /\ UploadTypes
    BY DEF BlobTypes
  <1>1. toServer # <<>> /\ toServer' = Tail(toServer) /\ UNCHANGED <<sent, got, total>>
    BY DEF ServerReceivesBlob
  <1>2. FrameRemoved(toServer', toServer) /\ f = toServer[1] /\ f \in BlobFrames /\ 1 \in DOMAIN toServer
    BY <1>0, <1>1, BlobQueues
  <1>3. ASSUME NEW b \in BOOLEAN, uploaded.open, AbortUpload(b) PROVE UploadTypes' /\ UploadInv'
    <2>1. UploadTypes' /\ UploadQuiet' /\ OnePull' /\ UploadWhole'
      BY <1>0, <1>1, <1>3, UploadAborted DEF UploadInv
    <2>2. toClient' = toClient \/ toClient' = ToClient("ClientBlobAbort", 0)
      BY <1>3 DEF AbortUpload
    <2>3. PullSizes'
      BY <1>1, <2>2, SizesKept DEF UploadInv
    <2> QED BY <2>1, <2>3 DEF UploadInv
  <1>4. ASSUME UNCHANGED <<uploaded, toClient>>, ~uploaded.open PROVE UploadTypes' /\ UploadInv'
    <2>1. PullSizes'
      BY <1>1, <1>4, SizesKept DEF UploadInv
    <2> QED BY <1>0, <1>1, <1>4, <2>1 DEF UploadTypes, UploadInv, UploadQuiet, OnePull, UploadWhole
  <1>5. CASE f.type = "ClientBlobPush" /\ OnClientBlobPush(f.size)
    <2>1. CASE ~uploaded.open
      BY <1>4, <1>5, <2>1 DEF OnClientBlobPush
    <2>2. CASE uploaded.open /\ (f.size = 0 \/ f.size > uploaded.granted)
      BY <1>3, <1>5, <2>2 DEF OnClientBlobPush
    <2>3. CASE uploaded.open /\ ~(f.size = 0 \/ f.size > uploaded.granted)
      <3>1. PICK n \in Nat : n = f.size
        BY <1>2 DEF BlobFrames
      <3>2. uploaded' = [uploaded EXCEPT !.granted = @ - n, !.bytes = @ + n, !.reading = FALSE] /\ UNCHANGED toClient
        BY <1>5, <2>3, <3>1 DEF OnClientBlobPush
      <3>3. uploaded.granted - n \in Nat /\ uploaded.bytes + n \in Nat
        BY <2>3, <3>1, UploadAmounts
      <3>4. /\ UploadTypes' /\ uploaded'.open = uploaded.open /\ uploaded'.told = uploaded.told
            /\ uploaded'.heard = uploaded.heard /\ uploaded'.reading = FALSE
            /\ uploaded'.bytes = uploaded.bytes + n /\ uploaded'.ended = uploaded.ended
        BY <1>0, <1>1, <3>2, <3>3 DEF UploadTypes
      <3>5. UploadQuiet'
        BY <3>4 DEF UploadInv, UploadQuiet
      <3>6. PullSizes'
        BY <1>1, <3>2, SizesKept DEF UploadInv
      <3>7. /\ Sum(PullsServed(toServer)) = Sum(PullsServed(toServer')) + PullSize
            /\ Sum(Bytes(toServer, "ClientBlobPush")) = Sum(Bytes(toServer', "ClientBlobPush")) + n
        <4>1. "ClientBlobPush" \in FrameTypes
          BY DEF FrameTypes, UpTypes
        <4> QED BY <1>2, <1>5, <3>1, <4>1 DEF FrameRemoved
      <3>8. Sum(PullsServed(toServer')) \in Nat /\ Sum(Bytes(toServer', "ClientBlobPush")) \in Nat
        <4>1. "ClientBlobPush" \in FrameTypes
          BY DEF FrameTypes, UpTypes
        <4>2. Tail(toServer) \in Seq(BlobFrames)
          BY <1>0, <1>1
        <4>3. Sum(PullsServed(Tail(toServer))) \in Nat /\ \A t \in FrameTypes : Sum(Bytes(Tail(toServer), t)) \in Nat
          BY <4>2, BlobQueues
        <4> QED BY <1>1, <4>1, <4>3
      <3>9. OnePull'
        <4>1. Sum(Bytes(toClient, "ClientBlobPull")) + Sum(sent.pulls) + Sum(PullsServed(toServer)) <= PullSize
          BY <2>3, UploadAmounts DEF UploadInv, OnePull
        <4>2. Sum(Bytes(toClient, "ClientBlobPull")) + Sum(sent.pulls) + Sum(PullsServed(toServer')) <= 0
          BY <3>7, <3>8, <4>1, UploadAmounts
        <4> QED BY <1>1, <3>2, <3>4, <4>2 DEF OnePull
      <3>10. UploadWhole'
        <4>1. \A i \in DOMAIN toClient' : toClient'[i].type # "ClientBlobAbort"
          BY <2>3, <3>2 DEF UploadInv, UploadWhole
        <4>2. ~uploaded.ended
          BY <2>3 DEF UploadInv, UploadWhole
        <4>3. CASE sent.open
          <5>1. \A i \in DOMAIN toServer' : toServer'[i].type \notin {"ClientBlobEnd", "ClientBlobAbort"}
            BY <1>2, <2>3, <4>3 DEF FrameRemoved, UploadInv, UploadWhole
          <5>2. uploaded.bytes + Sum(Bytes(toServer, "ClientBlobPush")) + sent.queue + Sum(sent.source) = total.up
            BY <2>3, <4>3 DEF UploadInv, UploadWhole
          <5>3. (uploaded.bytes + n) + Sum(Bytes(toServer', "ClientBlobPush")) + sent.queue + Sum(sent.source) = total.up
            BY <3>7, <3>8, <5>2, UploadAmounts
          <5> QED BY <1>1, <3>4, <4>1, <4>2, <4>3, <5>1, <5>3 DEF UploadWhole
        <4>4. CASE ~sent.open
          <5>1. PICK i \in DOMAIN toServer : LastWord(toServer, i, uploaded.bytes)
            BY <2>3, <4>4 DEF UploadInv, UploadWhole
          <5>2. toServer[1].type \notin {"ClientBlobEnd", "ClientBlobAbort"} /\ toServer[1].size = n
                /\ toServer[1].type = "ClientBlobPush"
            BY <1>2, <1>5, <3>1
          <5>3. \E k \in DOMAIN Tail(toServer) :
                    LastWord(Tail(toServer), k, uploaded.bytes + (IF toServer[1].type = "ClientBlobPush" THEN toServer[1].size ELSE 0))
            BY <1>0, <5>1, <5>2, LastWordStays, UploadAmounts
          <5>4. \E k \in DOMAIN Tail(toServer) : LastWord(Tail(toServer), k, uploaded.bytes + n)
            BY <5>2, <5>3
          <5>5. \E k \in DOMAIN toServer' : LastWord(toServer, k, uploaded.bytes)'
            BY <1>1, <3>4, <5>4 DEF LastWord
          <5> QED BY <1>1, <3>4, <4>1, <4>2, <4>4, <5>5 DEF UploadWhole
        <4> QED BY <4>3, <4>4
      <3> QED BY <3>4, <3>5, <3>6, <3>9, <3>10 DEF UploadInv
    <2> QED BY <2>1, <2>2, <2>3
  <1>6. CASE f.type = "ClientBlobEnd" /\ OnClientBlobEnd
    <2>1. CASE ~uploaded.open
      <3>1. uploaded' = [uploaded EXCEPT !.ended = @ \/ FALSE, !.open = FALSE] /\ UNCHANGED toClient
        BY <1>0, <1>6, <2>1 DEF OnClientBlobEnd, UploadTypes
      <3>2. uploaded.open = FALSE /\ (uploaded.ended \/ FALSE) = uploaded.ended
        BY <1>0, <2>1 DEF UploadTypes
      <3>3. uploaded' = [uploaded EXCEPT !.ended = uploaded.ended, !.open = uploaded.open]
        BY <3>1, <3>2
      <3>4. uploaded' = uploaded
        BY <1>0, <3>3 DEF UploadTypes
      <3> QED BY <1>4, <2>1, <3>1, <3>4
    <2>2. CASE uploaded.open
      <3>1. uploaded' = [uploaded EXCEPT !.ended = @ \/ TRUE, !.open = FALSE] /\ UNCHANGED toClient
        BY <1>0, <1>6, <2>2 DEF OnClientBlobEnd, UploadTypes
      <3>2. (uploaded.ended \/ TRUE) = TRUE
        OBVIOUS
      <3>3. uploaded' = [uploaded EXCEPT !.ended = TRUE, !.open = FALSE]
        BY <3>1, <3>2
      <3>4. /\ UploadTypes' /\ uploaded'.open = FALSE /\ uploaded'.told = uploaded.told
            /\ uploaded'.heard = uploaded.heard /\ uploaded'.bytes = uploaded.bytes
        BY <1>0, <1>1, <3>3 DEF UploadTypes
      <3>5. UploadQuiet'
        BY <3>4 DEF UploadInv, UploadQuiet
      <3>6. PullSizes'
        BY <1>1, <3>1, SizesKept DEF UploadInv
      <3>7. uploaded.bytes = total.up
        <4>1. ~sent.open
          BY <1>2, <1>6, <2>2 DEF UploadInv, UploadWhole
        <4>2. PICK i \in DOMAIN toServer : LastWord(toServer, i, uploaded.bytes)
          BY <2>2, <4>1 DEF UploadInv, UploadWhole
        <4>3. i \in Nat \ {0}
          BY <1>0
        <4>4. i = 1
          <5>1. 1 < i => FALSE
            BY <1>2, <1>6, <4>2 DEF LastWord
          <5> QED BY <4>3, <5>1
        <4>5. \A j \in DOMAIN toServer : toServer[j].type # "ClientBlobPush"
          <5>1. \A j \in DOMAIN toServer : j \in Nat /\ (j = 1 \/ j > 1)
            BY <1>0
          <5> QED BY <1>2, <1>6, <4>2, <4>4, <5>1 DEF LastWord
        <4>6. Sum(Bytes(toServer, "ClientBlobPush")) = 0
          <5>1. "ClientBlobPush" \in FrameTypes
            BY DEF FrameTypes, UpTypes
          <5> QED BY <1>0, <4>5, <5>1, NoneCarried
        <4>7. uploaded.bytes + Sum(Bytes(toServer, "ClientBlobPush")) = total.up
          BY <1>2, <1>6, <4>2, <4>4 DEF LastWord
        <4> QED BY <4>6, <4>7, UploadAmounts
      <3>8. OnePull' /\ UploadWhole'
        BY <1>1, <3>4, <3>7 DEF OnePull, UploadWhole
      <3> QED BY <3>4, <3>5, <3>6, <3>8 DEF UploadInv
    <2> QED BY <2>1, <2>2
  <1>7. CASE f.type = "ClientBlobAbort" /\ OnClientBlobAbort
    BY <1>3, <1>4, <1>7 DEF OnClientBlobAbort
  <1> QED BY <1>5, <1>6, <1>7 DEF ServerReceivesBlob, UpTypes

\* The steps of the client's end.
LEMMA UploadFramesReceived ==
    ASSUME BlobTypes, UploadInv, ClientReceivesBlob, Head(toClient).type \in UpTypes
    PROVE  UploadTypes' /\ UploadInv'
  <1> DEFINE f == Head(toClient)
  <1>0. toServer \in Seq(BlobFrames) /\ toClient \in Seq(BlobFrames) /\ UploadTypes
    BY DEF BlobTypes
  <1>1. toClient # <<>> /\ toClient' = Tail(toClient) /\ UNCHANGED <<toServer, uploaded, pump, total>>
    BY DEF ClientReceivesBlob
  <1>2. FrameRemoved(toClient', toClient) /\ f = toClient[1] /\ f \in BlobFrames /\ 1 \in DOMAIN toClient
    BY <1>0, <1>1, BlobQueues
  <1>3. UploadQuiet'
    BY <1>1 DEF UploadInv, UploadQuiet
  <1>4. /\ \A i \in DOMAIN toClient' : toClient'[i].type = "ClientBlobPull" => toClient'[i].size = PullSize
        /\ \A i \in DOMAIN toServer' : toServer'[i].type = "ClientBlobPush" => toServer'[i].size <= PullSize
        /\ uploaded.open => \A i \in DOMAIN toClient' : toClient'[i].type # "ClientBlobAbort"
    BY <1>1, <1>2 DEF FrameRemoved, UploadInv, PullSizes, UploadWhole
  <1>5. {"ClientBlobPull", "ClientBlobPush"} \subseteq FrameTypes
    BY DEF FrameTypes, UpTypes
  <1>6. Sum(Bytes(toClient', "ClientBlobPull")) \in Nat
    <2>1. Tail(toClient) \in Seq(BlobFrames)
      BY <1>0, <1>1
    <2>2. \A t \in FrameTypes : Sum(Bytes(Tail(toClient), t)) \in Nat
      BY <2>1, BlobQueues
    <2> QED BY <1>1, <1>5, <2>2
  <1>7. CASE f.type = "ClientBlobPull" /\ sent' = [sent EXCEPT !.pulls = IF sent.open THEN Append(@, f.size) ELSE @]
    <2>1. f.size = PullSize
      BY <1>2, <1>7 DEF UploadInv, PullSizes
    <2>2. Sum(Bytes(toClient, "ClientBlobPull")) = Sum(Bytes(toClient', "ClientBlobPull")) + PullSize
      BY <1>2, <1>5, <1>7, <2>1 DEF FrameRemoved
    <2>3. sent.pulls \in Seq(Nat) /\ PullSize \in Nat
      BY <1>0, UploadAmounts DEF UploadTypes
    <2>4. CASE sent.open
      <3>1. sent' = [sent EXCEPT !.pulls = Append(sent.pulls, PullSize)]
        BY <1>7, <2>1, <2>4
      <3>2. Append(sent.pulls, PullSize) \in Seq(Nat) /\ Sum(Append(sent.pulls, PullSize)) = Sum(sent.pulls) + PullSize
        BY <2>3, SumFacts
      <3>3. UploadTypes' /\ sent'.pulls = Append(sent.pulls, PullSize) /\ sent'.open = sent.open
            /\ sent'.queue = sent.queue /\ sent'.source = sent.source
        BY <1>0, <1>1, <3>1, <3>2 DEF UploadTypes
      <3>4. \A i \in DOMAIN Append(sent.pulls, PullSize) : Append(sent.pulls, PullSize)[i] = PullSize
        BY <2>3 DEF UploadInv, PullSizes
      <3>5. PullSizes'
        BY <1>4, <3>3, <3>4 DEF PullSizes
      <3>6. OnePull'
        <4>1. Sum(Bytes(toClient', "ClientBlobPull")) + Sum(sent'.pulls) + Sum(PullsServed(toServer'))
                = Sum(Bytes(toClient, "ClientBlobPull")) + Sum(sent.pulls) + Sum(PullsServed(toServer))
          BY <1>1, <1>6, <2>2, <3>2, <3>3, UploadAmounts
        <4> QED BY <1>1, <4>1 DEF UploadInv, OnePull
      <3>7. UploadWhole'
        BY <1>1, <1>4, <3>3 DEF UploadInv, UploadWhole, LastWord
      <3> QED BY <1>3, <3>3, <3>5, <3>6, <3>7 DEF UploadInv
    <2>5. CASE ~sent.open
      <3>1. sent' = [sent EXCEPT !.pulls = sent.pulls]
        BY <1>7, <2>5
      <3>2. sent' = sent
        BY <1>0, <3>1 DEF UploadTypes
      <3>3. PullSizes'
        BY <1>4, <3>2 DEF UploadInv, PullSizes
      <3>4. OnePull'
        <4>1. Sum(Bytes(toClient', "ClientBlobPull")) + Sum(sent'.pulls) + Sum(PullsServed(toServer'))
                <= Sum(Bytes(toClient, "ClientBlobPull")) + Sum(sent.pulls) + Sum(PullsServed(toServer))
          BY <1>1, <1>6, <2>2, <3>2, UploadAmounts
        <4>2. Sum(Bytes(toClient', "ClientBlobPull")) + Sum(sent'.pulls) + Sum(PullsServed(toServer')) \in Nat
          BY <1>1, <1>6, <3>2, UploadAmounts
        <4>3. uploaded.open => Sum(Bytes(toClient', "ClientBlobPull")) + Sum(sent'.pulls) + Sum(PullsServed(toServer'))
                                  <= (IF uploaded.reading THEN PullSize ELSE 0)
          <5>1. CASE uploaded.open /\ uploaded.reading
            BY <4>1, <4>2, <5>1, UploadAmounts DEF UploadInv, OnePull
          <5>2. CASE uploaded.open /\ ~uploaded.reading
            BY <4>1, <4>2, <5>2, UploadAmounts DEF UploadInv, OnePull
          <5> QED BY <5>1, <5>2
        <4> QED BY <1>1, <4>3 DEF UploadInv, OnePull
      <3>5. UploadWhole'
        BY <1>1, <1>4, <3>2 DEF UploadInv, UploadWhole, LastWord
      <3> QED BY <1>0, <1>1, <1>3, <3>2, <3>3, <3>4, <3>5 DEF UploadInv, UploadTypes
    <2> QED BY <2>4, <2>5
  <1>8. CASE f.type = "ClientBlobAbort" /\ sent' = [sent EXCEPT !.open = FALSE]
    <2>1. ~uploaded.open
      BY <1>2, <1>8 DEF UploadInv, UploadWhole
    <2>2. UploadTypes' /\ sent'.pulls = sent.pulls
      BY <1>0, <1>1, <1>8 DEF UploadTypes
    <2>3. PullSizes'
      BY <1>4, <2>2 DEF UploadInv, PullSizes
    <2>4. OnePull' /\ UploadWhole'
      BY <1>1, <2>1 DEF UploadInv, OnePull, UploadWhole
    <2> QED BY <1>3, <2>2, <2>3, <2>4 DEF UploadInv
  <1> QED BY <1>7, <1>8 DEF ClientReceivesBlob, UpTypes

\* The client answers a pull.
LEMMA AnsweredUpload ==
    ASSUME BlobTypes, UploadInv, AnswerPull PROVE UploadTypes' /\ UploadInv'
  <1>0. toServer \in Seq(BlobFrames) /\ toClient \in Seq(BlobFrames) /\ UploadTypes
        /\ sent.pulls \in Seq(Nat) /\ sent.source \in Seq(Nat)
    BY DEF BlobTypes, UploadTypes
  <1>1. sent.pulls # <<>> /\ UNCHANGED <<toClient, uploaded, pump, got, total>>
    BY DEF AnswerPull
  <1>2. UploadQuiet'
    BY <1>1 DEF UploadInv, UploadQuiet
  <1> DEFINE rest == Tail(sent.pulls)
  <1>3. /\ rest \in Seq(Nat) /\ Head(sent.pulls) = PullSize /\ Sum(sent.pulls) = PullSize + Sum(rest) /\ Sum(rest) \in Nat
        /\ \A i \in DOMAIN rest : rest[i] = PullSize
    <2>1. rest \in Seq(Nat) /\ 1 \in DOMAIN sent.pulls /\ Head(sent.pulls) = sent.pulls[1]
          /\ \A i \in DOMAIN rest : i + 1 \in DOMAIN sent.pulls /\ rest[i] = sent.pulls[i + 1]
      BY <1>0, <1>1
    <2>2. \A i \in DOMAIN sent.pulls : sent.pulls[i] = PullSize
      BY DEF UploadInv, PullSizes
    <2>3. Sum(sent.pulls) = Head(sent.pulls) + Sum(rest) /\ Sum(rest) \in Nat
      <3> HIDE DEF rest
      <3>1. Sum(rest) \in Nat
        BY <2>1, SumFacts
      <3> QED BY <1>0, <1>1, <3>1, SumFacts DEF rest
    <2> HIDE DEF rest
    <2> QED BY <2>1, <2>2, <2>3
  <1> HIDE DEF rest
  <1>4. "ClientBlobPush" \in FrameTypes
    BY DEF FrameTypes, UpTypes
  \* A push is the answer to one pull.
  <1>5. CASE /\ sent.open /\ (sent.queue > 0 \/ sent.source # <<>>)
             /\ sent' = [sent EXCEPT !.pulls = rest, !.queue = ReadSource(PullSize).queue, !.source = ReadSource(PullSize).source]
             /\ toServer' = ToServer("ClientBlobPush", ReadSource(PullSize).bytes)
    <2>1. PICK n \in Nat, k \in Nat, s \in Seq(Nat) :
            /\ n = ReadSource(PullSize).bytes /\ k = ReadSource(PullSize).queue /\ s = ReadSource(PullSize).source
            /\ n <= PullSize /\ n + k + Sum(s) = sent.queue + Sum(sent.source)
      <3>1. PICK c \in Nat : c = IF sent.queue = 0 THEN Head(sent.source) ELSE sent.queue
        <4>1. sent.queue = 0 => sent.source # <<>>
          BY <1>5
        <4>2. sent.source # <<>> => Head(sent.source) \in Nat
          BY <1>0
        <4> QED BY <4>1, <4>2, UploadAmounts
      <3>2. PICK s \in Seq(Nat) : s = IF sent.queue = 0 THEN Tail(sent.source) ELSE sent.source
        <4>1. sent.queue = 0 => sent.source # <<>>
          BY <1>5
        <4>2. sent.source # <<>> => Tail(sent.source) \in Seq(Nat)
          BY <1>0
        <4> QED BY <1>0, <4>1, <4>2
      <3>3. Sum(s) \in Nat /\ c + Sum(s) = sent.queue + Sum(sent.source)
        <4>1. Sum(s) \in Nat
          BY SumFacts
        <4>2. CASE sent.queue = 0
          <5>1. sent.source # <<>> /\ c = Head(sent.source) /\ s = Tail(sent.source)
            BY <1>5, <3>1, <3>2, <4>2
          <5>2. Sum(sent.source) = Head(sent.source) + Sum(Tail(sent.source))
            BY <1>0, <5>1, SumFacts
          <5> QED BY <4>1, <4>2, <5>1, <5>2
        <4>3. CASE sent.queue # 0
          BY <3>1, <3>2, <4>1, <4>3
        <4> QED BY <4>1, <4>2, <4>3
      <3>4. /\ ReadSource(PullSize).bytes = Smaller(PullSize, c)
            /\ ReadSource(PullSize).queue = c - Smaller(PullSize, c)
            /\ ReadSource(PullSize).source = s
        BY <3>1, <3>2 DEF ReadSource
      <3>5. /\ Smaller(PullSize, c) \in Nat /\ c - Smaller(PullSize, c) \in Nat
            /\ Smaller(PullSize, c) <= PullSize
        BY UploadAmounts DEF Smaller
      <3>6. Smaller(PullSize, c) + (c - Smaller(PullSize, c)) + Sum(s) = sent.queue + Sum(sent.source)
        BY <3>3, <3>5, UploadAmounts
      <3> QED BY <3>4, <3>5, <3>6
    <2> DEFINE f == [type |-> "ClientBlobPush", size |-> n]
    <2>2. f \in BlobFrames /\ f.type = "ClientBlobPush" /\ f.size = n
      BY <1>4 DEF BlobFrames
    <2>3. toServer' = Append(toServer, f)
      BY <1>5, <2>1 DEF ToServer
    <2>4. UploadTypes' /\ sent'.pulls = rest /\ sent'.queue = k /\ sent'.source = s /\ sent'.open = sent.open
      BY <1>0, <1>1, <1>3, <1>5, <2>1 DEF UploadTypes
    <2> HIDE DEF f
    <2>5. FrameAdded(toServer', toServer, f)
      BY <1>0, <2>2, <2>3, BlobQueues
    <2>6. PullSizes'
      <3>1. \A i \in DOMAIN toServer' : toServer'[i].type = "ClientBlobPush" => toServer'[i].size <= PullSize
        BY <2>1, <2>2, <2>5 DEF FrameAdded, UploadInv, PullSizes
      <3> QED BY <1>1, <1>3, <2>4, <3>1 DEF UploadInv, PullSizes
    <2>7. Sum(PullsServed(toServer')) = Sum(PullsServed(toServer)) + PullSize
          /\ Sum(Bytes(toServer', "ClientBlobPush")) = Sum(Bytes(toServer, "ClientBlobPush")) + n
      BY <1>4, <2>2, <2>5 DEF FrameAdded
    <2>8. OnePull'
      <3>1. Sum(Bytes(toClient', "ClientBlobPull")) + Sum(sent'.pulls) + Sum(PullsServed(toServer'))
              = Sum(Bytes(toClient, "ClientBlobPull")) + Sum(sent.pulls) + Sum(PullsServed(toServer))
        BY <1>1, <1>3, <2>4, <2>7, UploadAmounts
      <3> QED BY <1>1, <3>1 DEF UploadInv, OnePull
    <2>9. UploadWhole'
      <3>1. ASSUME uploaded.open
            PROVE  /\ \A i \in DOMAIN toServer' : toServer'[i].type \notin {"ClientBlobEnd", "ClientBlobAbort"}
                   /\ uploaded.bytes + Sum(Bytes(toServer', "ClientBlobPush")) + k + Sum(s) = total.up
        <4>1. uploaded.bytes + Sum(Bytes(toServer, "ClientBlobPush")) + sent.queue + Sum(sent.source) = total.up
          BY <1>5, <3>1 DEF UploadInv, UploadWhole
        <4>2. Sum(s) \in Nat
          BY SumFacts
        <4>3. uploaded.bytes + Sum(Bytes(toServer', "ClientBlobPush")) + k + Sum(s) = total.up
          <5>1. n \in Nat /\ k \in Nat /\ n + k + Sum(s) = sent.queue + Sum(sent.source)
            BY <2>1
          <5>2. Sum(Bytes(toServer', "ClientBlobPush")) = Sum(Bytes(toServer, "ClientBlobPush")) + n
            BY <2>7
          <5>3. /\ uploaded.bytes \in Nat /\ Sum(Bytes(toServer, "ClientBlobPush")) \in Nat
                /\ sent.queue \in Nat /\ Sum(sent.source) \in Nat /\ total.up \in Nat
            BY UploadAmounts
          <5>4. \A a, p, x, y \in Nat : n + k + y = x => a + (p + n) + k + y = a + p + x
            BY <5>1
          <5>5. uploaded.bytes + (Sum(Bytes(toServer, "ClientBlobPush")) + n) + k + Sum(s)
                  = uploaded.bytes + Sum(Bytes(toServer, "ClientBlobPush")) + (sent.queue + Sum(sent.source))
            BY <4>2, <5>1, <5>3, <5>4
          <5> QED BY <4>1, <5>2, <5>3, <5>5
        <4>4. \A i \in DOMAIN toServer' : toServer'[i].type \notin {"ClientBlobEnd", "ClientBlobAbort"}
          BY <1>5, <2>2, <2>5, <3>1 DEF FrameAdded, UploadInv, UploadWhole
        <4> QED BY <4>3, <4>4
      <3> QED BY <1>1, <1>5, <2>4, <3>1 DEF UploadInv, UploadWhole
    <2> QED BY <1>2, <2>4, <2>6, <2>8, <2>9 DEF UploadInv
  \* The end, or an abort.
  <1>6. CASE /\ sent' = [sent EXCEPT !.pulls = rest, !.open = FALSE]
             /\ \/ /\ ~sent.open \/ (sent.queue = 0 /\ sent.source = <<>>)
                   /\ toServer' = ToServer("ClientBlobEnd", 0)
                \/ sent.open /\ toServer' = ToServer("ClientBlobAbort", 0)
    <2>1. PICK t \in {"ClientBlobEnd", "ClientBlobAbort"} :
            /\ toServer' = Append(toServer, [type |-> t, size |-> 0])
            /\ sent.open /\ t = "ClientBlobEnd" => sent.queue = 0 /\ sent.source = <<>>
      BY <1>6 DEF ToServer
    <2> DEFINE f == [type |-> t, size |-> 0]
    <2>2. f \in BlobFrames /\ f.type = t
      BY DEF BlobFrames, FrameTypes, UpTypes
    <2>3. toServer' = Append(toServer, f)
      BY <2>1
    <2> HIDE DEF f
    <2>4. FrameAdded(toServer', toServer, f) /\ toServer' \in Seq(BlobFrames)
      BY <1>0, <2>2, <2>3, BlobQueues
    <2>5. UploadTypes' /\ sent'.pulls = rest /\ sent'.open = FALSE
      BY <1>0, <1>1, <1>3, <1>6 DEF UploadTypes
    <2>6. t # "ClientBlobPush"
      BY <2>1
    <2>7. PullSizes'
      <3>1. \A i \in DOMAIN toServer' : toServer'[i].type = "ClientBlobPush" => toServer'[i].size <= PullSize
        BY <2>2, <2>4, <2>6 DEF FrameAdded, UploadInv, PullSizes
      <3> QED BY <1>1, <1>3, <2>5, <3>1 DEF UploadInv, PullSizes
    <2>8. Sum(PullsServed(toServer')) = Sum(PullsServed(toServer))
          /\ Sum(Bytes(toServer', "ClientBlobPush")) = Sum(Bytes(toServer, "ClientBlobPush"))
      BY <1>4, <2>2, <2>4, <2>6, UploadAmounts DEF FrameAdded
    <2>9. OnePull'
      <3>1. Sum(Bytes(toClient', "ClientBlobPull")) + Sum(sent'.pulls) + Sum(PullsServed(toServer')) + PullSize
              = Sum(Bytes(toClient, "ClientBlobPull")) + Sum(sent.pulls) + Sum(PullsServed(toServer))
        BY <1>1, <1>3, <2>5, <2>8, UploadAmounts
      <3>2. Sum(Bytes(toClient', "ClientBlobPull")) + Sum(sent'.pulls) + Sum(PullsServed(toServer')) \in Nat
        BY <1>1, <1>3, <2>5, <2>8, UploadAmounts
      <3>3. CASE uploaded.open /\ uploaded.reading
        BY <1>1, <3>1, <3>2, <3>3, UploadAmounts DEF UploadInv, OnePull
      <3>4. CASE uploaded.open /\ ~uploaded.reading
        BY <1>1, <3>1, <3>2, <3>4, UploadAmounts DEF UploadInv, OnePull
      <3>5. CASE ~uploaded.open
        BY <1>1, <3>5 DEF OnePull
      <3> QED BY <3>3, <3>4, <3>5
    <2>10. UploadWhole'
      <3>1. ASSUME uploaded.open PROVE \E i \in DOMAIN toServer' : LastWord(toServer', i, uploaded.bytes)
        <4>1. CASE ~sent.open
          <5>1. PICK i \in DOMAIN toServer : LastWord(toServer, i, uploaded.bytes)
            BY <3>1, <4>1 DEF UploadInv, UploadWhole
          <5> QED BY <1>0, <2>2, <2>3, <2>6, <5>1, LastWordStays, UploadAmounts
        <4>2. CASE sent.open
          <5>1. /\ \A i \in DOMAIN toServer : toServer[i].type \notin {"ClientBlobEnd", "ClientBlobAbort"}
                /\ uploaded.bytes + Sum(Bytes(toServer, "ClientBlobPush")) + sent.queue + Sum(sent.source) = total.up
            BY <3>1, <4>2 DEF UploadInv, UploadWhole
          <5>2. t = "ClientBlobEnd" => uploaded.bytes + Sum(Bytes(toServer', "ClientBlobPush")) = total.up
            <6>1. CASE t = "ClientBlobEnd"
              <7>1. sent.queue = 0 /\ Sum(sent.source) = 0
                BY <2>1, <4>2, <6>1, SumFacts
              <7> QED BY <2>8, <5>1, <7>1, UploadAmounts
            <6> QED BY <6>1
          <5>3. PICK i \in DOMAIN toServer' : toServer'[i] = f /\ \A j \in DOMAIN toServer : j < i
            BY <2>4 DEF FrameAdded
          <5>4. ASSUME NEW j \in DOMAIN toServer'
                PROVE  /\ j < i => toServer'[j].type \notin {"ClientBlobEnd", "ClientBlobAbort"}
                       /\ j > i => toServer'[j].type # "ClientBlobPush"
            <6>1. i = Len(toServer) + 1 /\ Len(toServer') = Len(toServer) + 1 /\ Len(toServer) \in Nat
              <7>1. Len(toServer) \in Nat /\ Len(toServer') = Len(toServer) + 1 /\ DOMAIN toServer = 1..Len(toServer)
                    /\ DOMAIN toServer' = 1..(Len(toServer) + 1)
                BY <1>0, <2>2, <2>3
              <7>2. i \notin 1..Len(toServer)
                <8>1. i \in DOMAIN toServer => i < i
                  BY <5>3
                <8>2. i \in Nat
                  BY <7>1
                <8> QED BY <7>1, <8>1, <8>2
              <7> QED BY <7>1, <7>2
            <6>2. j \in 1..(Len(toServer) + 1)
              BY <1>0, <2>2, <2>3
            <6>3. CASE j < i
              <7>1. j \in DOMAIN toServer
                BY <1>0, <6>1, <6>2, <6>3
              <7>2. toServer'[j] = toServer[j]
                BY <2>4, <7>1 DEF FrameAdded
              <7>3. ~(j > i)
                BY <6>1, <6>2, <6>3
              <7> QED BY <5>1, <7>1, <7>2, <7>3
            <6>4. CASE ~(j < i)
              BY <6>1, <6>2, <6>4
            <6> QED BY <6>3, <6>4
          <5>5. LastWord(toServer', i, uploaded.bytes)
            BY <2>2, <5>2, <5>3, <5>4 DEF LastWord
          <5> QED BY <5>5
        <4> QED BY <4>1, <4>2
      <3>2. uploaded.open => \E i \in DOMAIN toServer' : LastWord(toServer, i, uploaded.bytes)'
        BY <1>1, <3>1 DEF LastWord
      <3> QED BY <1>1, <2>5, <3>2 DEF UploadInv, UploadWhole
    <2> QED BY <1>2, <2>5, <2>7, <2>9, <2>10 DEF UploadInv
  <1> QED BY <1>3, <1>5, <1>6 DEF AnswerPull, rest

-----------------------------------------------------------------------------
(* The steps of a download.                                                *)

\* The amounts of a download are natural numbers.
LEMMA DownloadAmounts ==
    ASSUME BlobTypes
    PROVE  /\ PullSize \in Nat
           /\ Sum(Bytes(toClient, "ServerBlobPush")) \in Nat /\ Sum(Bytes(toServer, "ServerBlobPull")) \in Nat
           /\ Sum(pump.source) \in Nat /\ pump.credits \in Nat /\ pump.buffered \in Nat
           /\ got.bytes \in Nat /\ got.pulled \in Nat /\ total.down \in Nat
  <1>1. \A q \in Seq(BlobFrames) : \A t \in FrameTypes : Sum(Bytes(q, t)) \in Nat
    BY BlobQueues
  <1>2. {"ServerBlobPull", "ServerBlobPush"} \subseteq FrameTypes
    BY DEF FrameTypes, DownTypes
  <1>3. toServer \in Seq(BlobFrames) /\ toClient \in Seq(BlobFrames)
    BY DEF BlobTypes
  <1>4. Sum(pump.source) \in Nat
    BY SumFacts DEF BlobTypes, DownloadTypes
  <1>5. pump.credits \in Nat /\ pump.buffered \in Nat /\ got.bytes \in Nat /\ got.pulled \in Nat /\ total.down \in Nat
    BY DEF BlobTypes, DownloadTypes
  <1> QED BY <1>1, <1>2, <1>3, <1>4, <1>5, BlobAssumption

\* The closed end of a download, its abort told or not.
DownloadShut(n, h) ==
    /\ pump'.open = FALSE /\ pump'.told = pump.told + n /\ pump'.heard = h
    /\ pump'.credits = pump.credits /\ pump'.source = pump.source
    /\ pump'.error = pump.error /\ pump'.sourceEnded = pump.sourceEnded

\* An abort frame more, a frame less of the client's, or none.
LEMMA DownloadEnds ==
    ASSUME BlobTypes, DownloadInv, UNCHANGED <<got, total>>, DownloadTypes',
           pump.open, NEW n \in {0, 1}, NEW h \in BOOLEAN, n = 0 \/ h = FALSE, DownloadShut(n, h),
           toClient' = toClient \/ toClient' = ToClient("ServerBlobAbort", 0),
           toServer' = toServer \/ (toServer # <<>> /\ toServer' = Tail(toServer))
    PROVE  DownloadInv'
  <1>0. toServer \in Seq(BlobFrames) /\ toClient \in Seq(BlobFrames)
    BY DEF BlobTypes
  <1>1. DownloadQuiet'
    <2>1. pump.told = 0
      BY DEF DownloadInv, DownloadQuiet
    <2>2. pump'.told = n /\ n <= 1 /\ (h = TRUE => n = 0)
      BY <2>1 DEF DownloadShut
    <2> QED BY <2>2 DEF DownloadQuiet, DownloadShut
  <1>2. {"ServerBlobPull", "ServerBlobPush", "ServerBlobAbort", "ServerBlobEnd"} \subseteq FrameTypes
    BY DEF FrameTypes, DownTypes
  <1>3. /\ Sum(Bytes(toClient', "ServerBlobPush")) = Sum(Bytes(toClient, "ServerBlobPush"))
        /\ \A i \in DOMAIN toClient' : toClient'[i].type = "ServerBlobEnd" => \E j \in DOMAIN toClient : toClient'[i] = toClient[j]
    <2>1. CASE toClient' = toClient
      BY <2>1
    <2>2. CASE toClient' = ToClient("ServerBlobAbort", 0)
      <3> DEFINE f == [type |-> "ServerBlobAbort", size |-> 0]
      <3>1. f \in BlobFrames /\ f.type = "ServerBlobAbort"
        BY <1>2 DEF BlobFrames
      <3>2. toClient' = Append(toClient, f)
        BY <2>2 DEF ToClient
      <3> HIDE DEF f
      <3>3. FrameAdded(toClient', toClient, f)
        BY <1>0, <3>1, <3>2, BlobQueues
      <3> QED BY <1>2, <3>1, <3>3, DownloadAmounts DEF FrameAdded
    <2> QED BY <2>1, <2>2
  <1>4. Sum(Bytes(toServer', "ServerBlobPull")) \in Nat
        /\ Sum(Bytes(toServer', "ServerBlobPull")) <= Sum(Bytes(toServer, "ServerBlobPull"))
    <2>1. CASE toServer' = toServer
      BY <2>1, DownloadAmounts
    <2>2. CASE toServer # <<>> /\ toServer' = Tail(toServer)
      <3>1. FrameRemoved(toServer', toServer) /\ Tail(toServer) \in Seq(BlobFrames) /\ toServer[1] \in BlobFrames
        BY <1>0, <2>2, BlobQueues
      <3>2. \A t \in FrameTypes : Sum(Bytes(Tail(toServer), t)) \in Nat
        BY <3>1, BlobQueues
      <3> QED BY <1>2, <2>2, <3>1, <3>2 DEF FrameRemoved, BlobFrames
    <2> QED BY <2>1, <2>2
  <1>5. DownloadGranted'
    <2>1. pump'.credits = pump.credits
      BY DEF DownloadShut
    <2> QED BY <1>3, <1>4, <2>1, DownloadAmounts DEF DownloadInv, DownloadGranted
  <1>6. DownloadWhole'
    <2>1. \A i \in DOMAIN toClient' : toClient'[i].type # "ServerBlobEnd"
      BY <1>3 DEF DownloadInv, DownloadWhole
    <2> QED BY <2>1 DEF DownloadInv, DownloadWhole, DownloadShut
  <1> QED BY <1>1, <1>5, <1>6 DEF DownloadInv

\* fail closes the download.
LEMMA FailedDownload ==
    ASSUME BlobTypes, DownloadInv, UNCHANGED <<got, total>>, pump.open, NEW b \in BOOLEAN, FailDownload(b),
           toServer' = toServer \/ (toServer # <<>> /\ toServer' = Tail(toServer))
    PROVE  DownloadTypes' /\ DownloadInv'
  <1>0. DownloadTypes /\ pump.heard = FALSE
    BY DEF BlobTypes, DownloadTypes, DownloadInv, DownloadQuiet
  <1>1. ASSUME NEW n \in Nat, NEW h \in BOOLEAN,
               pump' = [pump EXCEPT !.open = FALSE, !.buffered = 0, !.told = @ + n, !.heard = h]
        PROVE  DownloadTypes' /\ DownloadShut(n, h)
    <2>1. pump.told + n \in Nat
      BY <1>0 DEF DownloadTypes
    <2> QED BY <1>0, <1>1, <2>1 DEF DownloadTypes, DownloadShut
  <1>2. CASE b = TRUE
    <2>1. pump' = [pump EXCEPT !.open = FALSE, !.buffered = 0, !.told = @ + 1, !.heard = @ \/ FALSE]
          /\ toClient' = ToClient("ServerBlobAbort", 0)
      BY <1>2 DEF FailDownload
    <2>2. (pump.heard \/ FALSE) = FALSE
      BY <1>0
    <2>3. pump' = [pump EXCEPT !.open = FALSE, !.buffered = 0, !.told = @ + 1, !.heard = FALSE]
      BY <2>1, <2>2
    <2>4. DownloadTypes' /\ DownloadShut(1, FALSE)
      BY <1>1, <2>3
    <2> QED BY <2>1, <2>4, DownloadEnds
  <1>3. CASE b = FALSE
    <2>1. pump' = [pump EXCEPT !.open = FALSE, !.buffered = 0, !.told = @ + 0, !.heard = @ \/ TRUE]
          /\ toClient' = toClient
      BY <1>3 DEF FailDownload
    <2>2. (pump.heard \/ TRUE) = TRUE
      OBVIOUS
    <2>3. pump' = [pump EXCEPT !.open = FALSE, !.buffered = 0, !.told = @ + 0, !.heard = TRUE]
      BY <2>1, <2>2
    <2>4. DownloadTypes' /\ DownloadShut(0, TRUE)
      BY <1>1, <2>3
    <2> QED BY <2>1, <2>4, DownloadEnds
  <1> QED BY <1>2, <1>3

\* The steps of the server's end.
LEMMA DownloadPumped ==
    ASSUME BlobTypes, DownloadInv, SourceFails \/ SourceEnds \/ Pump \/ DownloadExpires
    PROVE  DownloadTypes' /\ DownloadInv'
  <1>0. toServer \in Seq(BlobFrames) /\ toClient \in Seq(BlobFrames) /\ DownloadTypes /\ pump.source \in Seq(Nat)
    BY DEF BlobTypes, DownloadTypes
  <1>1. pump.open /\ UNCHANGED <<toServer, sent, uploaded, got, total>>
    BY DEF SourceFails, SourceEnds, Pump, DownloadExpires
  <1>2. \A i \in DOMAIN toClient : toClient[i].type # "ServerBlobEnd"
    BY <1>1 DEF DownloadInv, DownloadWhole
  <1>3. {"ServerBlobPush", "ServerBlobEnd"} \subseteq FrameTypes
    BY DEF FrameTypes, DownTypes
  <1>4. CASE FailDownload(TRUE)
    BY <1>1, <1>4, FailedDownload
  <1>5. CASE ~pump.sourceEnded /\ pump' = [pump EXCEPT !.error = TRUE, !.source = <<>>] /\ UNCHANGED toClient
    <2>1. /\ DownloadTypes' /\ pump'.open = pump.open /\ pump'.told = pump.told /\ pump'.heard = pump.heard
          /\ pump'.error = TRUE /\ pump'.sourceEnded = pump.sourceEnded /\ pump'.credits = pump.credits
          /\ pump'.source = <<>>
      <3>0. <<>> \in Seq(Nat)
        OBVIOUS
      <3>1. PICK s \in Seq(Nat) : s = <<>>
        BY <3>0, Zenon
      <3>2. pump' = [pump EXCEPT !.error = TRUE, !.source = s]
        BY <1>5, <3>1
      <3>3. /\ DownloadTypes' /\ pump'.open = pump.open /\ pump'.told = pump.told /\ pump'.heard = pump.heard
            /\ pump'.error = TRUE /\ pump'.sourceEnded = pump.sourceEnded /\ pump'.credits = pump.credits
            /\ pump'.source = s
        BY <1>0, <1>1, <3>2 DEF DownloadTypes
      <3> QED BY <3>1, <3>3
    <2>2. DownloadQuiet' /\ DownloadGranted'
      BY <1>1, <1>5, <2>1 DEF DownloadInv, DownloadQuiet, DownloadGranted
    <2>3. DownloadWhole'
      BY <1>1, <1>2, <1>5, <2>1 DEF DownloadInv, DownloadWhole
    <2> QED BY <2>1, <2>2, <2>3 DEF DownloadInv
  <1>6. CASE SourceEnds
    <2>1. pump' = [pump EXCEPT !.sourceEnded = TRUE] /\ UNCHANGED toClient /\ ~pump.error /\ pump.source = <<>>
      BY <1>6 DEF SourceEnds
    <2>2. /\ DownloadTypes' /\ pump'.open = pump.open /\ pump'.told = pump.told /\ pump'.heard = pump.heard
          /\ pump'.error = pump.error /\ pump'.credits = pump.credits
          /\ pump'.source = pump.source /\ pump'.buffered = pump.buffered
      BY <1>0, <1>1, <2>1 DEF DownloadTypes
    <2>3. DownloadQuiet' /\ DownloadGranted'
      BY <1>1, <2>1, <2>2 DEF DownloadInv, DownloadQuiet, DownloadGranted
    <2>4. DownloadWhole'
      BY <1>1, <1>2, <2>1, <2>2 DEF DownloadInv, DownloadWhole
    <2> QED BY <2>2, <2>3, <2>4 DEF DownloadInv
  \* A chunk of n bytes, of which at most the credits are sent.
  <1>7. ASSUME NEW n \in Nat, NEW s \in Seq(Nat), n + Sum(s) = pump.buffered + Sum(pump.source),
               pump.sourceEnded => s = <<>>, PumpChunk(n),
               s = (IF pump.buffered > 0 THEN pump.source ELSE Tail(pump.source))
        PROVE  DownloadTypes' /\ DownloadInv'
    <2>1. PICK k \in Nat : k = Smaller(n, pump.credits) /\ k <= n /\ k <= pump.credits
      BY DownloadAmounts DEF Smaller
    <2>2. n - k \in Nat /\ pump.credits - k \in Nat
      BY <2>1, DownloadAmounts
    <2>3. pump' = [pump EXCEPT !.buffered = n - k, !.credits = @ - k, !.source = s]
          /\ toClient' = ToClient("ServerBlobPush", k)
      BY <1>7, <2>1 DEF PumpChunk
    <2>4. /\ DownloadTypes' /\ pump'.open = pump.open /\ pump'.told = pump.told /\ pump'.heard = pump.heard
          /\ pump'.error = pump.error /\ pump'.sourceEnded = pump.sourceEnded
          /\ pump'.credits = pump.credits - k /\ pump'.buffered = n - k /\ pump'.source = s
      BY <1>0, <1>1, <2>2, <2>3 DEF DownloadTypes
    <2> DEFINE f == [type |-> "ServerBlobPush", size |-> k]
    <2>5. f \in BlobFrames /\ f.type = "ServerBlobPush" /\ f.size = k
      BY <1>3 DEF BlobFrames
    <2>6. toClient' = Append(toClient, f)
      BY <2>3 DEF ToClient
    <2> HIDE DEF f
    <2>7. FrameAdded(toClient', toClient, f)
      BY <1>0, <2>5, <2>6, BlobQueues
    <2>8. Sum(Bytes(toClient', "ServerBlobPush")) = Sum(Bytes(toClient, "ServerBlobPush")) + k
      BY <1>3, <2>5, <2>7 DEF FrameAdded
    <2>9. DownloadQuiet'
      BY <2>4 DEF DownloadInv, DownloadQuiet
    <2>10. DownloadGranted'
      <3>1. got.bytes \in Nat /\ Sum(Bytes(toClient, "ServerBlobPush")) \in Nat /\ pump.credits \in Nat
            /\ Sum(Bytes(toServer, "ServerBlobPull")) \in Nat /\ got.pulled \in Nat
        BY DownloadAmounts
      <3>2. got.bytes + Sum(Bytes(toClient, "ServerBlobPush")) + pump.credits
              + Sum(Bytes(toServer, "ServerBlobPull")) <= got.pulled
        BY DEF DownloadInv, DownloadGranted
      <3>3. \A a, b, c, x, y \in Nat : a + b + c + x <= y => a + (b + k) + (c - k) + x <= y
        BY <2>1
      <3>4. got.bytes + (Sum(Bytes(toClient, "ServerBlobPush")) + k) + (pump.credits - k)
              + Sum(Bytes(toServer, "ServerBlobPull")) <= got.pulled
        BY <3>1, <3>2, <3>3, Zenon
      <3>5. got' = got /\ toServer' = toServer
        BY <1>1
      <3> QED BY <2>4, <2>8, <3>4, <3>5 DEF DownloadGranted
    <2>11. DownloadWhole'
      <3>1. \A i \in DOMAIN toClient' : toClient'[i].type # "ServerBlobEnd"
        BY <1>2, <2>5, <2>7 DEF FrameAdded
      <3>2. ASSUME ~pump.error, got.state = "open"
            PROVE  got.bytes + Sum(Bytes(toClient', "ServerBlobPush")) + (n - k) + Sum(s) = total.down
        <4>1. got.bytes + Sum(Bytes(toClient, "ServerBlobPush")) + pump.buffered + Sum(pump.source) = total.down
          BY <1>1, <3>2 DEF DownloadInv, DownloadWhole
        <4>3. Sum(s) \in Nat
          BY SumFacts
        <4>4. got.bytes \in Nat /\ Sum(Bytes(toClient, "ServerBlobPush")) \in Nat /\ pump.buffered \in Nat
              /\ Sum(pump.source) \in Nat
          BY DownloadAmounts
        <4>5. got.bytes + (Sum(Bytes(toClient, "ServerBlobPush")) + k) + (n - k) + Sum(s)
                = got.bytes + Sum(Bytes(toClient, "ServerBlobPush")) + pump.buffered + Sum(pump.source)
          <5>1. n + Sum(s) = pump.buffered + Sum(pump.source)
            BY <1>7
          <5>2. (Sum(Bytes(toClient, "ServerBlobPush")) + k) + (n - k) = Sum(Bytes(toClient, "ServerBlobPush")) + n
            BY <2>1, <4>4
          <5>3. got.bytes + (Sum(Bytes(toClient, "ServerBlobPush")) + k) + (n - k)
                  = got.bytes + Sum(Bytes(toClient, "ServerBlobPush")) + n
            BY <2>1, <4>4, <5>2
          <5>4. got.bytes + Sum(Bytes(toClient, "ServerBlobPush")) + n + Sum(s)
                  = got.bytes + Sum(Bytes(toClient, "ServerBlobPush")) + pump.buffered + Sum(pump.source)
            <6>1. PICK a \in Nat, y \in Nat, b \in Nat, x \in Nat :
                    /\ a = got.bytes + Sum(Bytes(toClient, "ServerBlobPush"))
                    /\ y = Sum(s) /\ b = pump.buffered /\ x = Sum(pump.source)
              <7>1. got.bytes + Sum(Bytes(toClient, "ServerBlobPush")) \in Nat
                BY <4>4
              <7> QED BY <4>3, <4>4, <7>1, Zenon
            <6>2. n + y = b + x
              BY <5>1, <6>1
            <6>3. a + n + y = a + b + x
              BY <6>2
            <6> QED BY <6>1, <6>3
          <5> QED BY <5>3, <5>4
        <4> QED BY <2>8, <4>1, <4>5
      <3> QED BY <1>1, <1>7, <2>4, <3>1, <3>2 DEF DownloadInv, DownloadWhole
    <2> QED BY <2>4, <2>9, <2>10, <2>11 DEF DownloadInv
  <1>8. CASE pump.buffered > 0 /\ PumpChunk(pump.buffered)
    <2>1. pump.buffered \in Nat /\ pump.sourceEnded => pump.source = <<>>
      BY DownloadAmounts DEF DownloadInv, DownloadWhole
    <2>2. pump.source = (IF pump.buffered > 0 THEN pump.source ELSE Tail(pump.source))
      BY <1>8
    <2> QED BY <1>0, <1>7, <1>8, <2>1, <2>2, DownloadAmounts
  <1>9. CASE pump.buffered = 0 /\ pump.source # <<>> /\ PumpChunk(Head(pump.source))
    <2>1. Head(pump.source) \in Nat /\ Tail(pump.source) \in Seq(Nat)
      BY <1>0, <1>9
    <2>2. Sum(pump.source) = Head(pump.source) + Sum(Tail(pump.source)) /\ Sum(Tail(pump.source)) \in Nat
      BY <1>0, <1>9, <2>1, SumFacts
    <2>3. Head(pump.source) + Sum(Tail(pump.source)) = pump.buffered + Sum(pump.source)
      BY <1>9, <2>1, <2>2
    <2>4. Tail(pump.source) = (IF pump.buffered > 0 THEN pump.source ELSE Tail(pump.source))
      BY <1>9
    <2>5. ~pump.sourceEnded
      BY <1>9 DEF DownloadInv, DownloadWhole
    <2> QED BY <1>7, <1>9, <2>1, <2>3, <2>4, <2>5
  \* The end of a source that is drained.
  <1>10. CASE PumpDrained /\ pump' = [pump EXCEPT !.open = FALSE] /\ toClient' = ToClient("ServerBlobEnd", 0)
    <2>1. /\ DownloadTypes' /\ pump'.open = FALSE /\ pump'.told = pump.told /\ pump'.heard = pump.heard
          /\ pump'.error = pump.error /\ pump'.sourceEnded = pump.sourceEnded
          /\ pump'.credits = pump.credits /\ pump'.source = pump.source
      BY <1>0, <1>1, <1>10 DEF DownloadTypes
    <2> DEFINE f == [type |-> "ServerBlobEnd", size |-> 0]
    <2>2. f \in BlobFrames /\ f.type = "ServerBlobEnd"
      BY <1>3 DEF BlobFrames
    <2>3. toClient' = Append(toClient, f)
      BY <1>10 DEF ToClient
    <2> HIDE DEF f
    <2>4. FrameAdded(toClient', toClient, f) /\ toClient' \in Seq(BlobFrames)
      BY <1>0, <2>2, <2>3, BlobQueues
    <2>5. Sum(Bytes(toClient', "ServerBlobPush")) = Sum(Bytes(toClient, "ServerBlobPush"))
      BY <1>3, <2>2, <2>4, DownloadAmounts DEF FrameAdded
    <2>6. DownloadQuiet' /\ DownloadGranted'
      BY <1>1, <2>1, <2>5 DEF DownloadInv, DownloadQuiet, DownloadGranted
    <2>7. got.state = "open" => got.bytes + Sum(Bytes(toClient', "ServerBlobPush")) = total.down
      <3>1. pump.buffered = 0 /\ pump.source = <<>> /\ ~pump.error
        BY <1>10 DEF PumpDrained, DownloadInv, DownloadWhole
      <3>2. Sum(pump.source) = 0
        BY <3>1, SumFacts
      <3> QED BY <1>1, <2>5, <3>1, <3>2, DownloadAmounts DEF DownloadInv, DownloadWhole
    <2>8. ASSUME NEW i \in DOMAIN toClient', toClient'[i].type = "ServerBlobEnd", NEW j \in DOMAIN toClient', j > i
          PROVE  toClient'[j].type # "ServerBlobPush"
      <3>1. i \notin DOMAIN toClient
        BY <1>2, <2>4, <2>8 DEF FrameAdded
      <3>2. i \in Nat /\ j \in Nat
        BY <2>4
      <3>3. j \notin DOMAIN toClient
        <4>1. j \in DOMAIN toClient => j < i
          BY <2>4, <3>1 DEF FrameAdded
        <4> QED BY <2>8, <3>2, <4>1
      <3> QED BY <2>2, <2>4, <3>3 DEF FrameAdded
    <2>9. DownloadWhole'
      BY <1>1, <2>1, <2>7, <2>8 DEF DownloadInv, DownloadWhole
    <2> QED BY <2>1, <2>6, <2>9 DEF DownloadInv
  <1>11. CASE SourceFails
    BY <1>4, <1>5, <1>11 DEF SourceFails
  <1>12. CASE Pump
    BY <1>8, <1>9, <1>10, <1>12 DEF Pump
  <1>13. CASE DownloadExpires
    BY <1>4, <1>13 DEF DownloadExpires
  <1> QED BY <1>6, <1>11, <1>12, <1>13

\* The server takes a pull or an abort of the client.
LEMMA ReceivedDownload ==
    ASSUME BlobTypes, DownloadInv, ServerReceivesBlob, Head(toServer).type \in DownTypes
    PROVE  DownloadTypes' /\ DownloadInv'
  <1> DEFINE f == Head(toServer)
  <1>0. toServer \in Seq(BlobFrames) /\ toClient \in Seq(BlobFrames) /\ DownloadTypes
    BY DEF BlobTypes
  <1>1. toServer # <<>> /\ toServer' = Tail(toServer) /\ UNCHANGED <<sent, got, total>>
    BY DEF ServerReceivesBlob
  <1>2. FrameRemoved(toServer', toServer) /\ f = toServer[1] /\ f \in BlobFrames /\ Tail(toServer) \in Seq(BlobFrames)
    BY <1>0, <1>1, BlobQueues
  <1>3. PICK n \in Nat : n = f.size
    BY <1>2 DEF BlobFrames
  <1>4. "ServerBlobPull" \in FrameTypes
    BY DEF FrameTypes, DownTypes
  <1>5. Sum(Bytes(toServer', "ServerBlobPull")) \in Nat
    <2>1. \A t \in FrameTypes : Sum(Bytes(Tail(toServer), t)) \in Nat
      BY <1>2, BlobQueues
    <2> QED BY <1>1, <1>4, <2>1
  <1>6. Sum(Bytes(toServer, "ServerBlobPull"))
          = Sum(Bytes(toServer', "ServerBlobPull")) + (IF f.type = "ServerBlobPull" THEN n ELSE 0)
    BY <1>2, <1>3, <1>4 DEF FrameRemoved
  <1>7. ASSUME UNCHANGED <<pump, toClient>> PROVE DownloadTypes' /\ DownloadInv'
    <2>1. DownloadGranted'
      <3>1. Sum(Bytes(toServer', "ServerBlobPull")) <= Sum(Bytes(toServer, "ServerBlobPull"))
        BY <1>5, <1>6
      <3> QED BY <1>1, <1>5, <1>7, <3>1, DownloadAmounts DEF DownloadInv, DownloadGranted
    <2> QED BY <1>0, <1>1, <1>7, <2>1 DEF DownloadTypes, DownloadInv, DownloadQuiet, DownloadWhole
  <1>8. ASSUME NEW b \in BOOLEAN, pump.open, FailDownload(b) PROVE DownloadTypes' /\ DownloadInv'
    BY <1>1, <1>8, FailedDownload
  <1>9. CASE f.type = "ServerBlobPull" /\ OnServerBlobPull(n)
    <2>1. CASE ~pump.open
      BY <1>7, <1>9, <2>1 DEF OnServerBlobPull
    <2>2. CASE pump.open /\ pump.credits + n > MaxCredits
      <3>1. /\ pump' = [pump EXCEPT !.open = FALSE, !.buffered = 0, !.told = @ + 1, !.violated = TRUE]
            /\ toClient' = ToClient("ServerBlobAbort", 0)
        <4>1. ~(pump.credits + n <= MaxCredits)
          BY <2>2, DownloadAmounts, BlobAssumption
        <4> QED BY <1>9, <2>2, <4>1 DEF OnServerBlobPull
      <3>2. pump.told + 1 \in Nat /\ pump.heard = FALSE
        BY <1>0, <2>2 DEF DownloadTypes, DownloadInv, DownloadQuiet
      <3>3. DownloadTypes' /\ DownloadShut(1, FALSE)
        BY <1>0, <1>1, <3>1, <3>2 DEF DownloadTypes, DownloadShut
      <3> QED BY <1>1, <2>2, <3>1, <3>3, DownloadEnds
    <2>3. CASE pump.open /\ ~(pump.credits + n > MaxCredits) /\ pump.error
      <3>1. pump.credits + n <= MaxCredits
        BY <2>3, DownloadAmounts, BlobAssumption
      <3>2. FailDownload(TRUE)
        BY <1>9, <2>3, <3>1 DEF OnServerBlobPull
      <3> QED BY <1>8, <2>3, <3>2
    <2>4. CASE pump.open /\ ~(pump.credits + n > MaxCredits) /\ ~pump.error
      <3>1. pump' = [pump EXCEPT !.granted = TRUE, !.credits = @ + n] /\ UNCHANGED toClient
        BY <1>9, <2>4 DEF OnServerBlobPull
      <3>2. pump.credits + n \in Nat
        BY DownloadAmounts
      <3>3. /\ DownloadTypes' /\ pump'.open = pump.open /\ pump'.told = pump.told /\ pump'.heard = pump.heard
            /\ pump'.error = pump.error /\ pump'.sourceEnded = pump.sourceEnded
            /\ pump'.credits = pump.credits + n /\ pump'.buffered = pump.buffered /\ pump'.source = pump.source
        BY <1>0, <1>1, <3>1, <3>2 DEF DownloadTypes
      <3>4. DownloadQuiet' /\ DownloadWhole'
        BY <1>1, <3>1, <3>3 DEF DownloadInv, DownloadQuiet, DownloadWhole
      <3>5. DownloadGranted'
        <4>1. Sum(Bytes(toServer, "ServerBlobPull")) = Sum(Bytes(toServer', "ServerBlobPull")) + n
          BY <1>6, <1>9
        <4> QED BY <1>1, <1>5, <3>1, <3>3, <4>1, DownloadAmounts DEF DownloadInv, DownloadGranted
      <3> QED BY <3>3, <3>4, <3>5 DEF DownloadInv
    <2> QED BY <2>1, <2>2, <2>3, <2>4
  <1>10. CASE f.type = "ServerBlobAbort" /\ OnServerBlobAbort
    BY <1>7, <1>8, <1>10 DEF OnServerBlobAbort
  <1> QED BY <1>3, <1>9, <1>10 DEF ServerReceivesBlob, DownTypes

\* The steps of the client's end.
LEMMA DownloadRead ==
    ASSUME BlobTypes, DownloadInv, ReadBlob \/ AbortServerBlob PROVE DownloadTypes' /\ DownloadInv'
  <1>0. toServer \in Seq(BlobFrames) /\ toClient \in Seq(BlobFrames) /\ DownloadTypes
    BY DEF BlobTypes
  <1>1. {"ServerBlobPull", "ServerBlobAbort"} \subseteq FrameTypes
    BY DEF FrameTypes, DownTypes
  <1>2. CASE ReadBlob
    <2>0. /\ toServer' = ToServer("ServerBlobPull", PullSize) /\ UNCHANGED <<toClient, sent, uploaded, pump, total>>
          /\ got' = [got EXCEPT !.pulled = @ + PullSize, !.reading = got.frames = 0,
                                !.frames = IF @ > 0 THEN @ - 1 ELSE 0]
      BY <1>2 DEF ReadBlob
    <2>1. got.pulled + PullSize \in Nat
      BY DownloadAmounts
    <2>2. (IF got.frames > 0 THEN got.frames - 1 ELSE 0) \in Nat
      BY <1>0 DEF DownloadTypes
    <2>3. PICK r \in BOOLEAN : r = (got.frames = 0)
      OBVIOUS
    <2>4. PICK m \in Nat : m = IF got.frames > 0 THEN got.frames - 1 ELSE 0
      BY <2>2
    <2>5. got' = [got EXCEPT !.pulled = @ + PullSize, !.reading = r, !.frames = m]
      BY <2>0, <2>3, <2>4
    <2>6. DownloadTypes' /\ got'.pulled = got.pulled + PullSize /\ got'.bytes = got.bytes /\ got'.state = got.state
      BY <1>0, <2>0, <2>1, <2>5 DEF DownloadTypes
    <2> DEFINE f == [type |-> "ServerBlobPull", size |-> PullSize]
    <2>7. f \in BlobFrames /\ f.type = "ServerBlobPull" /\ f.size = PullSize
      BY <1>1, DownloadAmounts DEF BlobFrames
    <2>8. toServer' = Append(toServer, f)
      BY <2>0 DEF ToServer
    <2> HIDE DEF f
    <2>9. FrameAdded(toServer', toServer, f)
      BY <1>0, <2>7, <2>8, BlobQueues
    <2>10. Sum(Bytes(toServer', "ServerBlobPull")) = Sum(Bytes(toServer, "ServerBlobPull")) + PullSize
      BY <1>1, <2>7, <2>9 DEF FrameAdded
    <2>11. DownloadGranted'
      BY <2>0, <2>6, <2>10, DownloadAmounts DEF DownloadInv, DownloadGranted
    <2>12. DownloadQuiet' /\ DownloadWhole'
      BY <2>0, <2>6 DEF DownloadInv, DownloadQuiet, DownloadWhole
    <2> QED BY <2>6, <2>11, <2>12 DEF DownloadInv
  <1>3. CASE AbortServerBlob
    <2>0. /\ toServer' = ToServer("ServerBlobAbort", 0) /\ UNCHANGED <<toClient, sent, uploaded, pump, total>>
          /\ got' = [got EXCEPT !.state = "aborted", !.reading = FALSE]
      BY <1>3 DEF AbortServerBlob
    <2>1. DownloadTypes' /\ got'.pulled = got.pulled /\ got'.bytes = got.bytes /\ got'.state = "aborted"
      BY <1>0, <2>0 DEF DownloadTypes
    <2> DEFINE f == [type |-> "ServerBlobAbort", size |-> 0]
    <2>2. f \in BlobFrames /\ f.type = "ServerBlobAbort"
      BY <1>1 DEF BlobFrames
    <2>3. toServer' = Append(toServer, f)
      BY <2>0 DEF ToServer
    <2> HIDE DEF f
    <2>4. FrameAdded(toServer', toServer, f)
      BY <1>0, <2>2, <2>3, BlobQueues
    <2>5. Sum(Bytes(toServer', "ServerBlobPull")) = Sum(Bytes(toServer, "ServerBlobPull"))
      BY <1>1, <2>2, <2>4, DownloadAmounts DEF FrameAdded
    <2>6. DownloadGranted'
      BY <2>0, <2>1, <2>5 DEF DownloadInv, DownloadGranted
    <2>7. DownloadQuiet' /\ DownloadWhole'
      BY <2>0, <2>1 DEF DownloadInv, DownloadQuiet, DownloadWhole
    <2> QED BY <2>1, <2>6, <2>7 DEF DownloadInv
  <1> QED BY <1>2, <1>3

\* The client takes a push, an end or an abort of the server.
LEMMA DownloadFramesReceived ==
    ASSUME BlobTypes, DownloadInv, ClientReceivesBlob, Head(toClient).type \in DownTypes
    PROVE  DownloadTypes' /\ DownloadInv'
  <1> DEFINE f == Head(toClient)
  <1>0. toServer \in Seq(BlobFrames) /\ toClient \in Seq(BlobFrames) /\ DownloadTypes
    BY DEF BlobTypes
  <1>1. toClient # <<>> /\ toClient' = Tail(toClient) /\ UNCHANGED <<toServer, uploaded, pump, total>>
    BY DEF ClientReceivesBlob
  <1>2. /\ FrameRemoved(toClient', toClient) /\ f = toClient[1] /\ f \in BlobFrames /\ Tail(toClient) \in Seq(BlobFrames)
        /\ 1 \in DOMAIN toClient
    BY <1>0, <1>1, BlobQueues
  <1>3. PICK n \in Nat : n = f.size
    BY <1>2 DEF BlobFrames
  <1>4. "ServerBlobPush" \in FrameTypes
    BY DEF FrameTypes, DownTypes
  <1>5. Sum(Bytes(toClient', "ServerBlobPush")) \in Nat
    <2>1. \A t \in FrameTypes : Sum(Bytes(Tail(toClient), t)) \in Nat
      BY <1>2, BlobQueues
    <2> QED BY <1>1, <1>4, <2>1
  <1>6. Sum(Bytes(toClient, "ServerBlobPush"))
          = Sum(Bytes(toClient', "ServerBlobPush")) + (IF f.type = "ServerBlobPush" THEN n ELSE 0)
    BY <1>2, <1>3, <1>4 DEF FrameRemoved
  <1>7. \A i \in DOMAIN toClient' : toClient'[i].type = "ServerBlobEnd" =>
            /\ ~pump.open
            /\ \A j \in DOMAIN toClient' : j > i => toClient'[j].type # "ServerBlobPush"
            /\ f.type # "ServerBlobEnd" /\ got.state = "open" =>
                got.bytes + Sum(Bytes(toClient, "ServerBlobPush")) = total.down
    <2> SUFFICES ASSUME NEW i \in DOMAIN toClient', toClient'[i].type = "ServerBlobEnd"
                 PROVE  /\ ~pump.open
                        /\ \A j \in DOMAIN toClient' : j > i => toClient'[j].type # "ServerBlobPush"
                        /\ got.state = "open" => got.bytes + Sum(Bytes(toClient, "ServerBlobPush")) = total.down
      OBVIOUS
    <2>1. i + 1 \in DOMAIN toClient /\ toClient[i + 1].type = "ServerBlobEnd"
      BY <1>2 DEF FrameRemoved
    <2>2. ~pump.open /\ (got.state = "open" => got.bytes + Sum(Bytes(toClient, "ServerBlobPush")) = total.down)
      BY <2>1 DEF DownloadInv, DownloadWhole
    <2>3. ASSUME NEW j \in DOMAIN toClient', j > i PROVE toClient'[j].type # "ServerBlobPush"
      <3>1. i \in Nat /\ j \in Nat
        BY <1>1, <1>2
      <3>2. j + 1 \in DOMAIN toClient /\ toClient'[j] = toClient[j + 1] /\ j + 1 > i + 1
        BY <1>2, <2>3, <3>1 DEF FrameRemoved
      <3> QED BY <2>1, <3>2 DEF DownloadInv, DownloadWhole
    <2> QED BY <2>2, <2>3
  <1>8. DownloadQuiet'
    BY <1>1 DEF DownloadInv, DownloadQuiet
  \* A stream that is not open ignores the frame.
  <1>9. CASE got.state # "open" /\ got' = got
    <2>1. DownloadTypes'
      BY <1>0, <1>1, <1>9 DEF DownloadTypes
    <2>2. DownloadGranted'
      <3>1. Sum(Bytes(toClient', "ServerBlobPush")) <= Sum(Bytes(toClient, "ServerBlobPush"))
        BY <1>5, <1>6
      <3> QED BY <1>1, <1>5, <1>9, <3>1, DownloadAmounts DEF DownloadInv, DownloadGranted
    <2>3. DownloadWhole'
      BY <1>1, <1>7, <1>9 DEF DownloadInv, DownloadWhole
    <2> QED BY <1>8, <2>1, <2>2, <2>3 DEF DownloadInv
  <1>10. CASE got.state = "open" /\ f.type = "ServerBlobPush"
    <2>0. got' = [got EXCEPT !.bytes = @ + n, !.reading = FALSE, !.frames = IF got.reading THEN @ ELSE @ + 1]
      BY <1>3, <1>10 DEF ClientReceivesBlob
    <2>1. PICK m \in Nat : m = IF got.reading THEN got.frames ELSE got.frames + 1
      BY <1>0 DEF DownloadTypes
    <2>2. got.bytes + n \in Nat
      BY DownloadAmounts
    <2>3. got' = [got EXCEPT !.bytes = @ + n, !.reading = FALSE, !.frames = m]
      BY <2>0, <2>1
    <2>4. DownloadTypes' /\ got'.pulled = got.pulled /\ got'.bytes = got.bytes + n /\ got'.state = "open"
      BY <1>0, <1>1, <1>10, <2>2, <2>3 DEF DownloadTypes
    <2>5. Sum(Bytes(toClient, "ServerBlobPush")) = Sum(Bytes(toClient', "ServerBlobPush")) + n
      BY <1>6, <1>10
    <2>6. (got.bytes + n) + Sum(Bytes(toClient', "ServerBlobPush")) = got.bytes + Sum(Bytes(toClient, "ServerBlobPush"))
      BY <1>5, <2>5, DownloadAmounts
    <2>7. DownloadGranted'
      BY <1>1, <2>4, <2>6 DEF DownloadInv, DownloadGranted
    <2>8. DownloadWhole'
      BY <1>1, <1>7, <1>10, <2>4, <2>6 DEF DownloadInv, DownloadWhole
    <2> QED BY <1>8, <2>4, <2>7, <2>8 DEF DownloadInv
  <1>11. CASE got.state = "open" /\ f.type \in {"ServerBlobEnd", "ServerBlobAbort"}
    <2>0. PICK s \in {"ended", "aborted"} :
            /\ got' = [got EXCEPT !.state = s, !.reading = FALSE]
            /\ s = "ended" => f.type = "ServerBlobEnd"
      BY <1>11 DEF ClientReceivesBlob
    <2>1. DownloadTypes' /\ got'.pulled = got.pulled /\ got'.bytes = got.bytes /\ got'.state = s
      BY <1>0, <1>1, <2>0 DEF DownloadTypes
    <2>2. Sum(Bytes(toClient', "ServerBlobPush")) = Sum(Bytes(toClient, "ServerBlobPush"))
      BY <1>5, <1>6, <1>11
    <2>3. DownloadGranted'
      BY <1>1, <2>1, <2>2 DEF DownloadInv, DownloadGranted
    <2>4. s = "ended" => got.bytes = total.down
      <3>1. CASE f.type = "ServerBlobEnd"
        <4>1. got.bytes + Sum(Bytes(toClient, "ServerBlobPush")) = total.down
          BY <1>2, <1>11, <3>1 DEF DownloadInv, DownloadWhole
        <4>2. \A j \in DOMAIN toClient : toClient[j].type # "ServerBlobPush"
          <5>1. \A j \in DOMAIN toClient : j = 1 \/ j > 1
            BY <1>0
          <5> QED BY <1>2, <3>1, <5>1 DEF DownloadInv, DownloadWhole
        <4>3. Sum(Bytes(toClient, "ServerBlobPush")) = 0
          BY <1>0, <1>4, <4>2, NoneCarried
        <4> QED BY <4>1, <4>3, DownloadAmounts
      <3> QED BY <2>0, <3>1
    <2>5. DownloadWhole'
      BY <1>1, <1>7, <2>0, <2>1, <2>4 DEF DownloadInv, DownloadWhole
    <2> QED BY <1>8, <2>1, <2>3, <2>5 DEF DownloadInv
  <1> QED BY <1>9, <1>10, <1>11 DEF ClientReceivesBlob, DownTypes

-----------------------------------------------------------------------------
\* The end of the connection.
LEMMA BlobsDropped ==
    ASSUME BlobInv, CleanupConnection PROVE BlobInv'
  <1>0. BlobTypes /\ UploadTypes /\ DownloadTypes /\ UploadInv /\ DownloadInv
    BY DEF BlobInv, BlobTypes
  <1>1. /\ uploaded' = [uploaded EXCEPT !.open = FALSE]
        /\ pump' = [pump EXCEPT !.open = FALSE, !.buffered = 0]
        /\ sent' = [sent EXCEPT !.open = FALSE, !.pulls = <<>>]
        /\ toServer' = <<>> /\ toClient' = <<>> /\ UNCHANGED total
    BY DEF CleanupConnection
  <1>2. PICK s \in {"ended", "aborted"} :
            got' = [got EXCEPT !.state = s, !.reading = FALSE] /\ (s = "ended" => got.state = "ended")
    <2>1. got.state \in {"open", "ended", "aborted"}
      BY <1>0 DEF DownloadTypes
    <2> QED BY <2>1 DEF CleanupConnection
  <1>3. PICK z \in Seq(Nat) : z = <<>>
    <2>1. <<>> \in Seq(Nat)
      OBVIOUS
    <2> QED BY <2>1, Zenon
  <1>4. UploadTypes' /\ sent'.pulls = z /\ uploaded'.open = FALSE /\ uploaded'.told = uploaded.told
        /\ uploaded'.heard = uploaded.heard /\ uploaded'.ended = uploaded.ended /\ uploaded'.bytes = uploaded.bytes
    <2>1. sent' = [sent EXCEPT !.open = FALSE, !.pulls = z]
      BY <1>1, <1>3
    <2> QED BY <1>0, <1>1, <2>1 DEF UploadTypes
  <1>5. /\ pump' \in [open : BOOLEAN, source : Seq(Nat), buffered : Nat, credits : Nat, granted : BOOLEAN,
                      sourceEnded : BOOLEAN, error : BOOLEAN, told : Nat, heard : BOOLEAN, violated : BOOLEAN]
        /\ pump'.open = FALSE /\ pump'.told = pump.told /\ pump'.heard = pump.heard /\ pump'.credits = pump.credits
        /\ pump'.error = pump.error /\ pump'.sourceEnded = pump.sourceEnded /\ pump'.source = pump.source
    BY <1>0, <1>1 DEF DownloadTypes
  <1>6. /\ got' \in [state : {"open", "ended", "aborted"}, reading : BOOLEAN, frames : Nat, bytes : Nat, pulled : Nat]
        /\ got'.state = s /\ got'.bytes = got.bytes /\ got'.pulled = got.pulled
    BY <1>0, <1>2 DEF DownloadTypes
  <1>7. BlobTypes'
    <2>1. <<>> \in Seq(BlobFrames)
      OBVIOUS
    <2>2. total \in [up : Nat, down : Nat, gap : BOOLEAN]
      BY <1>0 DEF BlobTypes
    <2> QED BY <1>1, <1>4, <1>5, <1>6, <2>1, <2>2 DEF BlobTypes, DownloadTypes
  <1>8. DOMAIN toServer' = {} /\ DOMAIN toClient' = {}
    BY <1>1
  <1>9. UploadInv'
    <2>1. UploadQuiet'
      BY <1>0, <1>4 DEF UploadInv, UploadQuiet
    <2>2. PullSizes'
      BY <1>3, <1>4, <1>8 DEF PullSizes
    <2>3. OnePull' /\ UploadWhole'
      BY <1>0, <1>1, <1>4 DEF UploadInv, OnePull, UploadWhole
    <2> QED BY <2>1, <2>2, <2>3 DEF UploadInv
  <1>10. DownloadInv'
    <2>1. DownloadQuiet'
      BY <1>0, <1>5 DEF DownloadInv, DownloadQuiet
    <2>2. Sum(Bytes(toClient', "ServerBlobPush")) = 0 /\ Sum(Bytes(toServer', "ServerBlobPull")) = 0
      <3>1. \A t : Bytes(<<>>, t) = <<>>
        BY DEF Bytes
      <3> QED BY <1>1, <3>1, SumFacts
    <2>3. DownloadGranted'
      <3>1. got.bytes + Sum(Bytes(toClient, "ServerBlobPush")) + pump.credits + Sum(Bytes(toServer, "ServerBlobPull"))
              <= got.pulled
        BY <1>0 DEF DownloadInv, DownloadGranted
      <3>2. got.bytes + 0 + pump.credits + 0 <= got.pulled
        BY <1>0, <3>1, DownloadAmounts
      <3> QED BY <1>5, <1>6, <2>2, <3>2 DEF DownloadGranted
    <2>4. DownloadWhole'
      BY <1>0, <1>1, <1>2, <1>5, <1>6, <1>8 DEF DownloadInv, DownloadWhole
    <2> QED BY <2>1, <2>3, <2>4 DEF DownloadInv
  <1> QED BY <1>7, <1>9, <1>10 DEF BlobInv

\* Initially nothing was pulled or sent.
LEMMA BlobsStart ==
    ASSUME BlobInit PROVE BlobInv
  <1>1. PICK u \in Sources, d \in Sources :
        /\ toServer = <<>> /\ toClient = <<>>
        /\ sent = [open |-> TRUE, source |-> u, pulls |-> <<>>, queue |-> 0]
        /\ uploaded = [open |-> TRUE, granted |-> 0, reading |-> FALSE, bytes |-> 0, ended |-> FALSE,
                       consumed |-> FALSE, told |-> 0, heard |-> FALSE]
        /\ pump = [open |-> TRUE, source |-> d, buffered |-> 0, credits |-> 0, granted |-> FALSE,
                   sourceEnded |-> FALSE, error |-> FALSE, told |-> 0, heard |-> FALSE, violated |-> FALSE]
        /\ got = [state |-> "open", reading |-> FALSE, frames |-> 0, bytes |-> 0, pulled |-> 0]
        /\ total = [up |-> Sum(u), down |-> Sum(d), gap |-> \E i \in DOMAIN u : u[i] = 0]
    BY DEF BlobInit
  <1>2. u \in Seq(Nat) /\ d \in Seq(Nat) /\ Sum(u) \in Nat /\ Sum(d) \in Nat /\ <<>> \in Seq(Nat) /\ <<>> \in Seq(BlobFrames)
    BY BlobAssumption, SumFacts
  <1>3. UploadTypes /\ DownloadTypes /\ BlobTypes
    BY <1>1, <1>2 DEF BlobTypes, UploadTypes, DownloadTypes
  <1>4. /\ Sum(Bytes(toClient, "ClientBlobPull")) = 0 /\ Sum(Bytes(toServer, "ClientBlobPush")) = 0
        /\ Sum(Bytes(toClient, "ServerBlobPush")) = 0 /\ Sum(Bytes(toServer, "ServerBlobPull")) = 0
        /\ Sum(PullsServed(toServer)) = 0 /\ Sum(sent.pulls) = 0
    <2>1. PullsServed(<<>>) = <<>> /\ \A t : Bytes(<<>>, t) = <<>>
      BY DEF PullsServed, Bytes
    <2> QED BY <1>1, <2>1, SumFacts
  <1>5. DOMAIN toServer = {} /\ DOMAIN toClient = {} /\ DOMAIN sent.pulls = {}
    BY <1>1
  <1>6. UploadInv
    <2>1. UploadQuiet /\ PullSizes
      BY <1>1, <1>5 DEF UploadQuiet, PullSizes
    <2>2. OnePull
      BY <1>1, <1>4 DEF OnePull
    <2>3. UploadWhole
      BY <1>1, <1>2, <1>4, <1>5 DEF UploadWhole
    <2> QED BY <2>1, <2>2, <2>3 DEF UploadInv
  <1>7. DownloadInv
    BY <1>1, <1>2, <1>4, <1>5 DEF DownloadInv, DownloadQuiet, DownloadGranted, DownloadWhole
  <1> QED BY <1>3, <1>6, <1>7 DEF BlobInv

\* Every step keeps the invariant.
LEMMA BlobsStep ==
    ASSUME BlobInv, [BlobNext]_blobVars PROVE BlobInv'
  <1>0. BlobTypes /\ UploadInv /\ DownloadInv
    BY DEF BlobInv
  <1>1. CASE UploadStep
    <2>1. UploadTypes' /\ UploadInv'
      BY <1>0, <1>1, DemandUpload, ConsumeOrExpire, AnsweredUpload, ReceivedUpload, UploadFramesReceived DEF UploadStep
    <2>2. /\ UNCHANGED <<pump, got, total>>
          /\ Moved(toClient', toClient, UpTypes) /\ Moved(toServer', toServer, UpTypes)
      BY <1>0, <1>1, UploadMoves
    <2>3. DownloadInv'
      BY <1>0, <2>2, DownloadUntouched
    <2>4. toClient' \in Seq(BlobFrames) /\ toServer' \in Seq(BlobFrames)
      <3>1. \A q \in Seq(BlobFrames) : \A p : Moved(p, q, UpTypes) => p \in Seq(BlobFrames)
        BY OtherFrames
      <3> QED BY <1>0, <2>2, <3>1 DEF BlobTypes
    <2>5. BlobTypes'
      BY <1>0, <2>1, <2>2, <2>4 DEF BlobTypes, DownloadTypes
    <2> QED BY <2>1, <2>3, <2>5 DEF BlobInv
  <1>2. CASE DownloadStep
    <2>1. DownloadTypes' /\ DownloadInv'
      BY <1>0, <1>2, DownloadPumped, DownloadRead, ReceivedDownload, DownloadFramesReceived DEF DownloadStep
    <2>2. /\ UNCHANGED <<sent, uploaded, total>>
          /\ Moved(toClient', toClient, DownTypes) /\ Moved(toServer', toServer, DownTypes)
      BY <1>0, <1>2, DownloadMoves
    <2>3. UploadInv'
      BY <1>0, <2>2, UploadUntouched
    <2>4. toClient' \in Seq(BlobFrames) /\ toServer' \in Seq(BlobFrames)
      <3>1. \A q \in Seq(BlobFrames) : \A p : Moved(p, q, DownTypes) => p \in Seq(BlobFrames)
        BY OtherFrames
      <3> QED BY <1>0, <2>2, <3>1 DEF BlobTypes
    <2>5. BlobTypes'
      BY <1>0, <2>1, <2>2, <2>4 DEF BlobTypes, UploadTypes
    <2> QED BY <2>1, <2>3, <2>5 DEF BlobInv
  <1>3. CASE CleanupConnection
    BY <1>3, BlobsDropped
  <1>4. CASE UNCHANGED blobVars
    BY <1>4 DEF blobVars, BlobInv, BlobTypes, UploadTypes, DownloadTypes, UploadInv, UploadQuiet, PullSizes, OnePull,
                UploadWhole, LastWord, DownloadInv, DownloadQuiet, DownloadGranted, DownloadWhole
  <1> QED BY <1>0, <1>1, <1>2, <1>3, <1>4, BlobSteps

\* A push, or a chunk still to be read, is empty only when the source gave
\* an empty chunk.
PushesFull ==
    /\ \A i \in DOMAIN sent.source : sent.source[i] = 0 => total.gap
    /\ \A i \in DOMAIN toServer : toServer[i].type = "ClientBlobPush" /\ toServer[i].size = 0 => total.gap

\* Initially the source is what the history is about.
LEMMA PushesFullStart ==
    ASSUME BlobInit PROVE PushesFull
  <1>1. PICK u \in Sources : /\ toServer = <<>> /\ sent.source = u
                             /\ total.gap = \E i \in DOMAIN u : u[i] = 0
    BY DEF BlobInit
  <1> QED BY <1>1 DEF PushesFull

\* What is added to the frames, and what is left of the source, by a step.
LEMMA PushesMoved ==
    ASSUME BlobTypes, PushesFull, UNCHANGED total,
           \/ sent'.source = sent.source
           \/ sent.source # <<>> /\ sent'.source = Tail(sent.source),
           \/ toServer' \in {toServer, <<>>}
           \/ toServer # <<>> /\ toServer' = Tail(toServer)
           \/ \E f \in BlobFrames : /\ toServer' = Append(toServer, f)
                                    /\ f.type = "ClientBlobPush" /\ f.size = 0 => total.gap
    PROVE  PushesFull'
  <1>0. toServer \in Seq(BlobFrames) /\ sent.source \in Seq(Nat)
    BY DEF BlobTypes, UploadTypes
  <1>1. \A i \in DOMAIN sent'.source : \E j \in DOMAIN sent.source : sent'.source[i] = sent.source[j]
    <2>1. CASE sent'.source = sent.source
      BY <2>1
    <2>2. CASE sent.source # <<>> /\ sent'.source = Tail(sent.source)
      <3> DEFINE q == sent.source
      <3>1. \A i \in DOMAIN Tail(q) : i + 1 \in DOMAIN q /\ Tail(q)[i] = q[i + 1]
        BY <1>0, <2>2
      <3> QED BY <2>2, <3>1
    <2> QED BY <2>1, <2>2
  <1>2. CASE toServer' \in {toServer, <<>>}
    BY <1>1, <1>2 DEF PushesFull
  <1>3. CASE toServer # <<>> /\ toServer' = Tail(toServer)
    <2>1. \A i \in DOMAIN Tail(toServer) : i + 1 \in DOMAIN toServer /\ Tail(toServer)[i] = toServer[i + 1]
      BY <1>0, <1>3
    <2> QED BY <1>1, <1>3, <2>1 DEF PushesFull
  <1>4. ASSUME NEW f \in BlobFrames, toServer' = Append(toServer, f),
               f.type = "ClientBlobPush" /\ f.size = 0 => total.gap
        PROVE  PushesFull'
    <2>1. \A i \in DOMAIN toServer' : toServer'[i] = f \/ (i \in DOMAIN toServer /\ toServer'[i] = toServer[i])
      BY <1>0, <1>4
    <2> QED BY <1>1, <1>4, <2>1 DEF PushesFull
  <1> QED BY <1>2, <1>3, <1>4

\* The answer to a pull is empty only when the chunk it is cut from is.
LEMMA PushesAnswered ==
    ASSUME BlobInv, PushesFull, AnswerPull PROVE PushesFull'
  <1>0. BlobTypes /\ UploadTypes /\ PullSizes /\ UNCHANGED total /\ sent.pulls # <<>>
    BY DEF BlobInv, BlobTypes, UploadInv, AnswerPull
  <1>1. /\ sent.source \in Seq(Nat) /\ sent.pulls \in Seq(Nat) /\ sent.queue \in Nat
        /\ sent = [sent EXCEPT !.open = @] /\ PullSize \in Nat /\ PullSize > 0
    BY <1>0, BlobAssumption DEF UploadTypes
  <1>2. Head(sent.pulls) = PullSize
    BY <1>0, <1>1 DEF PullSizes
  <1>3. \A t \in FrameTypes, n \in Nat : [type |-> t, size |-> n] \in BlobFrames
    BY NewFrames
  <1>4. {"ClientBlobPush", "ClientBlobEnd", "ClientBlobAbort"} \subseteq FrameTypes
    BY DEF FrameTypes, UpTypes
  <1>5. CASE \E t \in {"ClientBlobEnd", "ClientBlobAbort"} :
               /\ sent' = [sent EXCEPT !.pulls = Tail(@), !.open = FALSE] /\ toServer' = ToServer(t, 0)
    <2>1. PICK t \in {"ClientBlobEnd", "ClientBlobAbort"} :
               /\ sent' = [sent EXCEPT !.pulls = Tail(@), !.open = FALSE] /\ toServer' = ToServer(t, 0)
      BY <1>5
    <2>2. sent'.source = sent.source
      BY <1>0, <2>1 DEF UploadTypes
    <2>3. \E f \in BlobFrames : toServer' = Append(toServer, f) /\ f.type # "ClientBlobPush"
      <3> DEFINE f == [type |-> t, size |-> 0]
      <3>1. f \in BlobFrames /\ toServer' = Append(toServer, f) /\ f.type # "ClientBlobPush"
        BY <1>3, <1>4, <2>1 DEF ToServer
      <3> QED BY <3>1
    <2> QED BY <1>0, <2>2, <2>3, PushesMoved
  <1>6. CASE /\ sent.open /\ (sent.queue > 0 \/ sent.source # <<>>)
             /\ LET r == ReadSource(Head(sent.pulls))
                IN  /\ sent' = [sent EXCEPT !.pulls = Tail(@), !.queue = r.queue, !.source = r.source]
                    /\ toServer' = ToServer("ClientBlobPush", r.bytes)
    <2> DEFINE r == ReadSource(PullSize)
               k == IF sent.queue = 0 THEN Head(sent.source) ELSE sent.queue
    <2>1. sent'.source = r.source /\ toServer' = Append(toServer, [type |-> "ClientBlobPush", size |-> r.bytes])
      BY <1>0, <1>2, <1>6 DEF ToServer, UploadTypes
    <2>2. r.source = IF sent.queue = 0 THEN Tail(sent.source) ELSE sent.source
      BY DEF ReadSource
    <2>3. r.bytes = IF PullSize < k THEN PullSize ELSE k
      BY DEF ReadSource, Smaller
    <2>4. k \in Nat /\ (k = 0 => total.gap)
      <3>1. CASE sent.queue = 0
        <4>1. sent.source # <<>>
          BY <1>1, <1>6, <3>1
        <4>2. Head(sent.source) = sent.source[1] /\ 1 \in DOMAIN sent.source /\ sent.source[1] \in Nat
          BY <1>1, <4>1
        <4> QED BY <3>1, <4>2 DEF PushesFull
      <3>2. CASE sent.queue # 0
        BY <1>1, <3>2
      <3> QED BY <3>1, <3>2
    <2>5. r.bytes \in Nat /\ (r.bytes = 0 => total.gap)
      <3> HIDE DEF r, k
      <3> QED BY <1>1, <2>3, <2>4
    <2>6. \/ sent'.source = sent.source
          \/ sent.source # <<>> /\ sent'.source = Tail(sent.source)
      BY <1>1, <1>6, <2>1, <2>2
    <2>7. \E f \in BlobFrames : toServer' = Append(toServer, f) /\ (f.size = 0 => total.gap)
      <3> DEFINE f == [type |-> "ClientBlobPush", size |-> r.bytes]
      <3>1. f \in BlobFrames /\ f.size = r.bytes
        BY <1>3, <1>4, <2>5
      <3> QED BY <2>1, <2>5, <3>1
    <2> QED BY <1>0, <2>6, <2>7, PushesMoved
  <1> QED BY <1>5, <1>6 DEF AnswerPull

\* Every step keeps it.
LEMMA PushesFullStep ==
    ASSUME BlobInv, PushesFull, [BlobNext]_blobVars PROVE PushesFull'
  <1>0. BlobTypes /\ UploadTypes
    BY DEF BlobInv, BlobTypes
  <1>1. CASE AnswerPull
    BY <1>1, PushesAnswered
  <1>2. CASE UNCHANGED <<toServer, sent, total>>
    BY <1>2 DEF PushesFull
  <1>3. CASE ReadBlob \/ AbortServerBlob
    <2>1. UNCHANGED <<sent, total>>
      BY <1>3 DEF ReadBlob, AbortServerBlob
    <2>2. \E f \in BlobFrames : toServer' = Append(toServer, f) /\ f.type # "ClientBlobPush"
      <3>1. PICK t \in {"ServerBlobPull", "ServerBlobAbort"}, n \in Nat :
                toServer' = Append(toServer, [type |-> t, size |-> n])
        BY <1>3, BlobAssumption DEF ReadBlob, AbortServerBlob, ToServer
      <3>2. [type |-> t, size |-> n] \in BlobFrames
        BY NewFrames DEF FrameTypes, DownTypes
      <3> QED BY <3>1, <3>2
    <2> QED BY <1>0, <2>1, <2>2, PushesMoved
  <1>4. CASE ServerReceivesBlob
    <2>1. UNCHANGED <<sent, total>> /\ toServer # <<>> /\ toServer' = Tail(toServer)
      BY <1>4 DEF ServerReceivesBlob
    <2> QED BY <1>0, <2>1, PushesMoved
  <1>5. CASE ClientReceivesBlob
    <2>1. UNCHANGED <<toServer, total>>
      BY <1>5 DEF ClientReceivesBlob
    <2>2. sent'.source = sent.source
      BY <1>0, <1>5 DEF ClientReceivesBlob, UploadTypes
    <2> QED BY <1>0, <2>1, <2>2, PushesMoved
  <1>6. CASE CleanupConnection
    <2>1. toServer' = <<>> /\ UNCHANGED total
      BY <1>6 DEF CleanupConnection
    <2>2. sent'.source = sent.source
      BY <1>0, <1>6 DEF CleanupConnection, UploadTypes
    <2> QED BY <1>0, <2>1, <2>2, PushesMoved
  <1>7. CASE Demand \/ ConsumeUpload \/ UploadExpires
    BY <1>2, <1>7 DEF Demand, ConsumeUpload, UploadExpires
  <1>8. CASE SourceFails \/ SourceEnds \/ Pump \/ DownloadExpires
    BY <1>2, <1>8 DEF SourceFails, SourceEnds, Pump, DownloadExpires
  <1>9. CASE UNCHANGED blobVars
    BY <1>2, <1>9 DEF blobVars
  <1> QED BY <1>1, <1>3, <1>4, <1>5, <1>6, <1>7, <1>8, <1>9 DEF BlobNext

\* The invariant gives what is promised of a blob.
LEMMA BlobsFollow ==
    ASSUME BlobInv, PushesFull PROVE BlobsSound
  <1>0. BlobTypes /\ UploadInv /\ DownloadInv /\ UploadTypes /\ DownloadTypes
    BY DEF BlobInv, BlobTypes
  <1>1. AtMostOneAbort
    <2>1. \A n \in Nat, h \in BOOLEAN : n <= 1 /\ (h => n = 0) => n + (IF h THEN 1 ELSE 0) <= 1
      <3> SUFFICES ASSUME NEW n \in Nat, NEW h \in BOOLEAN, n <= 1, h => n = 0 PROVE n + (IF h THEN 1 ELSE 0) <= 1
        OBVIOUS
      <3>1. CASE h = TRUE
        BY <3>1
      <3>2. CASE h = FALSE
        BY <3>2
      <3> QED BY <3>1, <3>2
    <2>2. uploaded.told \in Nat /\ uploaded.heard \in BOOLEAN /\ pump.told \in Nat /\ pump.heard \in BOOLEAN
      BY <1>0 DEF UploadTypes, DownloadTypes
    <2>3. uploaded.told <= 1 /\ (uploaded.heard => uploaded.told = 0) /\ pump.told <= 1 /\ (pump.heard => pump.told = 0)
      BY <1>0 DEF UploadInv, UploadQuiet, DownloadInv, DownloadQuiet
    <2>4. uploaded.told + (IF uploaded.heard THEN 1 ELSE 0) <= 1 /\ pump.told + (IF pump.heard THEN 1 ELSE 0) <= 1
      BY <2>1, <2>2, <2>3
    <2> QED BY <2>4 DEF AtMostOneAbort
  <1>2. HonestPushAccepted
    <2>0. \A i \in DOMAIN toServer : toServer[i].type = "ClientBlobPush" => toServer[i].size > 0 \/ total.gap
      <3> SUFFICES ASSUME NEW i \in DOMAIN toServer, toServer[i].type = "ClientBlobPush", toServer[i].size # 0
                   PROVE  toServer[i].size > 0
        BY DEF PushesFull
      <3>1. toServer[i] \in BlobFrames
        BY <1>0 DEF BlobTypes
      <3> QED BY <3>1 DEF BlobFrames
    <2> SUFFICES ASSUME NEW i \in DOMAIN toServer, toServer[i].type = "ClientBlobPush", uploaded.open
                 PROVE  Sum([k \in 1..i |-> IF toServer[k].type = "ClientBlobPush" THEN toServer[k].size ELSE 0])
                          <= uploaded.granted
      BY <2>0 DEF HonestPushAccepted
    <2> DEFINE s == [k \in 1..i |-> IF toServer[k].type = "ClientBlobPush" THEN toServer[k].size ELSE 0]
               t == PullsServed(toServer)
               r == Bytes(toServer, "ClientBlobPush")
    <2>1. toServer \in Seq(BlobFrames) /\ PullSize \in Nat
      BY <1>0, UploadAmounts DEF BlobTypes
    <2>2. i \in Nat /\ i <= Len(toServer) /\ DOMAIN toServer = 1..Len(toServer) /\ Len(toServer) \in Nat
      BY <2>1
    <2>3. \A k \in 1..Len(toServer) : toServer[k].size \in Nat
      <3>1. \A k \in 1..Len(toServer) : toServer[k] \in BlobFrames
        BY <2>1, <2>2
      <3> QED BY <3>1 DEF BlobFrames
    <2>4. s \in Seq(Nat) /\ Len(s) = i
      BY <2>2, <2>3
    <2>5. t \in Seq(Nat) /\ Len(t) = Len(toServer)
      BY <2>1, <2>2 DEF PullsServed
    <2>6. \A k \in 1..i : s[k] <= t[k]
      <3> SUFFICES ASSUME NEW k \in 1..i PROVE s[k] <= t[k]
        OBVIOUS
      <3>1. k \in DOMAIN toServer
        BY <2>2
      <3>2. toServer[k].type = "ClientBlobPush" => toServer[k].size <= PullSize
        BY <1>0, <3>1 DEF UploadInv, PullSizes
      <3> QED BY <2>1, <3>1, <3>2 DEF PullsServed
    <2>7. Sum(s) <= Sum(t)
      <3> HIDE DEF s, t
      <3> QED BY <2>2, <2>4, <2>5, <2>6, SumMonotone
    <2>8. Sum(t) >= PullSize
      <3> DEFINE w == [k \in 1..i |-> IF k = i THEN PullSize ELSE 0]
      <3>1. w \in Seq(Nat) /\ Len(w) = i
        BY <2>1, <2>2
      <3>2. \A k \in 1..i : w[k] <= t[k]
        BY <2>1, <2>2 DEF PullsServed
      <3>3. Sum(w) = PullSize
        <4> DEFINE g == [k \in 0..i |-> IF k = i THEN PullSize ELSE 0]
        <4>1. IsSum(w, g)
          BY <2>1, <2>2, <3>1 DEF IsSum
        <4>2. Sum(w) = g[i]
          <5> HIDE DEF w, g
          <5> QED BY <3>1, <4>1, SumUnique
        <4> QED BY <2>2, <4>2
      <3> HIDE DEF w, t
      <3>4. Sum(w) <= Sum(t)
        BY <2>2, <2>5, <3>1, <3>2, SumMonotone
      <3> QED BY <2>1, <2>5, <3>3, <3>4, SumFacts
    <2>9. uploaded.reading /\ Sum(t) <= PullSize /\ PullSize <= uploaded.granted
      <3>1. CASE uploaded.reading
        <4>1. Sum(Bytes(toClient, "ClientBlobPull")) + Sum(sent.pulls) + Sum(t) <= PullSize /\ PullSize <= uploaded.granted
          BY <1>0, <3>1 DEF UploadInv, OnePull
        <4> QED BY <1>0, <3>1, <4>1, UploadAmounts
      <3>2. CASE ~uploaded.reading
        <4>1. Sum(Bytes(toClient, "ClientBlobPull")) + Sum(sent.pulls) + Sum(t) <= 0
          BY <1>0, <3>2 DEF UploadInv, OnePull
        <4> QED BY <1>0, <2>8, <4>1, UploadAmounts
      <3> QED BY <3>1, <3>2
    <2>10. Sum(s) \in Nat /\ Sum(t) \in Nat
      <3> HIDE DEF s, t
      <3> QED BY <2>4, <2>5, SumFacts
    <2>11. Sum(s) <= uploaded.granted
      <3> HIDE DEF s, t
      <3> QED BY <1>0, <2>7, <2>9, <2>10, UploadAmounts
    <2> QED BY <2>11
  <1>3. DownloadWithinGrants
    <2>1. got.bytes + Sum(Bytes(toClient, "ServerBlobPush")) <= got.pulled
      BY <1>0, DownloadAmounts DEF DownloadInv, DownloadGranted
    <2> QED BY <2>1 DEF DownloadWithinGrants, Bytes
  <1>4. EndIsComplete
    BY <1>0 DEF EndIsComplete, UploadInv, UploadWhole, DownloadInv, DownloadWhole
  <1> QED BY <1>1, <1>2, <1>3, <1>4 DEF BlobsSound

\* For any sources, pull size and cap: a blob arrives whole or is aborted
\* once, no push of the client passes what was granted though the grants
\* are capped, none is empty unless a chunk of its source is, and no byte
\* is sent unasked (stream.ts, the blob stream manager and its pump).
THEOREM BlobsArriveWhole == BlobSpec => []BlobsSound
  <1>1. BlobInit => BlobInv /\ PushesFull
    BY BlobsStart, PushesFullStart
  <1>2. BlobInv /\ PushesFull /\ [BlobNext]_blobVars => BlobInv' /\ PushesFull'
    BY BlobsStep, PushesFullStep
  <1>3. BlobInv /\ PushesFull => BlobsSound
    BY BlobsFollow
  <1> QED BY <1>1, <1>2, <1>3, PTL DEF BlobSpec

-----------------------------------------------------------------------------
(* The gateway's connections.                                              *)

GatewayTypeOK ==
    /\ upgrade \in [Conns -> {"none", "connecting", "accepted", "leaving", "refused"}]
    /\ registry \in [Conns -> {"none", "pending", "open"}]
    /\ peer \in [Conns -> {"none", "open", "closed"}]
    /\ scope \in [Conns -> {"none", "live", "closing", "closed"}]
    /\ teardowns \in [Conns -> Nat]
    /\ session \subseteq Conns /\ running \subseteq Conns
    /\ stopping \in {"no", "upgrades", "sweep", "scopes", "stopped"}

\* A scope is made by an upgrade, and an upgrade still under way has none;
\* an open socket is registered, until its connection is ended.
ScopesFollowUpgrades ==
    \A c \in Conns :
        /\ upgrade[c] \in {"none", "connecting"} => scope[c] = "none"
        /\ upgrade[c] # "accepted" => registry[c] = "none" /\ peer[c] = "none"
        /\ upgrade[c] = "leaving" => scope[c] # "live"
        /\ peer[c] = "open" <=> registry[c] = "open"
        /\ c \in running => scope[c] # "none"

\* What each phase of the stop has got rid of for good.
StopProgress ==
    /\ stopping \in {"sweep", "scopes", "stopped"} =>
        \A c \in Conns : upgrade[c] \notin {"connecting", "leaving"} 
    /\ stopping = "sweep" => \A c \in Conns : registry[c] # "none" => c \in sweep
    /\ stopping \in {"scopes", "stopped"} =>
        \A c \in Conns : registry[c] = "none" /\ scope[c] # "live"
    /\ stopping = "stopped" => \A c \in Conns : scope[c] # "closing"

GatewayInv ==
    /\ GatewayTypeOK
    /\ ScopesFollowUpgrades
    /\ NoZombie
    /\ TeardownOnce
    /\ ClosedScopeAbortsCalls
    /\ StopProgress

\* disconnect ends whatever is left of a connection, from any phase.
LEMMA DisconnectedInv ==
    ASSUME GatewayInv, NEW c \in Conns, Disconnected(c), stopping' = stopping,
           UNCHANGED <<upgrade, running, aborted>>,
           sweep' = sweep \/ (sweep' = sweep \ {c})
    PROVE  GatewayInv'
<1>. USE DEF GatewayInv
<1>1. GatewayTypeOK'
  BY DEF GatewayTypeOK, Disconnected, CloseScope
<1>2. ScopesFollowUpgrades'
  BY DEF GatewayTypeOK, ScopesFollowUpgrades, Disconnected, CloseScope
<1>3. NoZombie'
  BY DEF GatewayTypeOK, NoZombie, Disconnected, CloseScope
<1>4. TeardownOnce'
  BY DEF GatewayTypeOK, TeardownOnce, Disconnected, CloseScope
<1>5. ClosedScopeAbortsCalls'
  BY DEF GatewayTypeOK, ClosedScopeAbortsCalls, Disconnected, CloseScope
<1>6. StopProgress'
  BY DEF GatewayTypeOK, StopProgress, Disconnected, CloseScope
<1>. QED  BY <1>1, <1>2, <1>3, <1>4, <1>5, <1>6

\* Admission: an upgrade that outlives the handler makes no connection.
LEMMA AdmissionInv ==
    ASSUME GatewayInv, NEW c \in Conns,
           UpgradeBegins(c) \/ UpgradeFails(c) \/ UpgradeEnds(c) \/ UpgradeLeaves(c) \/ PeerOpens(c)
    PROVE  GatewayInv'
<1>. USE DEF GatewayInv, UpgradeBegins, UpgradeFails, UpgradeEnds, UpgradeLeaves, PeerOpens
<1>1. GatewayTypeOK'
  BY DEF GatewayTypeOK
<1>2. ScopesFollowUpgrades'
  BY DEF GatewayTypeOK, ScopesFollowUpgrades
<1>3. NoZombie'
  BY DEF GatewayTypeOK, NoZombie, ScopesFollowUpgrades
<1>4. TeardownOnce'
  BY DEF GatewayTypeOK, TeardownOnce, ScopesFollowUpgrades
<1>5. ClosedScopeAbortsCalls'
  BY DEF GatewayTypeOK, ClosedScopeAbortsCalls
<1>6. StopProgress'
  BY DEF GatewayTypeOK, StopProgress
<1>. QED  BY <1>1, <1>2, <1>3, <1>4, <1>5, <1>6

\* Calls and the end of a teardown.
LEMMA CallsInv ==
    ASSUME GatewayInv, NEW c \in Conns,
           OnRpcRequest(c) \/ RpcEnds(c) \/ TeardownEnds(c)
    PROVE  GatewayInv'
<1>. USE DEF GatewayInv, OnRpcRequest, RpcEnds, TeardownEnds
<1>1. GatewayTypeOK'
  BY DEF GatewayTypeOK
<1>2. ScopesFollowUpgrades'
  BY DEF GatewayTypeOK, ScopesFollowUpgrades, NoZombie
<1>3. NoZombie'
  BY DEF GatewayTypeOK, NoZombie
<1>4. TeardownOnce'
  BY DEF GatewayTypeOK, TeardownOnce
<1>5. ClosedScopeAbortsCalls'
  BY DEF GatewayTypeOK, ClosedScopeAbortsCalls, NoZombie
<1>6. StopProgress'
  BY DEF GatewayTypeOK, StopProgress
<1>. QED  BY <1>1, <1>2, <1>3, <1>4, <1>5, <1>6

\* The phases of the stop.
LEMMA StopInv ==
    ASSUME GatewayInv, StopServer \/ BeginSweep \/ StopScopes \/ Stopped
    PROVE  GatewayInv'
<1>. USE DEF GatewayInv, StopServer, BeginSweep, StopScopes, Stopped
<1>1. GatewayTypeOK'
  BY DEF GatewayTypeOK
<1>2. ScopesFollowUpgrades'
  BY DEF GatewayTypeOK, ScopesFollowUpgrades
<1>3. NoZombie'
  BY DEF GatewayTypeOK, NoZombie, StopProgress
<1>4. TeardownOnce'
  BY DEF GatewayTypeOK, TeardownOnce
<1>5. ClosedScopeAbortsCalls'
  BY DEF GatewayTypeOK, ClosedScopeAbortsCalls
<1>6. StopProgress'
  BY DEF GatewayTypeOK, StopProgress
<1>. QED  BY <1>1, <1>2, <1>3, <1>4, <1>5, <1>6

\* However connections end (reaped, closed by the peer, terminated, swept
\* by the stop) and however these ends interleave: a registered connection
\* has a session and a live scope, a scope is torn down once, its calls
\* are aborted, and a stopped server has nothing left.
THEOREM ConnectionsEndOnce == GatewaySpec => []GatewaySound
<1>1. GatewayInit => GatewayInv
  BY DEF GatewayInit, GatewayInv, GatewayTypeOK, ScopesFollowUpgrades, NoZombie, TeardownOnce,
         ClosedScopeAbortsCalls, StopProgress
<1>2. GatewayInv /\ [GatewayNext]_gatewayVars => GatewayInv'
  <2>. SUFFICES ASSUME GatewayInv, [GatewayNext]_gatewayVars PROVE GatewayInv'
    OBVIOUS
  <2>1. ASSUME NEW c \in Conns, Reap(c) \/ PeerCloses(c) \/ Terminate(c) \/ SweepOne(c)
        PROVE  GatewayInv'
    BY <2>1, DisconnectedInv DEF Reap, PeerCloses, Terminate, SweepOne
  <2>2. CASE UNCHANGED gatewayVars
    BY <2>2 DEF gatewayVars, GatewayInv, GatewayTypeOK, ScopesFollowUpgrades, NoZombie, TeardownOnce,
                ClosedScopeAbortsCalls, StopProgress
  <2>. QED  BY <2>1, <2>2, AdmissionInv, CallsInv, StopInv DEF GatewayNext
<1>3. GatewayInv => GatewaySound
  BY DEF GatewayInv, GatewayTypeOK, GatewaySound, ScopesFollowUpgrades, StopProgress, StoppedIsClean
<1>. QED  BY <1>1, <1>2, <1>3, PTL DEF GatewaySpec

-----------------------------------------------------------------------------
(* Subscriptions.                                                          *)

\* Subscribing (module PubSub).
Subscriber == [pc : {"unread", "joining", "live", "leaving", "gone"}, aborted : BOOLEAN, destroyed : BOOLEAN,
               since : Nat, heard : Nat, waiting : Nat, buffer : Nat, pumps : Nat, nulls : Nat]

\* One subscriber, at `pub` messages: a pump has room in the buffer, the
\* stream has not ended before its generator, and from its first read to
\* its abort it has heard all.
SubscriberSound(r, pub) ==
    /\ r \in Subscriber
    /\ r.pumps <= 1 /\ r.nulls <= 1 /\ r.buffer <= HighWaterMark
    /\ r.pc # "gone" => r.nulls = 0
    /\ r.pumps = 1 /\ r.pc # "gone" => r.buffer < HighWaterMark
    /\ r.pc = "unread" => r.heard = 0
    /\ r.pc \in {"joining", "live"} /\ ~r.aborted => r.heard = pub - r.since

\* The channel, by who is joining (J), live (V) and leaving (X): without a
\* listener; its SUBSCRIBE on the way, failed or done; or the last one
\* leaving, and nobody else there.
Channel(L, shared, cmds, heard, J, V, X) ==
    /\ L >= Cardinality(J \cup V \cup X)
    /\ \/ L = 0 /\ cmds = <<>>
       \/ L > 0 /\ shared = "pending" /\ cmds = <<"subscribe">> /\ V = {} /\ X = {}
       \/ L > 0 /\ shared = "failed" /\ cmds = <<>> /\ V = {} /\ X = {}
       \/ L > 0 /\ shared = "done" /\ cmds = <<>> /\ heard /\ X = {}
       \/ /\ L > 0 /\ shared = "done" /\ cmds = <<"unsubscribe">>
          /\ \E s \in X : J \cup V \cup X = {s}

Being(S, pc) == {s \in Subscribers : S[s].pc = pc}

SubscriptionInv ==
    /\ listeners \in Nat /\ published \in Nat /\ joinedLate \in BOOLEAN /\ subscribed \in BOOLEAN
    /\ subs \in [Subscribers -> Subscriber]
    /\ \A s \in Subscribers : SubscriberSound(subs[s], published)
    /\ ~joinedLate => Channel(listeners, subscribing, commands, subscribed, Being(subs, "joining"),
                              Being(subs, "live"), Being(subs, "leaving"))

\* What a move of one subscriber does to the sets.
LEMMA BeingMoves ==
    ASSUME NEW S \in [Subscribers -> Subscriber], NEW s \in Subscribers, NEW r \in Subscriber, NEW pc
    PROVE  Being([S EXCEPT ![s] = r], pc) =
               IF r.pc = pc THEN Being(S, pc) \cup {s} ELSE Being(S, pc) \ {s}
BY DEF Being

\* A subscriber that moves within its stream leaves the channel alone.
LEMMA StreamStep ==
    ASSUME SubscriptionInv, NEW s \in Subscribers, NEW r, SetSub(s, r), SubscriberSound(r, published),
           r.pc = subs[s].pc \/ (subs[s].pc = "unread" /\ r.pc = "gone"),
           UNCHANGED <<listeners, subscribing, commands, subscribed, published, joinedLate>>
    PROVE  SubscriptionInv'
<1>1. r \in Subscriber /\ subs \in [Subscribers -> Subscriber] /\ subs' = [subs EXCEPT ![s] = r]
  BY DEF SubscriberSound, SubscriptionInv, SetSub
<1>2. subs' \in [Subscribers -> Subscriber] /\ \A o \in Subscribers : SubscriberSound(subs'[o], published)
  BY <1>1 DEF SubscriptionInv
<1>3. ASSUME NEW pc \in {"joining", "live", "leaving"}  PROVE  Being(subs', pc) = Being(subs, pc)
  BY <1>1, <1>3 DEF Being
<1>. QED  BY <1>2, <1>3 DEF SubscriptionInv

\* The stream of a subscriber, short of joining and leaving.
LEMMA StreamKeeps ==
    ASSUME SubscriptionInv, NEW s \in Subscribers,
           \/ PumpSubscriber(s) \/ Consume(s) \/ CallerAborts(s) \/ Destroy(s)
    PROVE  SubscriptionInv'
<1>1. SubscriberSound(subs[s], published) /\ subs[s] \in Subscriber /\ published \in Nat
  BY DEF SubscriptionInv, SubscriberSound
<1>2. CASE PumpSubscriber(s)
  <2>1. subs[s].pumps = 1 /\ subs[s].waiting > 0 /\ subs[s].pc = "live" /\ subs[s].buffer < HighWaterMark
    BY <1>1, <1>2 DEF PumpSubscriber, SubscriberSound, Subscriber
  <2>2. CASE SetSub(s, [subs[s] EXCEPT !.waiting = @ - 1])
    <3> DEFINE r == [subs[s] EXCEPT !.waiting = @ - 1]
    <3>1. SubscriberSound(r, published) /\ r.pc = subs[s].pc
      BY <1>1, <2>1 DEF SubscriberSound, Subscriber
    <3>. HIDE DEF r
    <3>. QED  BY <1>2, <2>2, <3>1, StreamStep DEF PumpSubscriber, brokerVars, r
  <2>3. CASE SetSub(s, [subs[s] EXCEPT !.waiting = @ - 1, !.buffer = @ + 1,
                           !.pumps = IF subs[s].buffer + 1 >= HighWaterMark THEN @ - 1 ELSE @])
    <3> DEFINE k == IF subs[s].buffer + 1 >= HighWaterMark THEN subs[s].pumps - 1 ELSE subs[s].pumps
               r == [subs[s] EXCEPT !.waiting = @ - 1, !.buffer = @ + 1, !.pumps = k]
    <3>1. k \in Nat /\ k <= 1 /\ (k = 1 => subs[s].buffer + 1 < HighWaterMark)
          /\ subs[s].buffer + 1 <= HighWaterMark
      BY <1>1, <2>1, PubSubAssumption DEF Subscriber
    <3>2. SetSub(s, r)
      BY <2>3
    <3>. HIDE DEF k
    <3>3. SubscriberSound(r, published) /\ r.pc = subs[s].pc
      <4>1. r \in Subscriber /\ r.pc = subs[s].pc /\ r.pumps = k /\ r.nulls = subs[s].nulls
            /\ r.buffer = subs[s].buffer + 1 /\ r.aborted = subs[s].aborted
            /\ r.heard = subs[s].heard /\ r.since = subs[s].since
        <5> DEFINE w == subs[s].waiting - 1
                   b == subs[s].buffer + 1
                   q == [subs[s] EXCEPT !.waiting = w, !.buffer = b]
        <5>1. w \in Nat /\ b \in Nat
          BY <1>1, <2>1 DEF Subscriber
        <5>. HIDE DEF w, b
        <5>2. q \in Subscriber /\ q.pc = subs[s].pc /\ q.nulls = subs[s].nulls /\ q.buffer = b
              /\ q.aborted = subs[s].aborted /\ q.heard = subs[s].heard /\ q.since = subs[s].since
          BY <1>1, <5>1 DEF Subscriber
        <5>3. r = [q EXCEPT !.pumps = k]
          BY DEF w, b
        <5>. HIDE DEF q, r
        <5>. QED  BY <3>1, <5>2, <5>3 DEF Subscriber, b
      <4>. HIDE DEF r
      <4>. QED  BY <1>1, <2>1, <3>1, <4>1 DEF SubscriberSound
    <3>. HIDE DEF r
    <3>. QED  BY <1>2, <3>2, <3>3, StreamStep DEF PumpSubscriber, brokerVars
  <2>. QED  BY <1>2, <2>2, <2>3 DEF PumpSubscriber
<1>3. CASE Consume(s)
  <2> DEFINE r == [subs[s] EXCEPT !.buffer = @ - 1]
  <2>1. SubscriberSound(r, published) /\ r.pc = subs[s].pc
    BY <1>1, <1>3, PubSubAssumption DEF Consume, SubscriberSound, Subscriber
  <2>2. SetSub(s, r)
    BY <1>3 DEF Consume
  <2>. HIDE DEF r
  <2>. QED  BY <1>3, <2>1, <2>2, StreamStep DEF Consume, brokerVars
<1>4. CASE CallerAborts(s)
  <2> DEFINE r == [subs[s] EXCEPT !.aborted = TRUE]
  <2>1. SubscriberSound(r, published) /\ r.pc = subs[s].pc
    BY <1>1, <1>4 DEF CallerAborts, SubscriberSound, Subscriber
  <2>2. SetSub(s, r)
    BY <1>4 DEF CallerAborts
  <2>. HIDE DEF r
  <2>. QED  BY <1>4, <2>1, <2>2, StreamStep DEF CallerAborts, brokerVars
<1>5. CASE Destroy(s)
  <2> DEFINE d == [subs[s] EXCEPT !.aborted = TRUE, !.destroyed = TRUE]
             g == [d EXCEPT !.pc = "gone"]
  <2>1. SubscriberSound(d, published) /\ d.pc = subs[s].pc
    BY <1>1 DEF SubscriberSound, Subscriber
  <2>2. SubscriberSound(g, published) /\ g.pc = "gone"
    BY <1>1 DEF SubscriberSound, Subscriber
  <2>3. SetSub(s, d) \/ (subs[s].pc = "unread" /\ SetSub(s, g))
    BY <1>5, <2>1 DEF Destroy, Destroyed
  <2>. HIDE DEF d, g
  <2>. QED  BY <1>5, <2>1, <2>2, <2>3, StreamStep DEF Destroy, brokerVars
<1>. QED  BY <1>2, <1>3, <1>4, <1>5

\* A generator that is over.
LEMMA EndedSound ==
    ASSUME NEW r, NEW pub \in Nat, SubscriberSound(r, pub), r.pc # "gone"
    PROVE  SubscriberSound(Ended(r), pub) /\ Ended(r).pc = "gone"
<1> DEFINE k == IF r.destroyed THEN r.nulls ELSE r.nulls + r.pumps
           e == [r EXCEPT !.pc = "gone", !.waiting = 0, !.nulls = k]
<1>1. k \in Nat /\ k <= 1
  BY DEF SubscriberSound, Subscriber
<1>2. Ended(r) = e
  BY DEF Ended
<1>. HIDE DEF k
<1>3. e \in Subscriber /\ e.pc = "gone" /\ e.nulls = k /\ e.pumps = r.pumps /\ e.buffer = r.buffer
  BY <1>1 DEF SubscriberSound, Subscriber
<1>. HIDE DEF e
<1>4. SubscriberSound(e, pub)
  BY <1>1, <1>3 DEF SubscriberSound
<1>. QED  BY <1>2, <1>3, <1>4

\* read(): a later one pumps, the first one joins unless it is aborted.
LEMMA ReadKeeps ==
    ASSUME SubscriptionInv, NEW s \in Subscribers, ReadNext(s)
    PROVE  SubscriptionInv'
<1> DEFINE r == subs[s]
           a == [r EXCEPT !.pumps = @ + 1]
           j == [r EXCEPT !.pumps = @ + 1, !.pc = "joining", !.since = published]
<1>1. /\ SubscriberSound(r, published) /\ r \in Subscriber /\ published \in Nat /\ listeners \in Nat
      /\ subs \in [Subscribers -> Subscriber] /\ joinedLate \in BOOLEAN
  BY DEF SubscriptionInv, SubscriberSound
<1>2. r.pumps = 0 /\ r.buffer < HighWaterMark /\ r.nulls = 0
  BY DEF ReadNext, MayPump
<1>3. SubscriberSound(a, published) /\ a.pc = r.pc
  BY <1>1, <1>2 DEF SubscriberSound, Subscriber
<1>4. ASSUME r.pc = "unread"  PROVE  SubscriberSound(j, published) /\ j.pc = "joining" /\ j \in Subscriber
  <2>1. j \in Subscriber /\ j.pc = "joining" /\ j.pumps = 1 /\ j.nulls = 0 /\ j.buffer = r.buffer
        /\ j.heard = r.heard /\ j.since = published
    <3>1. a \in Subscriber /\ a.pumps = 1 /\ a.nulls = 0 /\ a.buffer = r.buffer /\ a.heard = r.heard
      BY <1>1, <1>2 DEF Subscriber
    <3>2. j = [a EXCEPT !.pc = "joining", !.since = published]
      OBVIOUS
    <3>. HIDE DEF a, j, r
    <3>. QED  BY <1>1, <3>1, <3>2 DEF Subscriber
  <2>2. r.heard = 0 /\ r.buffer <= HighWaterMark
    BY <1>1, <1>4 DEF SubscriberSound
  <2>. HIDE DEF j
  <2>. QED  BY <1>1, <1>2, <2>1, <2>2 DEF SubscriberSound
<1>5. CASE r.pc # "unread"
  <2>1. SetSub(s, a) /\ UNCHANGED <<listeners, subscribing, commands, subscribed, published, joinedLate>>
    BY <1>5 DEF ReadNext
  <2>. HIDE DEF a
  <2>. QED  BY <1>3, <2>1, StreamStep
<1>6. CASE r.pc = "unread" /\ r.aborted
  <2>1. SetSub(s, Ended(a)) /\ UNCHANGED <<listeners, subscribing, commands, subscribed, published, joinedLate>>
    BY <1>6 DEF ReadNext
  <2>2. SubscriberSound(Ended(a), published) /\ Ended(a).pc = "gone"
    <3>. HIDE DEF a
    <3>. QED  BY <1>1, <1>3, <1>6, EndedSound
  <2>. QED  BY <1>6, <2>1, <2>2, StreamStep
<1>7. CASE r.pc = "unread" /\ ~r.aborted
  <2>1. /\ subs' = [subs EXCEPT ![s] = j] /\ listeners' = listeners + 1 /\ published' = published
        /\ subscribed' = subscribed
        /\ joinedLate' = (joinedLate \/ \E o \in Subscribers : subs[o].pc = "leaving")
        /\ listeners = 0 => subscribing' = "pending" /\ commands' = Append(commands, "subscribe")
        /\ listeners # 0 => subscribing' = subscribing /\ commands' = commands
    BY <1>7 DEF ReadNext, SetSub
  <2>2. j.pc = "joining" /\ SubscriberSound(j, published) /\ j \in Subscriber
    BY <1>4, <1>7
  <2>. HIDE DEF j
  <2>3. subs' \in [Subscribers -> Subscriber] /\ \A o \in Subscribers : SubscriberSound(subs'[o], published)
    BY <1>1, <2>1, <2>2 DEF SubscriptionInv
  <2> DEFINE J == Being(subs, "joining")
             V == Being(subs, "live")
             X == Being(subs, "leaving")
  <2>4. /\ Being(subs', "joining") = J \cup {s} /\ Being(subs', "live") = V \ {s}
        /\ Being(subs', "leaving") = X \ {s} /\ s \notin J \cup V \cup X
    <3>1. s \notin J \cup V \cup X
      BY <1>7 DEF Being
    <3>2. \A pc : Being(subs', pc) = IF j.pc = pc THEN Being(subs, pc) \cup {s} ELSE Being(subs, pc) \ {s}
      <4>1. \A pc : Being([subs EXCEPT ![s] = j], pc) =
                        IF j.pc = pc THEN Being(subs, pc) \cup {s} ELSE Being(subs, pc) \ {s}
        BY <1>1, <2>2, BeingMoves
      <4>. QED  BY <2>1, <4>1
    <3>. QED  BY <2>2, <3>1, <3>2
  <2>5. ASSUME ~joinedLate'
        PROVE  Channel(listeners', subscribing', commands', subscribed', J \cup {s}, V, X)
    <3>1. ~joinedLate /\ X = {}
      BY <1>1, <2>1, <2>5 DEF Being
    <3>2. Channel(listeners, subscribing, commands, subscribed, J, V, X)
      BY <3>1 DEF SubscriptionInv
    <3>3. IsFiniteSet(J \cup V \cup X)
      BY PubSubAssumption, FS_Subset DEF Being
    <3>4. Cardinality((J \cup V \cup X) \cup {s}) = Cardinality(J \cup V \cup X) + 1
      BY <2>4, <3>3, FS_AddElement
    <3>5. Cardinality((J \cup {s}) \cup V \cup X) = Cardinality(J \cup V \cup X) + 1
      <4>1. (J \cup {s}) \cup V \cup X = (J \cup V \cup X) \cup {s}
        OBVIOUS
      <4>. QED  BY <3>4, <4>1, Zenon
    <3>6. Cardinality(J \cup V \cup X) \in Nat /\ (Cardinality(J \cup V \cup X) = 0 => J \cup V \cup X = {})
      BY <3>3, FS_CardinalityType, FS_EmptySet
    <3>. HIDE DEF J, V, X
    <3>7. CASE listeners = 0
      <4>1. commands = <<>> /\ V = {}
        BY <3>2, <3>6, <3>7 DEF Channel
      <4>2. commands' = <<"subscribe">>
        BY <2>1, <3>7, <4>1
      <4>. QED  BY <1>1, <2>1, <3>1, <3>2, <3>4, <3>5, <3>6, <3>7, <4>1, <4>2 DEF Channel
    <3>8. CASE listeners # 0
      <4>1. listeners' > 0 /\ listeners' >= Cardinality((J \cup {s}) \cup V \cup X)
        <5>1. listeners >= Cardinality(J \cup V \cup X)
          BY <3>2 DEF Channel
        <5>2. \A n, m \in Nat : n >= m => n + 1 > 0 /\ n + 1 >= m + 1
          OBVIOUS
        <5>. QED  BY <1>1, <2>1, <3>5, <3>6, <5>1, <5>2
      <4>. QED  BY <1>1, <2>1, <3>1, <3>2, <3>8, <4>1 DEF Channel
    <3>. QED  BY <3>7, <3>8
  <2>6. V \ {s} = V /\ X \ {s} = X
    BY <2>4
  <2>7. listeners' \in Nat /\ joinedLate' \in BOOLEAN
    BY <1>1, <2>1
  <2>. QED  BY <1>1, <2>1, <2>3, <2>4, <2>5, <2>6, <2>7 DEF SubscriptionInv
<1>. QED  BY <1>5, <1>6, <1>7

\* Who is on the channel: finitely many, each in one way.
LEMMA MembersFinite ==
    LET A == Being(subs, "joining") \cup Being(subs, "live") \cup Being(subs, "leaving")
    IN  /\ IsFiniteSet(A) /\ Cardinality(A) \in Nat
        /\ \A s \in A : Cardinality(A \ {s}) = Cardinality(A) - 1 /\ Cardinality(A) > 0
        /\ \A s : IsFiniteSet(A \ {s}) /\ (Cardinality(A \ {s}) = 0 => A \ {s} = {})
<1> DEFINE A == Being(subs, "joining") \cup Being(subs, "live") \cup Being(subs, "leaving")
<1>1. IsFiniteSet(A)
  BY PubSubAssumption, FS_Subset DEF Being
<1>. HIDE DEF A
<1>2. Cardinality(A) \in Nat
  BY <1>1, FS_CardinalityType
<1>3. ASSUME NEW s \in A  PROVE  Cardinality(A \ {s}) = Cardinality(A) - 1 /\ Cardinality(A) > 0
  <2>1. Cardinality(A \ {s}) = Cardinality(A) - 1
    BY <1>1, FS_RemoveElement
  <2>2. Cardinality(A) # 0
    BY <1>1, FS_EmptySet
  <2>. QED  BY <1>2, <2>1, <2>2
<1>4. ASSUME NEW s  PROVE  IsFiniteSet(A \ {s}) /\ (Cardinality(A \ {s}) = 0 => A \ {s} = {})
  <2>1. IsFiniteSet(A \ {s})
    BY <1>1, FS_Subset
  <2>. QED  BY <2>1, FS_EmptySet
<1>. QED  BY <1>1, <1>2, <1>3, <1>4 DEF A

\* A subscriber that joins, leaves or ends changes the channel.
LEMMA MemberStep ==
    ASSUME SubscriptionInv, NEW s \in Subscribers, NEW r, subs' = [subs EXCEPT ![s] = r],
           SubscriberSound(r, published), published' = published, joinedLate' = joinedLate,
           listeners' \in Nat, subscribed' \in BOOLEAN,
           NEW J, NEW V, NEW X,
           J = IF r.pc = "joining" THEN Being(subs, "joining") \cup {s} ELSE Being(subs, "joining") \ {s},
           V = IF r.pc = "live" THEN Being(subs, "live") \cup {s} ELSE Being(subs, "live") \ {s},
           X = IF r.pc = "leaving" THEN Being(subs, "leaving") \cup {s} ELSE Being(subs, "leaving") \ {s},
           ~joinedLate => Channel(listeners', subscribing', commands', subscribed', J, V, X)
    PROVE  SubscriptionInv'
<1>1. r \in Subscriber /\ subs \in [Subscribers -> Subscriber] /\ published \in Nat /\ joinedLate \in BOOLEAN
  BY DEF SubscriberSound, SubscriptionInv
<1>2. subs' \in [Subscribers -> Subscriber] /\ \A o \in Subscribers : SubscriberSound(subs'[o], published)
  BY <1>1 DEF SubscriptionInv
<1>3. \A pc : Being(subs', pc) = IF r.pc = pc THEN Being(subs, pc) \cup {s} ELSE Being(subs, pc) \ {s}
  <2>1. \A pc : Being([subs EXCEPT ![s] = r], pc) =
                    IF r.pc = pc THEN Being(subs, pc) \cup {s} ELSE Being(subs, pc) \ {s}
    BY <1>1, BeingMoves
  <2>. QED  BY <2>1
<1>4. Being(subs', "joining") = J /\ Being(subs', "live") = V /\ Being(subs', "leaving") = X
  BY <1>3
<1>. QED  BY <1>1, <1>2, <1>4 DEF SubscriptionInv

\* The SUBSCRIBE is answered: a joining subscriber is live, or fails.
LEMMA JoinKeeps ==
    ASSUME SubscriptionInv, NEW s \in Subscribers, Joined(s) \/ JoinFails(s)
    PROVE  SubscriptionInv'
<1> DEFINE J == Being(subs, "joining")
           V == Being(subs, "live")
           X == Being(subs, "leaving")
           A == J \cup V \cup X
           l == [subs[s] EXCEPT !.pc = "live"]
           d == [subs[s] EXCEPT !.aborted = TRUE, !.destroyed = TRUE, !.pc = "gone"]
<1>1. /\ SubscriberSound(subs[s], published) /\ subs[s] \in Subscriber /\ published \in Nat
      /\ listeners \in Nat /\ subscribed \in BOOLEAN
  BY DEF SubscriptionInv, SubscriberSound
<1>2. /\ subs[s].pc = "joining" /\ s \in J /\ s \notin V \cup X /\ s \in A
      /\ UNCHANGED <<listeners, subscribing, commands, subscribed, published, joinedLate>>
  BY DEF Joined, JoinFails, brokerVars, Being
<1>3. /\ Cardinality(A) \in Nat /\ Cardinality(A \ {s}) = Cardinality(A) - 1 /\ Cardinality(A) > 0
  BY <1>2, MembersFinite
<1>4. ~joinedLate => Channel(listeners, subscribing, commands, subscribed, J, V, X)
  BY DEF SubscriptionInv
<1>5. ~joinedLate => listeners > 0 /\ listeners >= Cardinality(A)
  BY <1>1, <1>3, <1>4 DEF Channel
<1>6. CASE Joined(s)
  <2>1. SubscriberSound(l, published) /\ l.pc = "live"
    BY <1>1, <1>2 DEF SubscriberSound, Subscriber
  <2>2. SetSub(s, l) /\ subscribing = "done"
    BY <1>6 DEF Joined
  <2>. HIDE DEF l
  <2>3. (J \ {s}) \cup (V \cup {s}) \cup (X \ {s}) = A /\ X \ {s} = X
    BY <1>2
  <2>. HIDE DEF J, V, X
  <2>4. ~joinedLate => Channel(listeners, subscribing, commands, subscribed, J \ {s}, V \cup {s}, X \ {s})
    <3>1. SUFFICES ASSUME ~joinedLate  PROVE  Channel(listeners, subscribing, commands, subscribed, J \ {s}, V \cup {s}, X)
      BY <2>3
    <3>2. commands = <<>> /\ subscribed /\ X = {}
      BY <1>2, <1>4, <1>5, <2>2, <3>1 DEF Channel
    <3>3. Cardinality((J \ {s}) \cup (V \cup {s}) \cup X) = Cardinality(A)
      BY <2>3
    <3>. HIDE DEF A
    <3>. QED  BY <1>5, <2>2, <3>1, <3>2, <3>3 DEF Channel
  <2>. QED  BY <1>1, <1>2, <2>1, <2>2, <2>4, MemberStep DEF SetSub, J, V, X
<1>7. CASE JoinFails(s)
  <2>1. SubscriberSound(d, published) /\ d.pc = "gone"
    BY <1>1, <1>2 DEF SubscriberSound, Subscriber
  <2>2. SetSub(s, d) /\ subscribing = "failed"
    BY <1>7 DEF JoinFails, Destroyed
  <2>. HIDE DEF d
  <2>3. (J \ {s}) \cup (V \ {s}) \cup (X \ {s}) = A \ {s} /\ X \ {s} = X /\ V \ {s} = V
    BY <1>2
  <2>. HIDE DEF J, V, X
  <2>4. ~joinedLate => Channel(listeners, subscribing, commands, subscribed, J \ {s}, V \ {s}, X \ {s})
    <3>1. SUFFICES ASSUME ~joinedLate
                   PROVE  Channel(listeners, subscribing, commands, subscribed, J \ {s}, V \ {s}, X \ {s})
      OBVIOUS
    <3>2. commands = <<>> /\ X = {} /\ V = {}
      BY <1>2, <1>4, <1>5, <2>2, <3>1 DEF Channel
    <3>3. Cardinality((J \ {s}) \cup (V \ {s}) \cup (X \ {s})) = Cardinality(A) - 1
      BY <1>3, <2>3
    <3>. HIDE DEF A
    <3>4. listeners >= Cardinality(A) - 1
      BY <1>1, <1>3, <1>5, <3>1
    <3>. QED  BY <1>5, <2>2, <2>3, <3>1, <3>2, <3>3, <3>4 DEF Channel
  <2>. QED  BY <1>1, <1>2, <2>1, <2>2, <2>4, MemberStep DEF SetSub, J, V, X
<1>. QED  BY <1>6, <1>7

\* A subscriber leaves: the last one unsubscribes for the channel.
LEMMA LeaveKeeps ==
    ASSUME SubscriptionInv, NEW s \in Subscribers, Leave(s)
    PROVE  SubscriptionInv'
<1> DEFINE J == Being(subs, "joining")
           V == Being(subs, "live")
           X == Being(subs, "leaving")
           A == J \cup V \cup X
           w == [subs[s] EXCEPT !.pc = "leaving"]
           e == Ended(subs[s])
<1>1. /\ SubscriberSound(subs[s], published) /\ subs[s] \in Subscriber /\ published \in Nat
      /\ listeners \in Nat /\ subscribed \in BOOLEAN
  BY DEF SubscriptionInv, SubscriberSound
<1>2. /\ subs[s].pc = "live" /\ s \in V /\ s \notin J \cup X /\ s \in A
      /\ UNCHANGED <<subscribing, subscribed, published, joinedLate>>
  BY DEF Leave, Being
<1>3. /\ Cardinality(A) \in Nat /\ Cardinality(A \ {s}) = Cardinality(A) - 1 /\ Cardinality(A) > 0
      /\ (Cardinality(A \ {s}) = 0 => A \ {s} = {})
  BY <1>2, MembersFinite
<1>4. ~joinedLate => Channel(listeners, subscribing, commands, subscribed, J, V, X)
  BY DEF SubscriptionInv
<1>5. ~joinedLate => listeners > 0 /\ listeners >= Cardinality(A)
  BY <1>1, <1>3, <1>4 DEF Channel
<1>6. ASSUME ~joinedLate  PROVE  commands = <<>> /\ subscribing = "done" /\ subscribed /\ X = {}
  <2>. HIDE DEF J, V, X
  <2>. QED  BY <1>2, <1>4, <1>5, <1>6 DEF Channel
<1>7. SubscriberSound(e, published) /\ e.pc = "gone" /\ SubscriberSound(w, published) /\ w.pc = "leaving"
  <2>1. SubscriberSound(e, published) /\ e.pc = "gone"
    BY <1>1, <1>2, EndedSound
  <2>2. SubscriberSound(w, published) /\ w.pc = "leaving"
    BY <1>1, <1>2 DEF SubscriberSound, Subscriber
  <2>. QED  BY <2>1, <2>2
<1>8. /\ (J \ {s}) \cup (V \ {s}) \cup (X \ {s}) = A \ {s} /\ X \ {s} = X
      /\ (J \ {s}) \cup (V \ {s}) \cup (X \cup {s}) = A
  BY <1>2
<1>9. CASE subs' = [subs EXCEPT ![s] = e] /\ listeners = 0 /\ listeners' = listeners /\ commands' = commands
  <2>1. joinedLate
    BY <1>5, <1>9
  <2>. HIDE DEF e
  <2>. QED  BY <1>1, <1>2, <1>7, <1>9, <2>1, MemberStep
<1>10. CASE /\ subs' = [subs EXCEPT ![s] = w] /\ listeners <= 1 /\ listeners # 0
            /\ listeners' = listeners /\ commands' = Append(commands, "unsubscribe")
  <2>. HIDE DEF w, J, V, X
  <2>1. ASSUME ~joinedLate
        PROVE  Channel(listeners', subscribing', commands', subscribed', J \ {s}, V \ {s}, X \cup {s})
    <3>1. commands' = <<"unsubscribe">> /\ subscribing' = "done"
      BY <1>2, <1>6, <1>10, <2>1
    <3>. HIDE DEF A
    <3>2. A = {s}
      <4>1. Cardinality(A \ {s}) = 0
        BY <1>1, <1>3, <1>5, <1>10, <2>1
      <4>. QED  BY <1>2, <1>3, <4>1
    <3>3. listeners' > 0 /\ listeners' >= Cardinality((J \ {s}) \cup (V \ {s}) \cup (X \cup {s}))
      BY <1>5, <1>8, <1>10, <2>1
    <3>. QED  BY <1>8, <3>1, <3>2, <3>3 DEF Channel
  <2>. QED  BY <1>1, <1>2, <1>7, <1>10, <2>1, MemberStep DEF J, V, X
<1>11. CASE /\ subs' = [subs EXCEPT ![s] = e] /\ listeners > 1
            /\ listeners' = listeners - 1 /\ commands' = commands
  <2>. HIDE DEF e, J, V, X
  <2>1. ASSUME ~joinedLate
        PROVE  Channel(listeners', subscribing', commands', subscribed', J \ {s}, V \ {s}, X \ {s})
    <3>1. listeners' > 0 /\ listeners' >= Cardinality(A \ {s})
      <4>. HIDE DEF A
      <4>. QED  BY <1>1, <1>3, <1>5, <1>11, <2>1
    <3>2. listeners' >= Cardinality((J \ {s}) \cup (V \ {s}) \cup (X \ {s}))
      BY <1>8, <3>1
    <3>3. X \ {s} = {} /\ commands' = <<>> /\ subscribing' = "done" /\ subscribed'
      BY <1>2, <1>6, <1>11, <2>1
    <3>. QED  BY <3>1, <3>2, <3>3 DEF Channel
  <2>2. listeners' \in Nat
    BY <1>1, <1>11
  <2>. QED  BY <1>1, <1>2, <1>7, <1>11, <2>1, <2>2, MemberStep DEF J, V, X
<1>12. listeners # 0 /\ ~(listeners <= 1) => listeners > 1
  BY <1>1
<1>. QED  BY <1>9, <1>10, <1>11, <1>12 DEF Leave, LastOne, SetSub

\* The broker takes a command.
LEMMA BrokerKeeps ==
    ASSUME SubscriptionInv, BrokerTakes
    PROVE  SubscriptionInv'
<1> DEFINE J == Being(subs, "joining")
           V == Being(subs, "live")
           X == Being(subs, "leaving")
           A == J \cup V \cup X
<1>1. /\ published \in Nat /\ listeners \in Nat /\ subscribed \in BOOLEAN
      /\ ~joinedLate => Channel(listeners, subscribing, commands, subscribed, J, V, X)
      /\ published' = published /\ joinedLate' = joinedLate /\ commands # <<>> /\ commands' = Tail(commands)
  BY DEF SubscriptionInv, BrokerTakes
<1>2. CASE /\ Head(commands) = "subscribe" /\ listeners' = listeners /\ subs' = subs
           /\ \/ subscribed' = TRUE /\ subscribing' = "done"
              \/ subscribing' = "failed" /\ subscribed' = subscribed
  <2>. HIDE DEF J, V, X
  <2>1. ASSUME ~joinedLate  PROVE  Channel(listeners', subscribing', commands', subscribed', J, V, X)
    <3>1. commands = <<"subscribe">> /\ listeners > 0 /\ V = {} /\ X = {}
      BY <1>1, <1>2, <2>1 DEF Channel
    <3>2. commands' = <<>>
      BY <1>1, <3>1
    <3>. QED  BY <1>1, <1>2, <2>1, <3>1, <3>2 DEF Channel
  <2>. QED  BY <1>1, <1>2, <2>1 DEF SubscriptionInv, J, V, X
<1>3. ASSUME Head(commands) = "unsubscribe", subscribed' = FALSE, listeners' = 0, NEW s \in Subscribers,
             subs[s].pc = "leaving", subs' = [subs EXCEPT ![s] = Ended(subs[s])]
      PROVE  SubscriptionInv'
  <2> DEFINE e == Ended(subs[s])
  <2>1. SubscriberSound(e, published) /\ e.pc = "gone"
    <3>1. SubscriberSound(subs[s], published)
      BY DEF SubscriptionInv
    <3>. QED  BY <1>1, <1>3, <3>1, EndedSound
  <2>2. s \in X
    BY <1>3 DEF Being
  <2>3. Cardinality({}) = 0
    BY FS_EmptySet
  <2>. HIDE DEF J, V, X, e
  <2>4. ASSUME ~joinedLate
        PROVE  Channel(listeners', subscribing', commands', subscribed', J \ {s}, V \ {s}, X \ {s})
    <3>1. commands = <<"unsubscribe">> /\ A = {s}
      BY <1>1, <1>3, <2>2, <2>4 DEF Channel
    <3>2. commands' = <<>> /\ (J \ {s}) \cup (V \ {s}) \cup (X \ {s}) = {}
      BY <1>1, <3>1
    <3>3. 0 >= Cardinality((J \ {s}) \cup (V \ {s}) \cup (X \ {s}))
      <4>1. Cardinality((J \ {s}) \cup (V \ {s}) \cup (X \ {s})) = 0
        BY <2>3, <3>2, Zenon
      <4>. QED  BY <4>1
    <3>. QED  BY <1>3, <3>2, <3>3 DEF Channel
  <2>5. subs' = [subs EXCEPT ![s] = e] /\ listeners' \in Nat /\ subscribed' \in BOOLEAN
    BY <1>3 DEF e
  <2>. QED  BY <1>1, <2>1, <2>4, <2>5, MemberStep DEF J, V, X
<1>. QED  BY <1>2, <1>3 DEF BrokerTakes, SetSub

\* A message reaches every listener attached.
LEMMA PublishKeeps ==
    ASSUME SubscriptionInv, Publish
    PROVE  SubscriptionInv'
<1>1. /\ published \in Nat /\ published' = published + 1 /\ subs \in [Subscribers -> Subscriber]
      /\ UNCHANGED <<listeners, subscribing, commands, subscribed, joinedLate>>
  BY DEF SubscriptionInv, Publish
<1>2. ASSUME NEW s \in Subscribers
      PROVE  SubscriberSound(subs'[s], published') /\ subs'[s].pc = subs[s].pc
  <2>1. SubscriberSound(subs[s], published) /\ subs[s] \in Subscriber
    BY DEF SubscriptionInv, SubscriberSound
  <2>2. subs'[s] = IF s \in Attached THEN [subs[s] EXCEPT !.heard = @ + 1, !.waiting = @ + 1] ELSE subs[s]
    BY DEF Publish
  <2>3. CASE s \in Attached
    <3> DEFINE r == [subs[s] EXCEPT !.heard = @ + 1, !.waiting = @ + 1]
    <3>1. /\ r \in Subscriber /\ r.pc = subs[s].pc /\ r.heard = subs[s].heard + 1 /\ r.since = subs[s].since
          /\ r.pumps = subs[s].pumps /\ r.nulls = subs[s].nulls /\ r.buffer = subs[s].buffer
      <4> DEFINE h == subs[s].heard + 1
                 w == subs[s].waiting + 1
      <4>1. h \in Nat /\ w \in Nat /\ r = [subs[s] EXCEPT !.heard = h, !.waiting = w]
        BY <2>1 DEF Subscriber
      <4>. HIDE DEF h, w, r
      <4>2. /\ r \in Subscriber /\ r.pc = subs[s].pc /\ r.heard = h /\ r.since = subs[s].since
            /\ r.pumps = subs[s].pumps /\ r.nulls = subs[s].nulls /\ r.buffer = subs[s].buffer
        BY <2>1, <4>1 DEF Subscriber
      <4>. QED  BY <4>2 DEF h
    <3>2. subs'[s] = r
      BY <2>2, <2>3
    <3>3. subs[s].heard = published - subs[s].since /\ subs[s].heard \in Nat /\ subs[s].since \in Nat
      BY <2>1, <2>3 DEF Attached, SubscriberSound, Subscriber
    <3>4. r.heard = published' - r.since
      BY <1>1, <3>1, <3>3
    <3>5. subs[s].pc # "unread"
      BY <2>3 DEF Attached
    <3>. HIDE DEF r
    <3>. QED  BY <2>1, <3>1, <3>2, <3>4, <3>5 DEF SubscriberSound
  <2>4. CASE s \notin Attached
    BY <2>1, <2>2, <2>4 DEF Attached, SubscriberSound
  <2>. QED  BY <2>3, <2>4
<1>3. subs' \in [Subscribers -> Subscriber]
  <2>1. subs' = [s \in Subscribers |-> subs'[s]]
    BY DEF Publish
  <2>. QED  BY <1>2, <2>1 DEF SubscriberSound
<1>4. ASSUME NEW pc  PROVE  Being(subs', pc) = Being(subs, pc)
  BY <1>2 DEF Being
<1>. QED  BY <1>1, <1>2, <1>3, <1>4 DEF SubscriptionInv

\* A subscriber hears all that was published since its first read, through
\* one pump, and the others' coming and going does not unsubscribe it: for
\* any number of subscribers (redis.ts, manager.ts).
THEOREM SubscribersHear == PubSubSpec => []SubscriptionsSound
<1>1. PubSubInit => SubscriptionInv
  <2>1. SUFFICES ASSUME PubSubInit  PROVE  SubscriptionInv
    OBVIOUS
  <2>2. ASSUME NEW s \in Subscribers  PROVE  SubscriberSound(subs[s], 0) /\ subs[s].pc = "unread"
    BY <2>1, PubSubAssumption DEF PubSubInit, SubscriberSound, Subscriber
  <2>3. subs \in [Subscribers -> Subscriber]
    BY <2>1, <2>2 DEF PubSubInit, SubscriberSound
  <2>4. Being(subs, "joining") = {} /\ Being(subs, "live") = {} /\ Being(subs, "leaving") = {}
    BY <2>2 DEF Being
  <2>5. Cardinality({} \cup {} \cup {}) = 0
    <3>1. {} \cup {} \cup {} = {}
      OBVIOUS
    <3>. QED  BY <3>1, FS_EmptySet
  <2>6. Channel(0, "none", <<>>, FALSE, {}, {}, {})
    BY <2>5 DEF Channel
  <2>. QED  BY <2>1, <2>2, <2>3, <2>4, <2>6 DEF PubSubInit, SubscriptionInv
<1>2. SubscriptionInv /\ [PubSubNext]_pubsubVars => SubscriptionInv'
  <2>1. ASSUME SubscriptionInv, UNCHANGED pubsubVars  PROVE  SubscriptionInv'
    BY <2>1 DEF SubscriptionInv, pubsubVars, Being
  <2>. QED  BY <2>1, ReadKeeps, StreamKeeps, JoinKeeps, LeaveKeeps, BrokerKeeps, PublishKeeps DEF PubSubNext
<1>3. SubscriptionInv => SubscriptionsSound
  <2>1. SUFFICES ASSUME SubscriptionInv  PROVE  LeaverKeepsOthers /\ NothingMissed /\ OnePump
    BY DEF SubscriptionsSound
  <2>2. NothingMissed /\ OnePump
    BY <2>1 DEF SubscriptionInv, SubscriberSound, NothingMissed, OnePump, LiveSubscribers
  <2>3. ASSUME ~joinedLate, NEW s \in Subscribers, LiveSubscribers(s)
        PROVE  subscribed /\ commands = <<>> /\ listeners >= Cardinality({o \in Subscribers : LiveSubscribers(o)})
    <3> DEFINE J == Being(subs, "joining")
               V == Being(subs, "live")
               X == Being(subs, "leaving")
               A == J \cup V \cup X
               T == {o \in Subscribers : LiveSubscribers(o)}
    <3>1. s \in V /\ s \notin X /\ s \in A /\ T \subseteq A
      BY <2>3 DEF Being, LiveSubscribers
    <3>2. Cardinality(A) \in Nat /\ Cardinality(A) > 0 /\ IsFiniteSet(A)
      BY <3>1, MembersFinite
    <3>3. Cardinality(T) <= Cardinality(A) /\ Cardinality(T) \in Nat
      <4>. HIDE DEF A, T
      <4>. QED  BY <3>1, <3>2, FS_Subset, FS_CardinalityType
    <3>4. Channel(listeners, subscribing, commands, subscribed, J, V, X) /\ listeners \in Nat
      BY <2>1, <2>3 DEF SubscriptionInv
    <3>. HIDE DEF J, V, X
    <3>5. listeners >= Cardinality(A) /\ subscribed /\ commands = <<>>
      <4>1. listeners >= Cardinality(A) /\ listeners # 0
        BY <3>2, <3>4 DEF Channel
      <4>. QED  BY <3>1, <3>4, <4>1 DEF Channel
    <3>. HIDE DEF A, T
    <3>6. listeners >= Cardinality(T)
      BY <3>2, <3>3, <3>4, <3>5
    <3>. QED  BY <3>5, <3>6 DEF T
  <2>. QED  BY <2>2, <2>3 DEF LeaverKeepsOthers
<1>. QED  BY <1>1, <1>2, <1>3, PTL DEF PubSubSpec

-----------------------------------------------------------------------------
(* HTTP responses.                                                         *)

\* The response of one HTTP request (module HttpResponse).
HttpTyped ==
    /\ stage \in {"routing", "handling", "responding", "pump", "drain", "failed", "done"}
    /\ torn \in BOOLEAN
    /\ upload \in [left : Nat, received : Nat, kept : Nat, state : {"open", "closed", "capped", "errored"}]
    /\ reply \in [status : Nat, path : {"empty", "fixed", "chunked"}, declared : Nat, size : Nat]
    /\ source \in [left : Nat, fails : BOOLEAN, cancelled : BOOLEAN]
    /\ piece \in [from : Nat, size : Nat]
    /\ written \in Nat /\ skewed \in BOOLEAN
    /\ outcome \in {"open", "ended", "closed"}

UploadSound ==
    /\ upload.kept <= upload.received /\ upload.kept <= MaxBody
    /\ upload.state = "capped" => upload.received > MaxBody
    /\ reply.status = 413 => upload.received > MaxBody

\* Where the bytes of the body are: written, in the piece at hand or in the
\* source.
BytesAccounted ==
    /\ stage \in {"routing", "handling", "responding"} => written = 0
    /\ reply.path = "empty" => source.left = 0 /\ reply.declared = 0 /\ reply.size = 0
    /\ stage \in {"routing", "handling"} => reply.path = "empty"
    /\ reply.path # "empty" /\ stage \in {"responding", "pump"} => written + source.left = reply.size
    /\ reply.path = "fixed" /\ stage = "drain" =>
         /\ piece.from <= written /\ written <= piece.from + piece.size
         /\ piece.from + piece.size + source.left = reply.size
    /\ reply.path = "chunked" /\ stage = "drain" => written + source.left = reply.size

PumpSound ==
    /\ stage \in {"pump", "drain", "failed"} => reply.path # "empty"
    /\ outcome # "open" => stage = "done"
    /\ source.cancelled => torn

HttpInv == HttpTyped /\ UploadSound /\ BytesAccounted /\ PumpSound /\ EndedIsWhole /\ AbortFreesChunkedPump

\* tryEnd: what is sent comes next, and the last byte ends the response.
LEMMA TryEndKeeps ==
    ASSUME HttpInv, NEW base, NEW rest \in [from : Nat, size : Nat], TryEnd(base, rest), ~torn,
           reply.path = "fixed", outcome = "open", rest.from = written,
           source' \in [left : Nat, fails : BOOLEAN, cancelled : BOOLEAN],
           source'.cancelled = source.cancelled,
           piece' \in [from : Nat, size : Nat], piece'.from <= written,
           piece'.from + piece'.size = rest.from + rest.size,
           rest.from + rest.size + source'.left = reply.size,
           UNCHANGED <<route, torn, upload, reply, firstOnly>>
    PROVE  HttpInv'
<1>1. PICK n \in 0..rest.size :
        /\ written' = written + n /\ skewed' = (skewed \/ rest.from # written)
        /\ n < rest.size => stage' = "drain" /\ outcome' = outcome
        /\ n = rest.size => \/ written + n >= reply.declared /\ stage' = "done" /\ outcome' = "ended"
                            \/ stage' = "pump" /\ outcome' = outcome
  BY DEF TryEnd, Sends
<1>2. /\ written \in Nat /\ rest.size \in Nat /\ n \in Nat /\ rest.from \in Nat /\ reply.declared \in Nat
      /\ reply.size \in Nat
      /\ source'.left \in Nat /\ piece'.from \in Nat /\ piece'.size \in Nat /\ ~skewed
  BY DEF HttpInv, HttpTyped, EndedIsWhole
<1>3. /\ skewed' \in BOOLEAN /\ ~skewed' /\ written' \in Nat
  <2>1. skewed' = FALSE
    BY <1>1, <1>2, Zenon
  <2>. QED  BY <1>1, <1>2, <2>1
<1>4. UploadSound' /\ (source'.cancelled => torn') /\ torn' = torn /\ reply' = reply
  BY DEF HttpInv, UploadSound, PumpSound
<1>5. stage' \in {"drain", "done", "pump"} /\ outcome' \in {"open", "ended"} => HttpTyped'
  BY <1>3, <1>4 DEF HttpInv, HttpTyped
<1>6. CASE n < rest.size
  <2>1. stage' = "drain" /\ outcome' = "open"
    BY <1>1, <1>6
  <2>2. /\ piece'.from <= written' /\ written' <= piece'.from + piece'.size
        /\ piece'.from + piece'.size + source'.left = reply.size
    BY <1>1, <1>2, <1>6
  <2>. QED  BY <1>3, <1>4, <1>5, <2>1, <2>2 DEF HttpInv, BytesAccounted, PumpSound, EndedIsWhole, Overrun,
                AbortFreesChunkedPump
<1>7. CASE n = rest.size /\ written + n >= reply.declared /\ stage' = "done" /\ outcome' = "ended"
  <2>2. (written' = reply.size \/ reply.size > reply.declared) /\ written' >= reply.declared
    BY <1>1, <1>2, <1>7
  <2>. QED  BY <1>3, <1>4, <1>5, <1>7, <2>2 DEF HttpInv, BytesAccounted, PumpSound, EndedIsWhole, Overrun,
                AbortFreesChunkedPump
<1>8. CASE n = rest.size /\ stage' = "pump" /\ outcome' = outcome
  <2>1. stage' = "pump" /\ outcome' = "open"
    BY <1>8
  <2>2. written' + source'.left = reply.size
    BY <1>1, <1>2, <1>8
  <2>. QED  BY <1>3, <1>4, <1>5, <2>1, <2>2 DEF HttpInv, BytesAccounted, PumpSound, EndedIsWhole, Overrun,
                AbortFreesChunkedPump
<1>9. n < rest.size \/ n = rest.size
  BY <1>2
<1>. QED  BY <1>1, <1>6, <1>7, <1>8, <1>9

\* The pump of a declared length.
LEMMA FixedKeeps ==
    ASSUME HttpInv, FixedRead \/ FixedDrains \/ FixedEnds
    PROVE  HttpInv'
<1>1. /\ outcome = "open" /\ written \in Nat /\ reply.size \in Nat /\ source.left \in Nat
      /\ source \in [left : Nat, fails : BOOLEAN, cancelled : BOOLEAN] /\ piece \in [from : Nat, size : Nat]
      /\ piece.from \in Nat /\ piece.size \in Nat
  BY DEF HttpInv, HttpTyped, PumpSound, FixedRead, FixedDrains, FixedEnds
<1>2. ASSUME FixedRead, NEW n \in 1..source.left, source' = [source EXCEPT !.left = @ - n]
      PROVE  /\ source' \in [left : Nat, fails : BOOLEAN, cancelled : BOOLEAN] /\ n \in Nat
             /\ source'.left = source.left - n /\ source'.cancelled = source.cancelled
             /\ source'.fails = source.fails
             /\ written + n + source'.left = reply.size
  <2>1. source.left - n \in Nat /\ n \in Nat
    BY <1>1
  <2>2. written + source.left = reply.size
    BY <1>2 DEF FixedRead, HttpInv, BytesAccounted
  <2>3. /\ source' \in [left : Nat, fails : BOOLEAN, cancelled : BOOLEAN]
        /\ source'.left = source.left - n /\ source'.cancelled = source.cancelled
        /\ source'.fails = source.fails
    BY <1>1, <1>2, <2>1
  <2>. QED  BY <1>1, <2>1, <2>2, <2>3
<1>3. ASSUME FixedRead, NEW n \in 1..source.left, source' = [source EXCEPT !.left = @ - n], torn, stage' = "failed",
             UNCHANGED <<sendVars, outcome>>
      PROVE  HttpInv'
  BY <1>2, <1>3 DEF FixedRead, sendVars, HttpInv, HttpTyped, UploadSound, BytesAccounted, PumpSound, EndedIsWhole, Overrun,
                AbortFreesChunkedPump
<1>4. ASSUME FixedRead, NEW n \in 1..source.left, source' = [source EXCEPT !.left = @ - n], ~torn,
             piece' = [from |-> written, size |-> n], TryEnd(written, piece')
      PROVE  HttpInv'
  <2>1. /\ piece' \in [from : Nat, size : Nat] /\ piece'.from = written /\ piece'.size = n /\ piece'.from <= written
        /\ piece'.from + piece'.size + source'.left = reply.size
        /\ piece'.from + piece'.size = piece'.from + piece'.size
    BY <1>1, <1>2, <1>4
  <2>2. reply.path = "fixed" /\ UNCHANGED <<route, torn, upload, reply, firstOnly>>
    BY <1>4 DEF FixedRead
  <2>3. /\ source' \in [left : Nat, fails : BOOLEAN, cancelled : BOOLEAN]
        /\ source'.cancelled = source.cancelled
    BY <1>2, <1>4
  <2>. QED  BY <1>1, <1>4, <2>1, <2>2, <2>3, TryEndKeeps
<1>5. CASE FixedRead
  BY <1>3, <1>4, <1>5 DEF FixedRead
<1>6. CASE FixedDrains
  <2>1. CASE writable = piece.from
    <3> DEFINE rest == RestOf(piece, written)
    <3>1. /\ piece.from <= written /\ written <= piece.from + piece.size
          /\ piece.from + piece.size + source.left = reply.size /\ ~torn /\ reply.path = "fixed"
      BY <1>6 DEF FixedDrains, HttpInv, BytesAccounted
    <3>2. /\ rest \in [from : Nat, size : Nat] /\ rest.from = written
          /\ rest.from + rest.size = piece.from + piece.size
      <4>1. CASE written > piece.from
        <5>1. rest = [from |-> written, size |-> piece.size - (written - piece.from)]
          BY <4>1 DEF RestOf
        <5>2. piece.size - (written - piece.from) \in Nat
          BY <1>1, <3>1, <4>1
        <5>. HIDE DEF rest
        <5>. QED  BY <1>1, <3>1, <5>1, <5>2
      <4>2. CASE written = piece.from
        BY <1>1, <4>2 DEF RestOf
      <4>. QED  BY <1>1, <3>1, <4>1, <4>2
    <3>3. TryEnd(piece.from, rest) /\ UNCHANGED <<route, torn, upload, reply, firstOnly, piece, source>>
      BY <1>6, <2>1 DEF FixedDrains
    <3>. HIDE DEF rest
    <3>. QED  BY <1>1, <3>1, <3>2, <3>3, TryEndKeeps
  <2>2. CASE writable # piece.from
    BY <1>6, <2>2 DEF FixedDrains, sendVars, HttpInv, HttpTyped, UploadSound, BytesAccounted, PumpSound,
                EndedIsWhole, Overrun, AbortFreesChunkedPump
  <2>. QED  BY <2>1, <2>2
<1>7. CASE FixedEnds
  BY <1>1, <1>7 DEF FixedEnds, sendVars, HttpInv, HttpTyped, UploadSound, BytesAccounted, PumpSound,
                EndedIsWhole, Overrun, AbortFreesChunkedPump
<1>. QED  BY <1>5, <1>6, <1>7

\* The pump of chunks.
LEMMA ChunkedKeeps ==
    ASSUME HttpInv, ChunkedRead \/ ChunkedDrains \/ ChunkedEnds
    PROVE  HttpInv'
<1>1. /\ outcome = "open" /\ written \in Nat /\ reply.size \in Nat /\ source.left \in Nat
      /\ source \in [left : Nat, fails : BOOLEAN, cancelled : BOOLEAN] /\ ~skewed
      /\ reply.path = "chunked" /\ written + source.left = reply.size
      /\ UNCHANGED <<upload, reply, torn>>
  BY DEF HttpInv, HttpTyped, PumpSound, EndedIsWhole, BytesAccounted, ChunkedRead, ChunkedDrains, ChunkedEnds
<1>2. CASE ChunkedRead
  <2>1. PICK n \in 1..source.left :
          /\ source' = [source EXCEPT !.left = @ - n] /\ piece' = [from |-> written, size |-> n]
          /\ written' = written + n /\ skewed' = (skewed \/ written # written) /\ stage' \in {"pump", "drain"}
    BY <1>2 DEF ChunkedRead, Sends
  <2>2. source.left - n \in Nat /\ n \in Nat
    BY <1>1
  <2>3. /\ source' \in [left : Nat, fails : BOOLEAN, cancelled : BOOLEAN]
        /\ source'.left = source.left - n /\ source'.cancelled = source.cancelled
        /\ piece' \in [from : Nat, size : Nat] /\ written' \in Nat /\ ~skewed'
    <3>1. skewed' = FALSE
      BY <1>1, <2>1, Zenon
    <3>. QED  BY <1>1, <2>1, <2>2, <3>1
  <2>4. written' + source'.left = reply.size
    BY <1>1, <2>1, <2>2, <2>3
  <2>5. ~torn /\ outcome' = "open"
    BY <1>1, <1>2 DEF ChunkedRead, HttpInv, AbortFreesChunkedPump
  <2>. QED  BY <1>1, <2>1, <2>3, <2>4, <2>5 DEF HttpInv, HttpTyped, UploadSound, BytesAccounted, PumpSound,
                EndedIsWhole, Overrun, AbortFreesChunkedPump
<1>3. CASE ChunkedDrains
  BY <1>1, <1>3 DEF ChunkedDrains, sendVars, HttpInv, HttpTyped, UploadSound, BytesAccounted, PumpSound,
                EndedIsWhole, Overrun, AbortFreesChunkedPump
<1>4. CASE ChunkedEnds
  BY <1>1, <1>4 DEF ChunkedEnds, sendVars, HttpInv, HttpTyped, UploadSound, BytesAccounted, PumpSound,
                EndedIsWhole, Overrun, AbortFreesChunkedPump
<1>. QED  BY <1>2, <1>3, <1>4

\* The request: its body under the cap, and the handler.
LEMMA RequestKeeps ==
    ASSUME HttpInv, Routing \/ DataArrives \/ HandlerReturns \/ HandlerThrows
    PROVE  HttpInv'
<1>1. /\ upload \in [left : Nat, received : Nat, kept : Nat, state : {"open", "closed", "capped", "errored"}]
      /\ reply \in [status : Nat, path : {"empty", "fixed", "chunked"}, declared : Nat, size : Nat]
      /\ source \in [left : Nat, fails : BOOLEAN, cancelled : BOOLEAN]
  BY DEF HttpInv, HttpTyped
<1>2. ASSUME NEW code \in Nat, Answer(code), stage' = "responding", stage \in {"routing", "handling"},
             code = 413 => upload.received > MaxBody, UNCHANGED <<torn, upload, source, sendVars, outcome>>
      PROVE  HttpInv'
  <2>1. /\ reply' \in [status : Nat, path : {"empty", "fixed", "chunked"}, declared : Nat, size : Nat]
        /\ reply'.status = code /\ reply'.path = "empty" /\ reply'.declared = 0 /\ reply'.size = 0
    BY <1>2 DEF Answer
  <2>. QED  BY <1>2, <2>1 DEF sendVars, HttpInv, HttpTyped, UploadSound, BytesAccounted, PumpSound,
                EndedIsWhole, Overrun, AbortFreesChunkedPump
<1>3. CASE Routing
  <2>1. CASE route = "fetch"
    BY <1>3, <2>1 DEF Routing, sendVars, HttpInv, HttpTyped, UploadSound, BytesAccounted, PumpSound,
                EndedIsWhole, Overrun, AbortFreesChunkedPump
  <2>2. CASE route # "fetch"
    BY <1>2, <1>3, <2>2 DEF Routing
  <2>. QED  BY <2>1, <2>2
<1>4. CASE HandlerThrows
  BY <1>2, <1>4 DEF HandlerThrows, HttpInv, UploadSound
<1>5. CASE HandlerReturns
  <2>1. CASE Answer(200) /\ UNCHANGED source
    BY <1>2, <1>5, <2>1 DEF HandlerReturns
  <2>2. ASSUME NEW path \in {"fixed", "chunked"}, NEW declared \in 0..MaxTotal, NEW left \in 0..MaxTotal,
               NEW fails \in BOOLEAN,
               reply' = [status |-> 200, path |-> path, declared |-> declared, size |-> left],
               source' = [left |-> left, fails |-> fails, cancelled |-> FALSE]
        PROVE  HttpInv'
    <3>1. declared \in Nat /\ left \in Nat
      OBVIOUS
    <3>2. /\ reply' \in [status : Nat, path : {"empty", "fixed", "chunked"}, declared : Nat, size : Nat]
          /\ source' \in [left : Nat, fails : BOOLEAN, cancelled : BOOLEAN]
          /\ reply'.status = 200 /\ reply'.path = path /\ reply'.size = left
          /\ source'.left = left /\ ~source'.cancelled
      BY <2>2, <3>1
    <3>3. written = 0 /\ 0 + left = left
      BY <1>5, <3>1 DEF HandlerReturns, HttpInv, BytesAccounted
    <3>. QED  BY <1>5, <2>2, <3>1, <3>2, <3>3 DEF HandlerReturns, sendVars, HttpInv, HttpTyped, UploadSound,
                BytesAccounted, PumpSound, EndedIsWhole, Overrun, AbortFreesChunkedPump
  <2>. QED  BY <1>5, <2>1, <2>2 DEF HandlerReturns
<1>6. CASE DataArrives
  <2>1. PICK n \in 0..upload.left :
          upload' = IF Over(upload.received, n)
                    THEN [upload EXCEPT !.left = @ - n, !.received = @ + n, !.state = "capped"]
                    ELSE [upload EXCEPT !.left = @ - n, !.received = @ + n, !.kept = @ + n,
                                        !.state = IF n = upload.left THEN "closed" ELSE "open"]
    BY <1>6 DEF DataArrives
  <2> DEFINE l == upload.left - n
             r == upload.received + n
             k == upload.kept + n
             st == IF n = upload.left THEN "closed" ELSE "open"
  <2>2. /\ l \in Nat /\ r \in Nat /\ k \in Nat /\ st \in {"open", "closed"} /\ r >= upload.received
        /\ k <= r /\ upload.kept <= r /\ upload.kept <= MaxBody
        /\ (~Over(upload.received, n) => k <= MaxBody) /\ (Over(upload.received, n) => r > MaxBody)
    BY <1>1, CapAssumption DEF HttpInv, UploadSound, Over
  <2>3. upload' = IF Over(upload.received, n) THEN [upload EXCEPT !.left = l, !.received = r, !.state = "capped"]
                  ELSE [upload EXCEPT !.left = l, !.received = r, !.kept = k, !.state = st]
    BY <2>1
  <2>. HIDE DEF l, r, k, st
  <2>4. /\ upload' \in [left : Nat, received : Nat, kept : Nat, state : {"open", "closed", "capped", "errored"}]
        /\ upload'.received = r /\ upload'.kept = (IF Over(upload.received, n) THEN upload.kept ELSE k)
        /\ upload'.state = (IF Over(upload.received, n) THEN "capped" ELSE st)
    BY <1>1, <2>2, <2>3
  <2>5. UploadSound'
    <3>1. reply' = reply /\ (reply.status = 413 => upload.received > MaxBody)
      BY <1>6 DEF DataArrives, HttpInv, UploadSound
    <3>2. upload'.kept <= upload'.received /\ upload'.kept <= MaxBody
      BY <2>2, <2>4
    <3>3. upload'.state = "capped" => upload'.received > MaxBody
      BY <2>2, <2>4
    <3>4. upload.received > MaxBody => r > MaxBody
      BY <1>1, <2>2, CapAssumption
    <3>. QED  BY <2>4, <3>1, <3>2, <3>3, <3>4 DEF UploadSound
  <2>. QED  BY <1>6, <2>4, <2>5 DEF DataArrives, sendVars, HttpInv, HttpTyped, BytesAccounted, PumpSound,
                EndedIsWhole, Overrun, AbortFreesChunkedPump
<1>. QED  BY <1>3, <1>4, <1>5, <1>6

\* The response begins, its body fails, or the client goes away.
LEMMA ResponseKeeps ==
    ASSUME HttpInv, HandlerResponds \/ BodyFails \/ PumpFailed \/ Aborts
    PROVE  HttpInv'
<1>1. /\ upload \in [left : Nat, received : Nat, kept : Nat, state : {"open", "closed", "capped", "errored"}]
      /\ reply.declared \in Nat /\ reply.size \in Nat /\ source.left \in Nat
      /\ source \in [left : Nat, fails : BOOLEAN, cancelled : BOOLEAN]
  BY DEF HttpInv, HttpTyped
<1>2. CASE HandlerResponds
  <2>1. /\ written = 0 /\ outcome = "open" /\ stage = "responding"
        /\ reply.path # "empty" => 0 + source.left = reply.size
        /\ reply.path = "empty" => source.left = 0 /\ reply.declared = 0 /\ reply.size = 0
    BY <1>2 DEF HandlerResponds, HttpInv, PumpSound, BytesAccounted
  <2>2. reply.path = "fixed" /\ reply.declared = 0 =>
          (written = reply.size \/ Overrun) /\ written >= reply.declared
    BY <1>1, <2>1 DEF Overrun
  <2>. QED  BY <1>2, <2>1, <2>2 DEF HandlerResponds, sendVars, HttpInv, HttpTyped, UploadSound, BytesAccounted,
                PumpSound, EndedIsWhole, Overrun, AbortFreesChunkedPump
<1>3. CASE BodyFails
  BY <1>3 DEF BodyFails, sendVars, HttpInv, HttpTyped, UploadSound, BytesAccounted,
                PumpSound, EndedIsWhole, Overrun, AbortFreesChunkedPump
<1>4. CASE PumpFailed
  BY <1>4 DEF PumpFailed, FailedOutcome, sendVars, HttpInv, HttpTyped, UploadSound, BytesAccounted,
                PumpSound, EndedIsWhole, Overrun, AbortFreesChunkedPump
<1>5. CASE Aborts
  <2>1. /\ upload' \in [left : Nat, received : Nat, kept : Nat, state : {"open", "closed", "capped", "errored"}]
        /\ upload'.received = upload.received /\ upload'.kept = upload.kept
        /\ upload'.state = "capped" => upload.state = "capped"
    BY <1>1, <1>5 DEF Aborts
  <2>2. /\ source' \in [left : Nat, fails : BOOLEAN, cancelled : BOOLEAN]
        /\ source'.left = source.left /\ source'.fails = source.fails
        /\ reply.path = "chunked" /\ stage \in {"pump", "drain"} =>
             /\ source'.cancelled /\ stage' # "drain"
             /\ stage' \in {stage, "failed"}
        /\ ~(reply.path = "chunked" /\ stage \in {"pump", "drain"}) => stage' = stage /\ source' = source
    BY <1>1, <1>5 DEF Aborts, OnAborted
  <2>3. torn' = TRUE /\ UNCHANGED <<reply, sendVars, outcome>> /\ outcome = "open"
    BY <1>5 DEF Aborts
  <2>4. UploadSound'
    BY <2>1, <2>3 DEF HttpInv, UploadSound
  <2>5. HttpTyped'
    BY <2>1, <2>2, <2>3 DEF HttpInv, HttpTyped, sendVars
  <2>. QED  BY <2>2, <2>3, <2>4, <2>5 DEF sendVars, HttpInv, BytesAccounted,
                PumpSound, EndedIsWhole, Overrun, AbortFreesChunkedPump
<1>. QED  BY <1>2, <1>3, <1>4, <1>5

\* A response that ended carries its whole body, or as much as was declared of a
\* longer one, whatever its size and however the socket cuts it; an upload is
\* capped; and a client that left frees the chunked pump (http-server/node.ts).
THEOREM ResponsesAreWhole == HttpSpec => []ResponseSound
<1>1. HttpInit => HttpInv
  <2>1. SUFFICES ASSUME HttpInit  PROVE  HttpInv
    OBVIOUS
  <2>2. /\ upload \in [left : Nat, received : Nat, kept : Nat, state : {"open", "closed", "capped", "errored"}]
        /\ upload.received = 0 /\ upload.kept = 0 /\ upload.state = "open"
    BY <2>1 DEF HttpInit
  <2>3. 0 <= 0 /\ 0 <= MaxBody
    BY CapAssumption
  <2>4. HttpTyped
    BY <2>1, <2>2 DEF HttpInit, NoPiece, HttpTyped
  <2>5. UploadSound /\ BytesAccounted
    BY <2>1, <2>2, <2>3 DEF HttpInit, UploadSound, BytesAccounted
  <2>6. PumpSound /\ EndedIsWhole /\ AbortFreesChunkedPump
    BY <2>1 DEF HttpInit, PumpSound, EndedIsWhole, Overrun, AbortFreesChunkedPump
  <2>. QED  BY <2>4, <2>5, <2>6 DEF HttpInv
<1>2. HttpInv /\ [HttpNext]_httpVars => HttpInv'
  <2>1. ASSUME HttpInv, UNCHANGED httpVars  PROVE  HttpInv'
    BY <2>1 DEF httpVars, HttpInv, HttpTyped, UploadSound, BytesAccounted, PumpSound,
                EndedIsWhole, Overrun, AbortFreesChunkedPump
  <2>. QED  BY <2>1, RequestKeeps, ResponseKeeps, FixedKeeps, ChunkedKeeps DEF HttpNext
<1>3. HttpInv => ResponseSound
  BY DEF HttpInv, ResponseSound, UploadSound, CapHolds
<1>. QED  BY <1>1, <1>2, <1>3, PTL DEF HttpSpec

-----------------------------------------------------------------------------
(* HTTP requests and their calls.                                          *)

CallPoint == {"idle", "resolved", "pipeline", "decoded", "ready", "handler", "value", "error",
              "streaming", "over"}
CallRecord == [at : CallPoint, answered : BOOLEAN, scope : {"none", "open", "disposed"},
               tracked : BOOLEAN, aborted : BOOLEAN, timedOut : BOOLEAN, next : Nat, passed : Nat,
               guarded : BOOLEAN, retried : BOOLEAN, stream : BOOLEAN]

\* One call.  The scope of an answered call is open only while it streams;
\* its pipeline goes on only past a timeout, which has fired its signal;
\* and the middlewares passed are those the shared iterator gave, until
\* one calls next() again.
CallOk(c) ==
    /\ c \in CallRecord
    /\ c.at \in {"idle", "resolved"} => ~c.answered /\ ~c.timedOut
    /\ c.at = "idle" => c.scope = "none"
    /\ c.tracked => c.scope = "open"
    /\ c.scope = "open" /\ c.answered => c.at = "streaming"
    /\ c.at = "streaming" => c.answered
    /\ c.timedOut => c.aborted
    /\ c.answered /\ c.at \in {"pipeline", "decoded", "ready", "handler", "value"} => c.timedOut
    /\ ~c.retried =>
         /\ c.passed = c.next - 1
         /\ c.at \in {"idle", "resolved", "pipeline"} => c.next <= Middlewares + 1
         /\ c.at \in {"decoded", "ready", "handler"} => c.next = Middlewares + 1
         /\ c.at \in {"ready", "handler"} => c.guarded

\* An entry with call c and answer r, the cursor at k.
EntryOk(e, c, r, k) ==
    /\ CallOk(c)
    /\ c.at = "idle" <=> e > k
    /\ c.answered <=> r # "none"
    /\ r # "none" => (r = "silent" <=> entries[e] = "notify")

RequestOk ==
    /\ phase \in {"begin", "body", "calling", "disposing", "done"}
    /\ phase \in {"begin", "body"} => cursor = 0
    /\ phase \in {"begin", "body", "calling"} => status = 0
    /\ phase = "begin" => conn = "none"
    /\ phase = "done" => conn # "open"
    /\ phase \in {"disposing", "done"} /\ cursor > 0 => \A e \in DOMAIN entries : calls[e].answered
    /\ phase = "done" => \A e \in DOMAIN entries : ~calls[e].tracked

Entries(n) ==
    /\ entries \in [1..n -> {"call", "notify", "invalid"}]
    /\ calls \in [1..n -> CallRecord]
    /\ results \in [1..n -> {"none", "silent", "error", "value"}]
    /\ cursor \in 0..n

HttpCallInv ==
    /\ \E n \in Nat : Entries(n)
    /\ \A e \in DOMAIN entries : EntryOk(e, calls[e], results[e], cursor)
    /\ RequestOk
    /\ Cardinality(Busy) <= Concurrency

\* Only a few of the entries are busy.
LEMMA BusyFinite ==
    ASSUME NEW n \in Nat, Entries(n)
    PROVE  IsFiniteSet(Busy) /\ Cardinality(Busy) \in Nat
<1>1. Busy \subseteq 1..n
  BY DEF Busy, Entries
<1>2. IsFiniteSet(1..n)
  BY FS_Interval
<1>3. IsFiniteSet(Busy)
  BY <1>1, <1>2, FS_Subset
<1>. QED  BY <1>3, FS_CardinalityType

\* How a call may go from c to d, its entry answered r and then s.
CallMoves(e, c, d, r, s) ==
    /\ CallOk(d)
    /\ c.at # "idle" /\ d.at # "idle"
    /\ c.answered => d.answered
    /\ d.tracked => c.tracked \/ ~c.answered
    /\ s \in {"none", "silent", "error", "value"}
    /\ d.answered <=> s # "none"
    /\ s # "none" => (s = "silent" <=> entries[e] = "notify")

\* A call that moves so keeps the request sound.
LEMMA CallMovesKeep ==
    ASSUME HttpCallInv, NEW e \in DOMAIN entries, NEW d, NEW s,
           calls' = [calls EXCEPT ![e] = d], results' = [results EXCEPT ![e] = s],
           UNCHANGED requestVars, CallMoves(e, calls[e], d, results[e], s)
    PROVE  HttpCallInv'
<1>1. PICK n \in Nat : Entries(n)
  BY DEF HttpCallInv
<1>2. /\ UNCHANGED <<entries, phase, status, conn, cursor>>
      /\ DOMAIN entries = 1..n /\ entries \in [1..n -> {"call", "notify", "invalid"}] /\ cursor \in 0..n
      /\ calls \in [1..n -> CallRecord] /\ results \in [1..n -> {"none", "silent", "error", "value"}]
  BY <1>1 DEF requestVars, Entries
<1>3. d \in CallRecord /\ s \in {"none", "silent", "error", "value"} /\ CallOk(d)
  BY DEF CallMoves, CallOk
<1>4. /\ calls' \in [1..n -> CallRecord] /\ calls'[e] = d
      /\ results' \in [1..n -> {"none", "silent", "error", "value"}] /\ results'[e] = s
      /\ \A x \in 1..n : x # e => calls'[x] = calls[x] /\ results'[x] = results[x]
  BY <1>2, <1>3
<1>5. Entries(n)'
  BY <1>2, <1>4 DEF Entries
<1>6. EntryOk(e, calls[e], results[e], cursor)
  BY DEF HttpCallInv
<1>7. EntryOk(e, d, s, cursor)
  BY <1>3, <1>6 DEF EntryOk, CallMoves
<1>8. \A x \in DOMAIN entries' : EntryOk(x, calls[x], results[x], cursor)'
  <2>1. SUFFICES ASSUME NEW x \in DOMAIN entries  PROVE  EntryOk(x, calls[x], results[x], cursor)'
    BY <1>2
  <2>2. CASE x = e
    BY <1>2, <1>4, <1>7, <2>2 DEF EntryOk
  <2>3. CASE x # e
    BY <1>2, <1>4, <2>1, <2>3 DEF EntryOk, HttpCallInv
  <2>. QED  BY <2>2, <2>3
<1>9. RequestOk'
  <2>1. cursor > 0
    BY <1>2, <1>6 DEF EntryOk, CallMoves
  <2>2. phase \in {"disposing", "done"} => \A x \in DOMAIN entries : calls[x].answered /\ calls'[x].answered
    BY <1>2, <1>4, <2>1 DEF HttpCallInv, RequestOk, CallMoves
  <2>3. phase = "done" => \A x \in DOMAIN entries : ~calls'[x].tracked
    BY <1>2, <1>4, <2>2 DEF HttpCallInv, RequestOk, CallMoves
  <2>. QED  BY <1>2, <2>2, <2>3 DEF HttpCallInv, RequestOk
<1>10. Cardinality(Busy') <= Concurrency
  <2>1. Busy' \subseteq Busy
    BY <1>2, <1>4 DEF Busy, CallMoves
  <2>2. IsFiniteSet(Busy) /\ Cardinality(Busy) \in Nat
    BY <1>1, BusyFinite
  <2>3. Cardinality(Busy') \in Nat /\ Cardinality(Busy') <= Cardinality(Busy)
    BY <2>1, <2>2, FS_Subset, FS_CardinalityType
  <2>. QED  BY <2>2, <2>3, CallAssumption DEF HttpCallInv
<1>. QED  BY <1>5, <1>8, <1>9, <1>10 DEF HttpCallInv

\* The same, with the answer left alone.
LEMMA CallStepKeeps ==
    ASSUME HttpCallInv, NEW e \in DOMAIN entries, NEW d,
           SetCall(e, d), UNCHANGED <<requestVars, results>>, CallOk(d),
           calls[e].at # "idle", d.at # "idle", d.answered = calls[e].answered,
           d.tracked => calls[e].tracked \/ ~calls[e].answered
    PROVE  HttpCallInv'
<1>1. PICK n \in Nat : Entries(n)
  BY DEF HttpCallInv
<1>2. results \in [1..n -> {"none", "silent", "error", "value"}] /\ e \in 1..n
  BY <1>1 DEF Entries
<1>3. results' = [results EXCEPT ![e] = results[e]] /\ results[e] \in {"none", "silent", "error", "value"}
  BY <1>2
<1>4. EntryOk(e, calls[e], results[e], cursor)
  BY DEF HttpCallInv
<1>5. CallMoves(e, calls[e], d, results[e], results[e])
  BY <1>3, <1>4 DEF CallMoves, EntryOk
<1>. QED  BY <1>3, <1>5, CallMovesKeep DEF SetCall

\* A call's pipeline, from its scope to its outcome.
LEMMA PipelineKeeps ==
    ASSUME HttpCallInv, NEW e \in DOMAIN entries,
           \/ CallBegins(e) \/ Middleware(e) \/ Guards(e) \/ HandlerBegins(e) \/ HandlerEnds(e)
           \/ NextAgain(e) \/ TimesOut(e) \/ StreamEnds(e)
    PROVE  HttpCallInv'
<1> DEFINE c == calls[e]
<1>1. CallOk(c) /\ c \in CallRecord
  BY DEF HttpCallInv, EntryOk, CallOk
<1>2. UNCHANGED <<requestVars, results>>
  BY DEF CallBegins, Middleware, Guards, HandlerBegins, HandlerEnds, NextAgain, TimesOut, StreamEnds
<1>. HIDE DEF c
<1>3. ASSUME NEW d, SetCall(e, d), CallOk(d), c.at # "idle", d.at # "idle", d.answered = c.answered,
             d.tracked => c.tracked \/ ~c.answered
      PROVE  HttpCallInv'
  BY <1>2, <1>3, CallStepKeeps DEF c
<1>4. ASSUME NEW p \in CallPoint \ {"idle"}, SetCall(e, [c EXCEPT !.at = p]), c.at # "idle",
             CallOk([c EXCEPT !.at = p])
      PROVE  HttpCallInv'
  <2> DEFINE d == [c EXCEPT !.at = p]
  <2>1. d.at = p /\ d.answered = c.answered /\ d.tracked = c.tracked
    BY <1>1 DEF CallRecord
  <2>. HIDE DEF d
  <2>2. SetCall(e, d) /\ CallOk(d)
    BY <1>4 DEF d
  <2>. QED  BY <1>3, <1>4, <2>1, <2>2
<1>5. ASSUME NEW p \in {"decoded", "ready", "handler", "value", "error"}, c.at # "idle", c.at # "streaming",
             p # "error" => c.at \in {"pipeline", "decoded", "ready", "handler"},
             p = "decoded" => c.at = "pipeline" /\ (~c.retried => c.next = Middlewares + 1),
             p = "ready" => c.at = "decoded" /\ c.guarded,
             p = "handler" => c.at = "ready"
      PROVE  CallOk([c EXCEPT !.at = p])
  <2> DEFINE d == [c EXCEPT !.at = p]
  <2>1. /\ d \in CallRecord /\ d.at = p /\ d.answered = c.answered /\ d.tracked = c.tracked /\ d.scope = c.scope
        /\ d.timedOut = c.timedOut /\ d.aborted = c.aborted /\ d.next = c.next /\ d.passed = c.passed
        /\ d.retried = c.retried /\ d.guarded = c.guarded
    BY <1>1 DEF CallRecord, CallPoint
  <2>. HIDE DEF d
  <2>2. CallOk(d)
    BY <1>1, <1>5, <2>1 DEF CallOk
  <2>. QED  BY <2>2 DEF d
<1>6. CASE CallBegins(e)
  <2> DEFINE d == [c EXCEPT !.at = "pipeline", !.scope = "open", !.tracked = TRUE]
  <2>1. SetCall(e, d) /\ c.at = "resolved"
    BY <1>6 DEF CallBegins, c
  <2>2. /\ d \in CallRecord /\ d.at = "pipeline" /\ d.answered = c.answered /\ d.tracked /\ d.scope = "open"
        /\ d.timedOut = c.timedOut /\ d.aborted = c.aborted /\ d.next = c.next /\ d.passed = c.passed
        /\ d.retried = c.retried /\ d.guarded = c.guarded
    BY <1>1 DEF CallRecord, CallPoint
  <2>. HIDE DEF d
  <2>3. CallOk(d)
    BY <1>1, <2>1, <2>2 DEF CallOk
  <2>4. ~c.answered
    BY <1>1, <2>1 DEF CallOk
  <2>. QED  BY <1>3, <2>1, <2>2, <2>3, <2>4
<1>7. CASE Middleware(e)
  <2>1. c.at = "pipeline"
    BY <1>7 DEF Middleware, c
  <2>2. CASE c.next <= Middlewares /\ SetCall(e, [c EXCEPT !.next = @ + 1, !.passed = @ + 1])
    <3> DEFINE k == c.next + 1
               q == c.passed + 1
               d == [c EXCEPT !.next = k, !.passed = q]
    <3>1. SetCall(e, d) /\ k \in Nat /\ q \in Nat /\ k <= Middlewares + 1 /\ (c.passed = c.next - 1 => q = k - 1)
      BY <1>1, <2>2, CallAssumption DEF CallRecord
    <3>. HIDE DEF k, q
    <3>2. /\ d \in CallRecord /\ d.at = c.at /\ d.answered = c.answered /\ d.tracked = c.tracked /\ d.scope = c.scope
          /\ d.timedOut = c.timedOut /\ d.aborted = c.aborted /\ d.next = k /\ d.passed = q
          /\ d.retried = c.retried /\ d.guarded = c.guarded
      BY <1>1, <3>1 DEF CallRecord, CallPoint
    <3>. HIDE DEF d
    <3>3. CallOk(d)
      BY <1>1, <2>1, <3>1, <3>2 DEF CallOk
    <3>. QED  BY <1>3, <2>1, <3>1, <3>2, <3>3
  <2>3. CASE \E p \in {"value", "error"} : SetCall(e, [c EXCEPT !.at = p])
    <3>1. PICK p \in {"value", "error"} : SetCall(e, [c EXCEPT !.at = p])
      BY <2>3
    <3>2. CallOk([c EXCEPT !.at = p])
      BY <1>5, <2>1
    <3>. QED  BY <1>4, <2>1, <3>1, <3>2 DEF CallPoint
  <2>4. CASE c.next > Middlewares /\ \E p \in {"decoded", "error"} : SetCall(e, [c EXCEPT !.at = p])
    <3>1. PICK p \in {"decoded", "error"} : SetCall(e, [c EXCEPT !.at = p])
      BY <2>4
    <3>2. ~c.retried => c.next = Middlewares + 1
      BY <1>1, <2>1, <2>4, CallAssumption DEF CallOk, CallRecord
    <3>3. CallOk([c EXCEPT !.at = p])
      BY <1>5, <2>1, <3>2
    <3>. QED  BY <1>4, <2>1, <3>1, <3>3 DEF CallPoint
  <2>. QED  BY <1>7, <2>2, <2>3, <2>4 DEF Middleware, c
<1>8. CASE Guards(e)
  <2>1. c.at = "decoded"
    BY <1>8 DEF Guards, c
  <2>2. CASE SetCall(e, [c EXCEPT !.at = "ready", !.guarded = TRUE])
    <3> DEFINE d == [c EXCEPT !.at = "ready", !.guarded = TRUE]
    <3>1. /\ d \in CallRecord /\ d.at = "ready" /\ d.answered = c.answered /\ d.tracked = c.tracked /\ d.scope = c.scope
          /\ d.timedOut = c.timedOut /\ d.aborted = c.aborted /\ d.next = c.next /\ d.passed = c.passed
          /\ d.retried = c.retried /\ d.guarded
      BY <1>1 DEF CallRecord, CallPoint
    <3>2. SetCall(e, d)
      BY <2>2
    <3>. HIDE DEF d
    <3>3. CallOk(d)
      BY <1>1, <2>1, <3>1 DEF CallOk
    <3>. QED  BY <1>3, <2>1, <3>1, <3>2, <3>3
  <2>3. CASE SetCall(e, [c EXCEPT !.at = "error"])
    <3>1. CallOk([c EXCEPT !.at = "error"])
      BY <1>5, <2>1
    <3>. QED  BY <1>4, <2>1, <2>3, <3>1 DEF CallPoint
  <2>. QED  BY <1>8, <2>2, <2>3 DEF Guards, c
<1>9. CASE HandlerBegins(e)
  <2>1. c.at = "ready" /\ SetCall(e, [c EXCEPT !.at = "handler"])
    BY <1>9 DEF HandlerBegins, c
  <2>2. CallOk([c EXCEPT !.at = "handler"])
    BY <1>5, <2>1
  <2>. QED  BY <1>4, <2>1, <2>2 DEF CallPoint
<1>10. CASE HandlerEnds(e)
  <2>1. c.at = "handler"
    BY <1>10 DEF HandlerEnds, c
  <2>2. CASE \E p \in {"value", "error"} : SetCall(e, [c EXCEPT !.at = p])
    <3>1. PICK p \in {"value", "error"} : SetCall(e, [c EXCEPT !.at = p])
      BY <2>2
    <3>2. CallOk([c EXCEPT !.at = p])
      BY <1>5, <2>1
    <3>. QED  BY <1>4, <2>1, <3>1, <3>2 DEF CallPoint
  <2>3. CASE SetCall(e, [c EXCEPT !.at = "value", !.stream = TRUE])
    <3> DEFINE d == [c EXCEPT !.at = "value", !.stream = TRUE]
    <3>1. /\ d \in CallRecord /\ d.at = "value" /\ d.answered = c.answered /\ d.tracked = c.tracked /\ d.scope = c.scope
          /\ d.timedOut = c.timedOut /\ d.aborted = c.aborted /\ d.next = c.next /\ d.passed = c.passed
          /\ d.retried = c.retried /\ d.guarded = c.guarded
      BY <1>1 DEF CallRecord, CallPoint
    <3>2. SetCall(e, d)
      BY <2>3
    <3>. HIDE DEF d
    <3>3. CallOk(d)
      BY <1>1, <2>1, <3>1 DEF CallOk
    <3>. QED  BY <1>3, <2>1, <3>1, <3>2, <3>3
  <2>. QED  BY <1>10, <2>2, <2>3 DEF HandlerEnds, c
<1>11. CASE NextAgain(e)
  <2> DEFINE d == [c EXCEPT !.at = "pipeline", !.passed = 1, !.guarded = FALSE, !.retried = TRUE]
  <2>1. SetCall(e, d) /\ c.at = "error" /\ (c.answered => c.timedOut)
    BY <1>11 DEF NextAgain, c
  <2>2. /\ d \in CallRecord /\ d.at = "pipeline" /\ d.answered = c.answered /\ d.tracked = c.tracked
        /\ d.scope = c.scope /\ d.timedOut = c.timedOut /\ d.aborted = c.aborted /\ d.retried
    BY <1>1 DEF CallRecord, CallPoint
  <2>. HIDE DEF d
  <2>3. CallOk(d)
    BY <1>1, <2>1, <2>2 DEF CallOk
  <2>. QED  BY <1>3, <2>1, <2>2, <2>3
<1>12. CASE TimesOut(e)
  <2> DEFINE d == [c EXCEPT !.timedOut = TRUE, !.aborted = TRUE]
  <2>1. SetCall(e, d) /\ c.at \in {"pipeline", "decoded", "ready", "handler"}
    BY <1>12 DEF TimesOut, TimedOut, c
  <2>2. /\ d \in CallRecord /\ d.at = c.at /\ d.answered = c.answered /\ d.tracked = c.tracked
        /\ d.scope = c.scope /\ d.timedOut /\ d.aborted /\ d.next = c.next /\ d.passed = c.passed
        /\ d.retried = c.retried /\ d.guarded = c.guarded
    BY <1>1 DEF CallRecord
  <2>. HIDE DEF d
  <2>3. CallOk(d)
    BY <1>1, <2>1, <2>2 DEF CallOk
  <2>. QED  BY <1>3, <2>1, <2>2, <2>3
<1>13. CASE StreamEnds(e)
  <2> DEFINE d == [Disposed(c) EXCEPT !.at = "over"]
  <2>1. SetCall(e, d) /\ c.at = "streaming"
    BY <1>13 DEF StreamEnds, c
  <2>2. /\ d \in CallRecord /\ d.at = "over" /\ d.answered /\ ~d.tracked
        /\ d.scope = "disposed" /\ d.timedOut = c.timedOut /\ d.aborted = c.aborted /\ d.next = c.next
        /\ d.passed = c.passed /\ d.retried = c.retried /\ d.guarded = c.guarded
    BY <1>1 DEF CallRecord, CallPoint, Disposed
  <2>. HIDE DEF d
  <2>3. CallOk(d) /\ c.answered = TRUE /\ d.answered = TRUE
    BY <1>1, <2>1, <2>2 DEF CallOk, CallRecord
  <2>. QED  BY <1>3, <2>1, <2>2, <2>3
<1>. QED  BY <1>6, <1>7, <1>8, <1>9, <1>10, <1>11, <1>12, <1>13

\* A call is answered: it failed, or it returned.
LEMMA AnswerKeeps ==
    ASSUME HttpCallInv, NEW e \in DOMAIN entries, CallFails(e) \/ CallReturns(e)
    PROVE  HttpCallInv'
<1> DEFINE c == calls[e]
           said(v) == IF entries[e] = "notify" THEN "silent" ELSE v
<1>1. CallOk(c) /\ c \in CallRecord /\ EntryOk(e, c, results[e], cursor)
  BY DEF HttpCallInv, EntryOk, CallOk
<1>2. UNCHANGED requestVars
  BY DEF CallFails, CallReturns
<1>3. \A v \in {"error", "value"} :
        said(v) \in {"silent", "error", "value"} /\ (said(v) = "silent" <=> entries[e] = "notify")
  OBVIOUS
<1>. HIDE DEF c, said
<1>4. ASSUME NEW d, NEW v \in {"error", "value"}, SetCall(e, d), results' = [results EXCEPT ![e] = said(v)],
             CallOk(d), c.at # "idle", d.at # "idle", d.answered, d.tracked => c.tracked
      PROVE  HttpCallInv'
  <2>1. CallMoves(e, calls[e], d, results[e], said(v))
    BY <1>3, <1>4 DEF CallMoves, c
  <2>. QED  BY <1>2, <1>4, <2>1, CallMovesKeep DEF SetCall
<1>5. CASE CallFails(e)
  <2> DEFINE d == Disposed(c)
  <2>1. SetCall(e, d) /\ Lost(c) /\ results' = [results EXCEPT ![e] = said("error")]
    BY <1>5 DEF CallFails, c, said
  <2>2. /\ d \in CallRecord /\ d.at = c.at /\ d.answered /\ ~d.tracked
        /\ d.scope = "disposed" /\ d.timedOut = c.timedOut /\ d.aborted = c.aborted /\ d.next = c.next
        /\ d.passed = c.passed /\ d.retried = c.retried /\ d.guarded = c.guarded
    BY <1>1 DEF CallRecord, Disposed
  <2>. HIDE DEF d
  <2>3. c.at \notin {"idle", "resolved"}
    BY <1>1, <2>1 DEF Lost, CallOk
  <2>4. CallOk(d)
    BY <1>1, <2>1, <2>2, <2>3 DEF CallOk, Lost
  <2>. QED  BY <1>4, <2>1, <2>2, <2>3, <2>4
<1>6. CASE CallReturns(e) /\ c.stream
  <2> DEFINE d == [c EXCEPT !.at = "streaming", !.answered = TRUE]
  <2>1. SetCall(e, d) /\ c.at = "value" /\ results' = [results EXCEPT ![e] = said("value")]
    BY <1>6 DEF CallReturns, c, said
  <2>2. /\ d \in CallRecord /\ d.at = "streaming" /\ d.answered /\ d.tracked = c.tracked
        /\ d.scope = c.scope /\ d.timedOut = c.timedOut /\ d.aborted = c.aborted /\ d.next = c.next
        /\ d.passed = c.passed /\ d.retried = c.retried /\ d.guarded = c.guarded
    BY <1>1 DEF CallRecord, CallPoint
  <2>. HIDE DEF d
  <2>3. CallOk(d)
    BY <1>1, <2>1, <2>2 DEF CallOk
  <2>. QED  BY <1>4, <2>1, <2>2, <2>3
<1>7. CASE CallReturns(e) /\ ~c.stream
  <2> DEFINE d == [Disposed(c) EXCEPT !.at = "over"]
  <2>1. SetCall(e, d) /\ c.at = "value" /\ results' = [results EXCEPT ![e] = said("value")]
    BY <1>7 DEF CallReturns, c, said
  <2>2. /\ d \in CallRecord /\ d.at = "over" /\ d.answered /\ ~d.tracked
        /\ d.scope = "disposed" /\ d.timedOut = c.timedOut /\ d.aborted = c.aborted /\ d.next = c.next
        /\ d.passed = c.passed /\ d.retried = c.retried /\ d.guarded = c.guarded
    BY <1>1 DEF CallRecord, CallPoint, Disposed
  <2>. HIDE DEF d
  <2>3. CallOk(d)
    BY <1>1, <2>1, <2>2 DEF CallOk
  <2>. QED  BY <1>4, <2>1, <2>2, <2>3
<1>. QED  BY <1>5, <1>6, <1>7

\* The request: refused, connected, read, answered and disposed.
LEMMA RequestStepKeeps ==
    ASSUME HttpCallInv, Refused \/ Connects \/ ReadsBody \/ Responds \/ Disposes
    PROVE  HttpCallInv'
<1>1. PICK n \in Nat : Entries(n)
  BY DEF HttpCallInv
<1>2. /\ DOMAIN entries = 1..n /\ cursor \in 0..n /\ calls \in [1..n -> CallRecord] /\ Len(entries) = n
      /\ UNCHANGED <<entries, cursor, results>>
  <2>1. DOMAIN entries = 1..n /\ cursor \in 0..n /\ calls \in [1..n -> CallRecord] /\ Len(entries) = n
    BY <1>1 DEF Entries
  <2>2. UNCHANGED <<entries, cursor, results>>
    BY DEF Refused, Connects, ReadsBody, Responds, Disposes
  <2>. QED  BY <2>1, <2>2
<1>3. RequestOk /\ \A e \in DOMAIN entries : EntryOk(e, calls[e], results[e], cursor)
  BY DEF HttpCallInv
<1>4. ASSUME RequestOk', UNCHANGED calls  PROVE  HttpCallInv'
  <2>1. Entries(n)'
    BY <1>1, <1>2, <1>4 DEF Entries
  <2>2. \A e \in DOMAIN entries' : EntryOk(e, calls[e], results[e], cursor)'
    BY <1>2, <1>3, <1>4 DEF EntryOk
  <2>3. Busy' = Busy
    BY <1>2, <1>4 DEF Busy
  <2>. QED  BY <1>4, <2>1, <2>2, <2>3 DEF HttpCallInv
<1>5. phase \in {"begin", "body"} => cursor = 0 /\ \A e \in DOMAIN entries : ~calls[e].tracked
  BY <1>2, <1>3 DEF RequestOk, EntryOk, CallOk
<1>6. CASE Refused
  <2>1. phase = "begin" /\ phase' = "done" /\ UNCHANGED <<conn, calls>>
    BY <1>6 DEF Refused
  <2>2. RequestOk'
    BY <1>2, <1>3, <1>5, <2>1 DEF RequestOk
  <2>. QED  BY <1>4, <2>1, <2>2
<1>7. CASE Connects
  <2>1. phase = "begin" /\ UNCHANGED calls
    BY <1>7 DEF Connects
  <2>2. RequestOk'
    BY <1>2, <1>3, <1>5, <1>7, <2>1 DEF RequestOk, Connects
  <2>. QED  BY <1>4, <2>1, <2>2
<1>8. CASE ReadsBody
  <2>1. phase = "body" /\ UNCHANGED calls
    BY <1>8 DEF ReadsBody
  <2>2. RequestOk'
    BY <1>2, <1>3, <1>5, <1>8, <2>1 DEF RequestOk, ReadsBody
  <2>. QED  BY <1>4, <2>1, <2>2
<1>9. CASE Responds
  <2>1. phase = "calling" /\ phase' = "disposing" /\ cursor = Len(entries) /\ Busy = {} /\ UNCHANGED <<calls, conn>>
    BY <1>9 DEF Responds
  <2>2. \A e \in DOMAIN entries : calls[e].answered
    BY <1>2, <1>3, <2>1 DEF Busy, EntryOk
  <2>3. RequestOk'
    BY <1>2, <1>3, <2>1, <2>2 DEF RequestOk
  <2>. QED  BY <1>4, <2>1, <2>3
<1>10. CASE Disposes
  <2>1. /\ phase = "disposing" /\ phase' = "done" /\ conn' = "closed" /\ status' = status
        /\ calls' = [e \in 1..n |-> IF calls[e].tracked
                                    THEN [calls[e] EXCEPT !.tracked = FALSE, !.aborted = TRUE] ELSE calls[e]]
    BY <1>2, <1>10 DEF Disposes
  <2>2. ASSUME NEW e \in 1..n
        PROVE  /\ calls'[e] \in CallRecord /\ EntryOk(e, calls'[e], results[e], cursor)
               /\ ~calls'[e].tracked /\ calls'[e].answered = calls[e].answered /\ calls'[e].at = calls[e].at
    <3> DEFINE c == calls[e]
               d == [c EXCEPT !.tracked = FALSE, !.aborted = TRUE]
    <3>1. EntryOk(e, c, results[e], cursor) /\ c \in CallRecord
      BY <1>2, <1>3, <2>2
    <3>2. calls'[e] = IF c.tracked THEN d ELSE c
      BY <2>1, <2>2
    <3>. HIDE DEF c
    <3>3. /\ d \in CallRecord /\ d.at = c.at /\ d.answered = c.answered /\ ~d.tracked
          /\ d.scope = c.scope /\ d.timedOut = c.timedOut /\ d.aborted /\ d.next = c.next
          /\ d.passed = c.passed /\ d.retried = c.retried /\ d.guarded = c.guarded
      BY <3>1 DEF CallRecord
    <3>. HIDE DEF d
    <3>4. CallOk(d)
      BY <3>1, <3>3 DEF EntryOk, CallOk
    <3>5. EntryOk(e, d, results[e], cursor)
      BY <3>1, <3>3, <3>4 DEF EntryOk
    <3>6. calls'[e].answered = c.answered /\ calls'[e].at = c.at /\ ~calls'[e].tracked
      BY <3>2, <3>3
    <3>. QED  BY <3>1, <3>2, <3>3, <3>5, <3>6 DEF c
  <2>3. calls' \in [1..n -> CallRecord]
    BY <2>1, <2>2
  <2>4. Entries(n)'
    BY <1>1, <1>2, <2>3 DEF Entries
  <2>5. \A e \in DOMAIN entries' : EntryOk(e, calls[e], results[e], cursor)'
    BY <1>2, <2>2 DEF EntryOk
  <2>6. Busy' = Busy
    BY <1>2, <2>2 DEF Busy
  <2>7. RequestOk'
    BY <1>2, <1>3, <2>1, <2>2 DEF RequestOk
  <2>. QED  BY <2>4, <2>5, <2>6, <2>7 DEF HttpCallInv
<1>. QED  BY <1>6, <1>7, <1>8, <1>9, <1>10

\* An entry is taken up while there is room for it.
LEMMA TakesEntryKeeps == HttpCallInv /\ TakesEntry => HttpCallInv'
<1> DEFINE e == cursor + 1
<1>1. SUFFICES ASSUME HttpCallInv, TakesEntry  PROVE  HttpCallInv'
  OBVIOUS
<1>2. PICK n \in Nat : Entries(n)
  BY <1>1 DEF HttpCallInv
<1>3. /\ DOMAIN entries = 1..n /\ cursor \in 0..n /\ calls \in [1..n -> CallRecord] /\ Len(entries) = n
      /\ results \in [1..n -> {"none", "silent", "error", "value"}]
      /\ entries \in [1..n -> {"call", "notify", "invalid"}]
  BY <1>2 DEF Entries
<1>4. /\ phase = "calling" /\ cursor < n /\ Room /\ cursor' = e
      /\ UNCHANGED <<entries, phase, status, conn>>
  BY <1>1, <1>3 DEF TakesEntry
<1>5. e \in 1..n /\ \A x \in 1..n : x # e => (x > cursor <=> x > e)
  BY <1>3, <1>4
<1>6. RequestOk /\ \A x \in 1..n : EntryOk(x, calls[x], results[x], cursor)
  BY <1>1, <1>3 DEF HttpCallInv
<1>7. calls[e].at = "idle" /\ results[e] = "none"
  <2>1. EntryOk(e, calls[e], results[e], cursor) /\ e > cursor
    BY <1>3, <1>5, <1>6
  <2>. HIDE DEF e
  <2>. QED  BY <2>1 DEF EntryOk, CallOk
<1>8. PICK p \in {"resolved", "over"}, a \in BOOLEAN, r \in {"none", "silent", "error"} :
        /\ calls' = [calls EXCEPT ![e] = [Idle EXCEPT !.at = p, !.answered = a]]
        /\ results' = [results EXCEPT ![e] = r]
        /\ a <=> p = "over"
        /\ a <=> r # "none"
        /\ a => (r = "silent" <=> entries[e] = "notify")
  <2>. HIDE DEF e
  <2>1. CASE SetCall(e, [Idle EXCEPT !.at = "resolved"]) /\ UNCHANGED results
    <3>1. [Idle EXCEPT !.at = "resolved"] = [Idle EXCEPT !.at = "resolved", !.answered = FALSE]
      <4>1. Idle \in CallRecord /\ Idle.answered = FALSE
        BY DEF Idle, CallRecord, CallPoint
      <4>. QED  BY <4>1 DEF CallRecord
    <3>2. results = [results EXCEPT ![e] = "none"]
      BY <1>3, <1>5, <1>7
    <3>. QED  BY <2>1, <3>1, <3>2 DEF SetCall
  <2>2. CASE /\ SetCall(e, [Idle EXCEPT !.at = "over", !.answered = TRUE])
             /\ results' = [results EXCEPT ![e] = IF entries[e] = "notify" THEN "silent" ELSE "error"]
    <3> DEFINE r == IF entries[e] = "notify" THEN "silent" ELSE "error"
    <3>1. r \in {"silent", "error"} /\ (r = "silent" <=> entries[e] = "notify")
      OBVIOUS
    <3>2. results' = [results EXCEPT ![e] = r]
      BY <2>2
    <3>. HIDE DEF r
    <3>. QED  BY <2>2, <3>1, <3>2 DEF SetCall
  <2>. QED  BY <1>1, <2>1, <2>2 DEF TakesEntry, e
<1> DEFINE d == [Idle EXCEPT !.at = p, !.answered = a]
<1>9. /\ d \in CallRecord /\ d.at = p /\ d.answered = a /\ ~d.tracked /\ d.scope = "none" /\ ~d.timedOut
      /\ ~d.aborted /\ d.next = 1 /\ d.passed = 0 /\ d.guarded = FALSE /\ ~d.retried
  BY DEF Idle, CallRecord, CallPoint
<1>. HIDE DEF d, e
<1>10. CallOk(d)
  BY <1>8, <1>9, CallAssumption DEF CallOk
<1>11. calls' = [calls EXCEPT ![e] = d]
  BY <1>8 DEF d
<1>12. /\ calls' \in [1..n -> CallRecord] /\ calls'[e] = d
       /\ results' \in [1..n -> {"none", "silent", "error", "value"}] /\ results'[e] = r
       /\ \A x \in 1..n : x # e => calls'[x] = calls[x] /\ results'[x] = results[x]
  BY <1>3, <1>5, <1>8, <1>9, <1>11
<1>13. Entries(n)'
  BY <1>3, <1>4, <1>5, <1>12 DEF Entries, e
<1>14. \A x \in DOMAIN entries' : EntryOk(x, calls[x], results[x], cursor)'
  <2>1. SUFFICES ASSUME NEW x \in 1..n  PROVE  EntryOk(x, calls[x], results[x], cursor)'
    BY <1>3, <1>4
  <2>2. CASE x = e
    <3>1. ~(e > e)
      BY <1>5
    <3>. QED  BY <1>4, <1>8, <1>9, <1>10, <1>12, <2>2, <3>1 DEF EntryOk
  <2>3. CASE x # e
    BY <1>4, <1>5, <1>6, <1>12, <2>3 DEF EntryOk
  <2>. QED  BY <2>2, <2>3
<1>15. RequestOk'
  BY <1>4, <1>6 DEF RequestOk
<1>16. Cardinality(Busy') <= Concurrency
  <2>1. IsFiniteSet(Busy) /\ Cardinality(Busy) \in Nat
    BY <1>2, BusyFinite
  <2>2. Busy' \subseteq Busy \cup {e}
    BY <1>3, <1>4, <1>12 DEF Busy
  <2>3. e \notin Busy
    BY <1>7 DEF Busy
  <2>4. IsFiniteSet(Busy \cup {e}) /\ Cardinality(Busy \cup {e}) = Cardinality(Busy) + 1
    BY <2>1, <2>3, FS_AddElement
  <2>5. Cardinality(Busy') \in Nat /\ Cardinality(Busy') <= Cardinality(Busy \cup {e})
    BY <2>2, <2>4, FS_Subset, FS_CardinalityType
  <2>. QED  BY <1>4, <2>1, <2>4, <2>5, CallAssumption DEF Room
<1>. QED  BY <1>13, <1>14, <1>15, <1>16 DEF HttpCallInv

\* Requests are answered entry by entry, behind every middleware and
\* guard; an overrun procedure has had its signal fired, and a request
\* that is over leaves no connection, call or scope open but a stream's.
\* (json-rpc/server.ts, api.ts, gateway.ts)
THEOREM RequestsAreAnswered == CallSpec => []CallSound
<1>1. CallInit => HttpCallInv
  <2>1. SUFFICES ASSUME CallInit  PROVE  HttpCallInv
    OBVIOUS
  <2>2. PICK n \in 1..MaxEntries : entries \in [1..n -> {"call", "notify", "invalid"}]
    BY <2>1 DEF CallInit
  <2>3. n \in Nat /\ DOMAIN entries = 1..n
    BY <2>2, CallAssumption
  <2>4. Idle \in CallRecord
    BY DEF Idle, CallRecord, CallPoint
  <2>5. Entries(n)
    BY <2>1, <2>2, <2>3, <2>4 DEF CallInit, Entries
  <2>6. CallOk(Idle)
    BY <2>4, CallAssumption DEF CallOk, Idle
  <2>7. \A e \in DOMAIN entries : calls[e] = Idle /\ results[e] = "none"
    BY <2>1 DEF CallInit
  <2>8. \A e \in DOMAIN entries : EntryOk(e, calls[e], results[e], cursor)
    BY <2>1, <2>3, <2>6, <2>7 DEF CallInit, EntryOk, Idle
  <2>9. RequestOk
    BY <2>1 DEF CallInit, RequestOk
  <2>10. Cardinality(Busy) = 0
    <3>1. Busy = {}
      BY <2>7 DEF Busy, Idle
    <3>. QED  BY <3>1, FS_EmptySet
  <2>. QED  BY <2>3, <2>5, <2>8, <2>9, <2>10, CallAssumption DEF HttpCallInv
<1>2. HttpCallInv /\ [CallNext]_callVars => HttpCallInv'
  <2>1. SUFFICES ASSUME HttpCallInv, [CallNext]_callVars  PROVE  HttpCallInv'
    OBVIOUS
  <2>2. CASE UNCHANGED callVars
    <3>1. Busy' = Busy /\ (RequestOk => RequestOk')
      BY <2>2 DEF callVars, Busy, RequestOk
    <3>2. \A n : Entries(n) => Entries(n)'
      BY <2>2 DEF callVars, Entries
    <3>3. \A e, c, r, k : EntryOk(e, c, r, k) => EntryOk(e, c, r, k)'
      BY <2>2 DEF callVars, EntryOk
    <3>4. \A e \in DOMAIN entries' : EntryOk(e, calls[e], results[e], cursor)'
      BY <2>1, <2>2 DEF callVars, HttpCallInv, EntryOk
    <3>. QED  BY <2>1, <3>1, <3>2, <3>4 DEF HttpCallInv
  <2>3. CASE CallNext
    BY <2>1, <2>3, RequestStepKeeps, TakesEntryKeeps, PipelineKeeps, AnswerKeeps DEF CallNext
  <2>. QED  BY <2>1, <2>2, <2>3
<1>3. HttpCallInv => CallSound
  <2>1. SUFFICES ASSUME HttpCallInv  PROVE  CallSound
    OBVIOUS
  <2>2. PICK n \in Nat : Entries(n)
    BY <2>1 DEF HttpCallInv
  <2>3. /\ DOMAIN entries = 1..n /\ cursor \in 0..n /\ RequestOk
        /\ \A e \in DOMAIN entries : EntryOk(e, calls[e], results[e], cursor)
    BY <2>1, <2>2 DEF Entries, HttpCallInv
  <2>4. RequestLeavesNothing
    <3>1. SUFFICES ASSUME phase = "done", NEW e \in DOMAIN entries, calls[e].scope = "open"
                   PROVE  calls[e].at = "streaming"
      BY <2>3 DEF RequestLeavesNothing, RequestOk
    <3>2. cursor = 0 => calls[e].at = "idle"
      BY <2>3 DEF EntryOk
    <3>3. cursor > 0 \/ cursor = 0
      BY <2>3
    <3>4. calls[e].at # "idle"
      BY <2>3, <3>1 DEF EntryOk, CallOk
    <3>. QED  BY <2>3, <3>1, <3>2, <3>3, <3>4 DEF RequestOk, EntryOk, CallOk
  <2>5. BatchIsAnswered
    BY <2>1, <2>3 DEF BatchIsAnswered, RequestOk, EntryOk, HttpCallInv
  <2>6. NothingBypassed
    <3>1. SUFFICES ASSUME NEW e \in DOMAIN entries, calls[e].at = "handler", ~calls[e].retried
                   PROVE  calls[e].passed = Middlewares /\ calls[e].guarded
      BY DEF NothingBypassed
    <3>2. CallOk(calls[e])
      BY <2>3 DEF EntryOk
    <3>. QED  BY <3>1, <3>2, CallAssumption DEF CallOk
  <2>7. NoSilentOverrun
    BY <2>3 DEF NoSilentOverrun, EntryOk, CallOk
  <2>. QED  BY <2>4, <2>5, <2>6, <2>7 DEF CallSound
<1>. QED  BY <1>1, <1>2, <1>3, PTL DEF CallSpec
=============================================================================
