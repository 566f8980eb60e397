------------------------------- MODULE PubSub -------------------------------
(***************************************************************************)
(* Subscribing to a channel: the stream of PubSubManager (pubsub/src/      *)
(* manager.ts) over the generator of RedisPubSubAdapter (pubsub/src/       *)
(* redis.ts), which counts its listeners and keeps one SUBSCRIBE for all.  *)
(*                                                                         *)
(* External: the broker takes SUBSCRIBE and UNSUBSCRIBE of a connection in *)
(* the order sent; node:events' on() hands out what it holds before it     *)
(* ends by an abort; Readable calls read() while its buffer has room.      *)
(***************************************************************************)
EXTENDS Integers, Sequences, FiniteSets

CONSTANTS
    Subscribers,
    HighWaterMark,  \* of the stream
    MaxPublished,   \* bound: messages the broker delivers
    MaxRefused      \* bound: SUBSCRIBE commands that fail

ASSUME PubSubAssumption == IsFiniteSet(Subscribers) /\ HighWaterMark \in Nat

VARIABLES
    listeners,   \* the adapter's count for the channel, 0 when it has none
    subscribing, \* the SUBSCRIBE the channel shares: none, pending, done, failed
    commands,    \* commands on their way to the broker
    subscribed,  \* the broker sends the channel's messages
    published,   \* messages it sent
    refused,
    joinedLate,  \* somebody joined while the last listener was leaving
    subs         \* subscriber to its generator and its stream

pubsubVars == <<listeners, subscribing, commands, subscribed, published, refused, joinedLate, subs>>

PubSubInit ==
    /\ listeners = 0
    /\ subscribing = "none"
    /\ commands = <<>>
    /\ subscribed = FALSE
    /\ published = 0
    /\ refused = 0
    /\ joinedLate = FALSE
    /\ subs = [s \in Subscribers |-> [pc |-> "unread", aborted |-> FALSE, destroyed |-> FALSE,
                                      since |-> 0, heard |-> 0, waiting |-> 0, buffer |-> 0,
                                      pumps |-> 0, nulls |-> 0]]

\* pc: unread (the generator has not run), joining (awaits the SUBSCRIBE),
\* live, leaving (awaits the UNSUBSCRIBE), gone.
SetSub(s, r) == subs' = [subs EXCEPT ![s] = r]
brokerVars == <<commands, subscribed, published, refused>>

-----------------------------------------------------------------------------
(* The stream.                                                             *)

\* A pump is awaiting: a second one would race it over the iterator.
MayPump(r) == r.pumps = 0

\* The generator is over: every pump sees it, and ends the stream unless it is
\* destroyed.  Later reads find the pump still set.
Ended(r) == [r EXCEPT !.pc = "gone", !.waiting = 0, !.nulls = IF r.destroyed THEN @ ELSE @ + r.pumps]
Destroyed(r) == [r EXCEPT !.aborted = TRUE, !.destroyed = TRUE]

\* read(), and the first next() of the generator: joins unless it is aborted.
ReadNext(s) ==
    LET r == subs[s] IN
    /\ ~r.destroyed /\ r.nulls = 0 /\ r.buffer < HighWaterMark /\ r.pumps < 2
    /\ MayPump(r)
    /\ IF r.pc # "unread"
       THEN SetSub(s, [r EXCEPT !.pumps = @ + 1]) /\ UNCHANGED <<listeners, subscribing, commands, joinedLate>>
       ELSE IF r.aborted
            THEN /\ SetSub(s, Ended([r EXCEPT !.pumps = @ + 1]))
                 /\ UNCHANGED <<listeners, subscribing, commands, joinedLate>>
            ELSE /\ SetSub(s, [r EXCEPT !.pumps = @ + 1, !.pc = "joining", !.since = published])
                 /\ listeners' = listeners + 1
                 /\ joinedLate' = (joinedLate \/ \E o \in Subscribers : subs[o].pc = "leaving")
                 /\ IF listeners = 0
                    THEN subscribing' = "pending" /\ commands' = Append(commands, "subscribe")
                    ELSE UNCHANGED <<subscribing, commands>>
    /\ UNCHANGED <<subscribed, published, refused>>

\* A pump takes a message: pushed, or skipped when its event is unknown or does
\* not decode.  A full buffer pauses the pump.
PumpSubscriber(s) ==
    LET r == subs[s] IN
    /\ r.pc = "live" /\ r.pumps > 0 /\ r.waiting > 0 /\ ~r.destroyed
    /\ \/ SetSub(s, [r EXCEPT !.waiting = @ - 1])
       \/ SetSub(s, [r EXCEPT !.waiting = @ - 1, !.buffer = @ + 1,
                           !.pumps = IF r.buffer + 1 >= HighWaterMark THEN @ - 1 ELSE @])
    /\ UNCHANGED <<listeners, subscribing, brokerVars, joinedLate>>

Consume(s) ==
    /\ subs[s].buffer > 0
    /\ SetSub(s, [subs[s] EXCEPT !.buffer = @ - 1])
    /\ UNCHANGED <<listeners, subscribing, brokerVars, joinedLate>>

\* The caller's signal.
CallerAborts(s) ==
    /\ ~subs[s].aborted
    /\ SetSub(s, [subs[s] EXCEPT !.aborted = TRUE])
    /\ UNCHANGED <<listeners, subscribing, brokerVars, joinedLate>>

\* destroy(): a generator that has not run ends by its return().
Destroy(s) ==
    LET r == Destroyed(subs[s]) IN
    /\ ~subs[s].destroyed
    /\ SetSub(s, IF r.pc = "unread" THEN [r EXCEPT !.pc = "gone"] ELSE r)
    /\ UNCHANGED <<listeners, subscribing, brokerVars, joinedLate>>

-----------------------------------------------------------------------------
(* The generator.                                                          *)

\* Seeded fault: the listener is attached when SUBSCRIBE is confirmed.
AttachedLate == {s \in Subscribers : subs[s].pc = "live"}

\* Who hears a message: a listener is attached before SUBSCRIBE is sent.
Attached == {s \in Subscribers : subs[s].pc \in {"joining", "live"} /\ ~subs[s].aborted}

Joined(s) ==
    /\ subs[s].pc = "joining" /\ subscribing = "done"
    /\ SetSub(s, [subs[s] EXCEPT !.pc = "live"])
    /\ UNCHANGED <<listeners, subscribing, brokerVars, joinedLate>>

\* A SUBSCRIBE that fails ends the stream by its error.  The count stays: the
\* subscriber was not registered.
JoinFails(s) ==
    /\ subs[s].pc = "joining" /\ subscribing = "failed"
    /\ SetSub(s, [Destroyed(subs[s]) EXCEPT !.pc = "gone"])
    /\ UNCHANGED <<listeners, subscribing, brokerVars, joinedLate>>

LastOne == listeners <= 1

\* The finally block, once the abort ends the loop: the last one unsubscribes
\* and deletes the count when that is answered.
Leave(s) ==
    LET r == subs[s] IN
    /\ r.pc = "live" /\ r.aborted
    /\ r.destroyed \/ (r.waiting = 0 /\ r.pumps > 0)
    /\ IF listeners = 0 THEN SetSub(s, Ended(r)) /\ UNCHANGED <<listeners, commands>>
       ELSE IF LastOne
            THEN /\ SetSub(s, [r EXCEPT !.pc = "leaving"])
                 /\ commands' = Append(commands, "unsubscribe")
                 /\ UNCHANGED listeners
            ELSE /\ SetSub(s, Ended(r))
                 /\ listeners' = listeners - 1
                 /\ UNCHANGED commands
    /\ UNCHANGED <<subscribing, subscribed, published, refused, joinedLate>>

\* The broker takes the next command; the answer comes with it.
BrokerTakes ==
    /\ commands # <<>>
    /\ commands' = Tail(commands)
    /\ \/ /\ Head(commands) = "subscribe"
          /\ \/ subscribed' = TRUE /\ subscribing' = "done" /\ UNCHANGED refused
             \/ /\ refused < MaxRefused
                /\ refused' = refused + 1
                /\ subscribing' = "failed"
                /\ UNCHANGED subscribed
          /\ UNCHANGED <<listeners, subs>>
       \/ /\ Head(commands) = "unsubscribe"
          /\ subscribed' = FALSE
          /\ listeners' = 0
          /\ \E s \in Subscribers :
               /\ subs[s].pc = "leaving"
               /\ SetSub(s, Ended(subs[s]))
          /\ UNCHANGED <<subscribing, refused>>
    /\ UNCHANGED <<published, joinedLate>>

\* A message of the channel: the client emits it to the listeners attached.
Publish ==
    /\ subscribed /\ published < MaxPublished
    /\ published' = published + 1
    /\ subs' = [s \in Subscribers |->
                  IF s \in Attached THEN [subs[s] EXCEPT !.heard = @ + 1, !.waiting = @ + 1] ELSE subs[s]]
    /\ UNCHANGED <<listeners, subscribing, commands, subscribed, refused, joinedLate>>

PubSubNext ==
    \/ \E s \in Subscribers : \/ ReadNext(s) \/ PumpSubscriber(s) \/ Consume(s) \/ CallerAborts(s) \/ Destroy(s)
                              \/ Joined(s) \/ JoinFails(s) \/ Leave(s)
    \/ BrokerTakes \/ Publish

PubSubSpec == PubSubInit /\ [][PubSubNext]_pubsubVars

-----------------------------------------------------------------------------
LiveSubscribers(s) == subs[s].pc = "live" /\ ~subs[s].aborted

\* A live subscriber is subscribed at the broker, whoever comes and goes,
\* unless one joined while the last one was leaving (the listener count of
\* RedisPubSubAdapter.subscribe).
LeaverKeepsOthers ==
    ~joinedLate => \A s \in Subscribers :
        LiveSubscribers(s) => subscribed /\ commands = <<>> /\ listeners >= Cardinality({o \in Subscribers : LiveSubscribers(o)})

\* The same with no exception: a subscriber is never left deaf.  It does not
\* hold: an unsubscribe on its way overtakes the next subscriber (redis.ts).
NobodyIsDeaf == \A s \in Subscribers : LiveSubscribers(s) => subscribed

\* Nothing the broker sent since a subscriber began is lost on it: the local
\* listener is in place "before Redis confirms SUBSCRIBE".
NothingMissed ==
    \A s \in Subscribers : LiveSubscribers(s) => subs[s].heard = published - subs[s].since

\* However often Node calls read(), one pump at a time runs: the stream ends
\* once, and holds no more than its high water mark.
OnePump ==
    \A s \in Subscribers : subs[s].nulls <= 1 /\ subs[s].buffer <= HighWaterMark

\* A subscriber hears all that was published since it began, as the others come
\* and go, through one pump.
SubscriptionsSound == LeaverKeepsOthers /\ NothingMissed /\ OnePump
=============================================================================
