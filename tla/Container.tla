----------------------------- MODULE Container -----------------------------
(***************************************************************************)
(* The dependency container of packages/core (container.ts, with the scope *)
(* rules of injectables.ts): a chain of containers, each with the          *)
(* instances it created, the resolutions under way and the dependency      *)
(* edges its disposal order is computed from.  Factories and disposers are *)
(* asynchronous, so resolutions, manual disposals and the disposal of a    *)
(* container interleave.  What resolveInjectable does before its first     *)
(* await, the requests for the dependencies included, runs to completion:  *)
(* `asked` holds the requests of the turn under way, and no other step is  *)
(* taken before it is empty.                                               *)
(*                                                                         *)
(* Injectables are numbered so that dependencies, frozen at declaration,   *)
(* have smaller numbers; container c's parent is c - 1.  An alias is       *)
(* provided for an injectable with a smaller number, so the circularity    *)
(* check never fires.                                                      *)
(***************************************************************************)
EXTENDS Integers, FiniteSets

CONSTANTS
    Injectables,    \* the declared injectables, numbered
    Deps,           \* [Injectables -> SUBSET Injectables]
    OwnScope,       \* [Injectables -> Nat]: the declared scope, 0 is Transient
    Lazy,           \* tokens without a factory
    Disposable,     \* factories with a dispose hook
    Containers,     \* 1..n, each the parent of the next
    ScopeOf,        \* [Containers -> Nat]: the containers' scopes
    Instances,      \* identities of the instances ever created
    MaxEvents,      \* bound: provisions, manual disposals and disposals together
    NoProvision, Value

VARIABLES
    item,           \* every instance: where it is, what it uses, its state
    provisions,     \* [Containers -> [Injectables -> ...]]: value or alias
    edges,          \* [Containers -> SUBSET (dependency, dependant)]
    disposing,      \* [Containers -> BOOLEAN]: the flag
    closing,        \* [Containers -> phase of dispose()]
    manual,         \* the manual disposals under way
    dropped,        \* history: instances that the end of a disposal of others deleted
    asked,          \* requests of the current turn: place and dependant
    left            \* how many of MaxEvents are left

contVars == <<item, provisions, edges, disposing, closing, manual, dropped, asked, left>>

Transient(i) == OwnScope[i] = 0

\* getEffectiveInjectableScope: the strictest scope among an injectable's own
\* and those of all its dependencies; a transient has no position itself.
EffectiveScope[i \in Injectables] ==
    LET own == IF Transient(i) THEN 1 ELSE OwnScope[i]
        all == {own} \cup {EffectiveScope[d] : d \in Deps[i]}
    IN  CHOOSE s \in all : \A t \in all : t <= s

\* Declarations pass resolveInjectableScope: no injectable is declared looser
\* than what it depends on, and only tokens without dependencies are lazy.
ASSUME ContainerAssumption ==
    /\ Injectables \subseteq Nat /\ 0 \notin Instances
    /\ \A i \in Injectables : /\ \A d \in Deps[i] : d \in Injectables /\ d < i
                              /\ ~Transient(i) => EffectiveScope[i] = OwnScope[i]
                              /\ i \in Lazy => Deps[i] = {} /\ ~Transient(i)
    /\ \A c \in Containers : /\ c \in Nat \ {0}
                             /\ c > 1 => c - 1 \in Containers /\ ScopeOf[c - 1] <= ScopeOf[c]

Blank == [inj |-> 0, at |-> 0, state |-> "none", held |-> FALSE,
          wait |-> {}, uses |-> {}, byHand |-> FALSE]

ContInit ==
    /\ item = [h \in Instances |-> Blank]
    /\ provisions = [c \in Containers |-> [i \in Injectables |-> NoProvision]]
    /\ edges = [c \in Containers |-> {}]
    /\ disposing = [c \in Containers |-> FALSE]
    /\ closing = [c \in Containers |-> [phase |-> "open", todo |-> {}, now |-> {}]]
    /\ manual = {} /\ dropped = {}
    /\ asked = {}
    /\ left = MaxEvents

-----------------------------------------------------------------------------
Of(c, i) == {h \in Instances : item[h].at = c /\ item[h].inj = i}
InFlight(h) == item[h].state \in {"resolving"}

\* The instances map and the map of resolutions under way.
HeldOf(c, i) == {h \in Of(c, i) : item[h].held}
ResolvingOf(c, i) == {h \in Of(c, i) : InFlight(h)}
Pending(c) == {h \in Instances : item[h].at = c /\ InFlight(h)}

Satisfies(c, i) == EffectiveScope[i] <= ScopeOf[c]

Owns(c, i) == \/ provisions[c][i] # NoProvision
              \/ HeldOf(c, i) # {}
              \/ ResolvingOf(c, i) # {} /\ ~Transient(i)
ContainsUpward(c, i) == \E b \in 1..c : Owns(b, i)

\* Delegate upward when an ancestor already has it, or when a strictly looser
\* ancestor can host it; a transient stays where it is requested.
Delegates(c, i) ==
    /\ ~Transient(i)
    /\ c > 1
    /\ \/ ContainsUpward(c - 1, i)
       \/ Satisfies(c - 1, i) /\ ScopeOf[c - 1] < ScopeOf[c]

\* What a concurrent request finds to share: the cached instance, or the
\* resolution under way.
Shared(c, i) == IF Transient(i) THEN {} ELSE HeldOf(c, i) \cup ResolvingOf(c, i)

\* Everything that an injectable may need, itself included.
Needs[i \in Injectables] == {i} \cup UNION {Needs[d] : d \in Deps[i] \cup (IF i \in Lazy THEN 1..(i - 1) ELSE {})}

Free == {h \in Instances : item[h].state = "none"}
NoOne == 0

\* resolve, createContext, inject: a request from outside opens a turn.
Resolve(c, i) ==
    /\ asked = {}
    /\ ~disposing[c]
    /\ Cardinality(Needs[i]) <= Cardinality(Free)
    /\ asked' = {<<c, i, NoOne>>}
    /\ UNCHANGED <<item, provisions, edges, disposing, closing, manual, dropped, left>>

\* Everything that waits, directly or not, for the resolution h.
Waiting(h) ==
    {g \in Instances : \A S \in SUBSET Instances :
        h \in S /\ (\A x \in Instances : item[x].wait \cap S # {} => x \in S) => g \in S}

\* A resolution rejects, and with it every dependant that waits for it; what
\* those have asked for besides goes on.
ResolutionRejected(h) == [g \in Instances |-> IF g \in Waiting(h) THEN Blank ELSE item[g]]

\* One call of resolveInjectable: rejected, answered by a provided value, sent
\* on to an alias or an ancestor, shared, or the start of a new resolution,
\* which asks for its dependencies in turn.
AnswerRequest(r) ==
    LET c     == r[1]
        i     == r[2]
        who   == r[3]
        given == provisions[c][i]
        open  == asked \ {r}
        there == Shared(c, i)
        new   == CHOOSE h \in Free : TRUE
        noted == IF who = NoOne THEN edges
                 ELSE [edges EXCEPT ![c] = @ \cup {<<i, item[who].inj>>}]
        linked(h) == IF who = NoOne THEN item
                     ELSE IF item[h].held THEN [item EXCEPT ![who].uses = @ \cup {h}]
                     ELSE [item EXCEPT ![who].wait = @ \cup {h}]
    IN  /\ UNCHANGED <<provisions, disposing, closing, manual, dropped, left>>
        /\ \/ /\ ~disposing[c]
              /\ \/ /\ given = Value
                    /\ asked' = open
                    /\ UNCHANGED <<item, edges>>
                 \/ /\ given \notin {NoProvision, Value}
                    /\ asked' = open \cup {<<c, given, who>>}
                    /\ UNCHANGED <<item, edges>>
                 \/ /\ given = NoProvision
                    /\ Delegates(c, i)
                    /\ asked' = open \cup {<<c - 1, i, who>>}
                    /\ UNCHANGED <<item, edges>>
                 \/ /\ given = NoProvision
                    /\ ~Delegates(c, i)
                    /\ there # {}
                    /\ item' = linked(CHOOSE h \in there : TRUE)
                    /\ edges' = noted
                    /\ asked' = open
                 \/ /\ given = NoProvision
                    /\ ~Delegates(c, i)
                    /\ there = {}
                    /\ i \notin Lazy
                    /\ Satisfies(c, i)
                    /\ Free # {}
                    /\ item' = [linked(new) EXCEPT ![new] =
                                  [Blank EXCEPT !.inj = i, !.at = c, !.state = "resolving"]]
                    /\ edges' = noted
                    /\ asked' = open \cup {<<c, d, new>> : d \in Deps[i]}
           \/ /\ \/ disposing[c]
                 \/ /\ given = NoProvision
                    /\ ~Delegates(c, i)
                    /\ there = {}
                    /\ i \in Lazy \/ ~Satisfies(c, i)
              /\ item' = IF who = NoOne THEN item ELSE ResolutionRejected(who)
              /\ asked' = {IF q[3] # NoOne /\ who # NoOne /\ q[3] \in Waiting(who)
                           THEN <<q[1], q[2], NoOne>> ELSE q : q \in open}
              /\ UNCHANGED edges

\* The requests of a turn, in the order of the dependencies.
NextRequest == CHOOSE r \in asked : \A q \in asked : r[2] >= q[2]

\* Transients without a dispose hook are not tracked at all.
Tracked(i) == ~Transient(i) \/ i \in Disposable

\* createResolution after create() and pick(): the handle is stored, the
\* resolution leaves `pending`, and those waiting for it go on.
Created(h) ==
    /\ asked = {}
    /\ item[h].state = "resolving"
    /\ item[h].wait = {}
    /\ item' = [g \in Instances |->
         IF g = h THEN [item[h] EXCEPT !.state = "live", !.held = Tracked(item[h].inj)]
         ELSE IF h \in item[g].wait
              THEN [item[g] EXCEPT !.wait = @ \ {h}, !.uses = @ \cup {h}]
         ELSE item[g]]
    /\ UNCHANGED <<provisions, edges, disposing, closing, manual, dropped, asked, left>>

\* create() or pick() throws (an instance whose pick fails is disposed on the
\* spot): the resolution rejects, and with it every dependant that waits.
CreateFails(h) ==
    /\ asked = {}
    /\ item[h].state = "resolving"
    /\ item[h].wait = {}
    /\ item' = ResolutionRejected(h)
    /\ UNCHANGED <<provisions, edges, disposing, closing, manual, dropped, asked, left>>

-----------------------------------------------------------------------------
\* provide (with assertProvidable): a value, or an injectable as alias.
Provide(c, i, v) ==
    /\ asked = {}
    /\ left > 0
    /\ left' = left - 1
    /\ i \in Lazy
    /\ Satisfies(c, i)
    /\ v # Value => /\ v < i
                    /\ v \notin Lazy
                    /\ Satisfies(c, v)
    /\ provisions' = [provisions EXCEPT ![c][i] = v]
    /\ UNCHANGED <<item, edges, disposing, closing, manual, dropped, asked>>

\* withhold
Withhold(c, i) ==
    /\ asked = {}
    /\ left > 0
    /\ left' = left - 1
    /\ provisions[c][i] # NoProvision
    /\ provisions' = [provisions EXCEPT ![c][i] = NoProvision]
    /\ UNCHANGED <<item, edges, disposing, closing, manual, dropped, asked>>

\* disposeHandle: the disposers of hs are called.
DisposeHandles(hs, hand) ==
    [h \in Instances |-> IF h \notin hs THEN item[h]
        ELSE [item[h] EXCEPT !.state = "disposing",
                             !.byHand = @ \/ hand]]

\* The dispose function of CoreInjectables: a transient by its instance, found
\* in transientHandles until its disposal begins; otherwise every instance, those
\* being disposed included.  Nothing keeps two callers apart.
DisposeByHand(c, i) ==
    /\ asked = {}
    /\ left > 0
    /\ left' = left - 1
    /\ \E hs \in SUBSET HeldOf(c, i) :
        /\ hs # {}
        /\ IF Transient(i) THEN Cardinality(hs) = 1
                                /\ \A h \in hs : item[h].state = "live"
           ELSE hs = HeldOf(c, i)
        /\ item' = DisposeHandles(hs, TRUE)
        /\ manual' = manual \cup {[id |-> left, at |-> c, inj |-> i, hs |-> hs]}
    /\ UNCHANGED <<provisions, edges, disposing, closing, dropped, asked>>

\* The disposers of hs have settled, and what is in `entry` is deleted.
Gone(hs, entry) ==
    [h \in Instances |->
        IF h \in hs THEN [item[h] EXCEPT !.state = "disposed", !.held = FALSE, !.uses = {}]
        ELSE [item[h] EXCEPT !.held = @ /\ h \notin entry]]

\* The disposers settle.  Of a transient its own handle is deleted, unless the
\* disposer throws; of a cached injectable the whole entry of the instances map
\* is, with an instance created since an earlier disposal deleted the entry.
ByHandEnds(m) ==
    /\ asked = {}
    /\ LET entry == IF Transient(m.inj) THEN m.hs ELSE HeldOf(m.at, m.inj)
       IN  \/ /\ item' = Gone(m.hs, entry)
              /\ dropped' = dropped \cup (entry \ m.hs)
           \/ /\ Transient(m.inj)
              /\ item' = [h \in Instances |-> IF h \notin m.hs THEN item[h]
                            ELSE [item[h] EXCEPT !.state = "disposed"]]
              /\ UNCHANGED dropped
    /\ manual' = manual \ {m}
    /\ UNCHANGED <<provisions, edges, disposing, closing, asked, left>>

-----------------------------------------------------------------------------
\* dispose: the flag first, so that no new resolution starts.
BeginDispose(c) ==
    /\ asked = {}
    /\ left > 0
    /\ left' = left - 1
    /\ closing[c].phase = "open"
    /\ disposing' = [disposing EXCEPT ![c] = TRUE]
    /\ closing' = [closing EXCEPT ![c].phase = "settling"]
    /\ UNCHANGED <<item, provisions, edges, manual, dropped, asked>>

\* Let the resolutions in flight settle first.
Settled(c) == Pending(c) = {}

\* getDisposalOrder covers the instances of this container.
OrderDisposal(c) ==
    /\ asked = {}
    /\ closing[c].phase = "settling"
    /\ Settled(c)
    /\ closing' = [closing EXCEPT ![c].phase = "disposing",
                     ![c].todo = {i \in Injectables : HeldOf(c, i) # {}}]
    /\ UNCHANGED <<item, provisions, edges, disposing, manual, dropped, asked, left>>

\* Seeded fault: the order of creation.
ComesNextUnsorted(c, i) == \A j \in closing[c].todo : i <= j

\* The order is topological: an injectable comes after its dependants that
\* have instances here.  Which of the incomparable ones is first is left open.
ComesNext(c, i) == \A j \in closing[c].todo \ {i} : <<i, j>> \notin edges[c]

\* disposeInjectableInstances
DisposeNext(c) ==
    /\ asked = {}
    /\ closing[c].phase = "disposing"
    /\ closing[c].now = {}
    /\ \E i \in closing[c].todo :
        /\ ComesNext(c, i)
        /\ item' = DisposeHandles(HeldOf(c, i), FALSE)
        /\ closing' = [closing EXCEPT ![c].todo = @ \ {i}, ![c].now = HeldOf(c, i)]
    /\ UNCHANGED <<provisions, edges, disposing, manual, dropped, asked, left>>

\* Promise.allSettled, then instances.delete.
DisposalEnds(c) ==
    /\ asked = {}
    /\ closing[c].now # {}
    /\ item' = Gone(closing[c].now, {h \in Instances : \E g \in closing[c].now : h \in HeldOf(c, item[g].inj)})
    /\ closing' = [closing EXCEPT ![c].now = {}]
    /\ UNCHANGED <<provisions, edges, disposing, manual, dropped, asked, left>>

\* The end of dispose: the maps are cleared and the container is usable again.
EndDispose(c) ==
    /\ asked = {}
    /\ closing[c].phase = "disposing"
    /\ closing[c].todo = {}
    /\ closing[c].now = {}
    /\ item' = [h \in Instances |-> IF item[h].at = c THEN [item[h] EXCEPT !.held = FALSE]
                                    ELSE item[h]]
    /\ edges' = [edges EXCEPT ![c] = {}]
    /\ disposing' = [disposing EXCEPT ![c] = FALSE]
    /\ closing' = [closing EXCEPT ![c].phase = "open"]
    /\ UNCHANGED <<provisions, manual, dropped, asked, left>>

ContNext ==
    \/ \E c \in Containers, i \in Injectables :
        \/ Resolve(c, i)
        \/ \E v \in Injectables \cup {Value} : Provide(c, i, v)
        \/ Withhold(c, i)
        \/ DisposeByHand(c, i)
    \/ \E r \in asked : r = NextRequest /\ AnswerRequest(r)
    \/ \E h \in Instances : Created(h) \/ CreateFails(h)
    \/ \E m \in manual : ByHandEnds(m)
    \/ \E c \in Containers : \/ BeginDispose(c) \/ OrderDisposal(c)
                             \/ DisposeNext(c) \/ DisposalEnds(c) \/ EndDispose(c)

ContSpec == ContInit /\ [][ContNext]_contVars

-----------------------------------------------------------------------------
\* Of a cached injectable a container never has two: neither two instances,
\* nor an instance and a resolution, nor two resolutions, however the requests
\* of several dependants and containers overlap (resolveInjectable's
\* `instances` and `resolving` lookups), but for an instance the end of a
\* disposal dropped.
CreatedOnce ==
    \A c \in Containers, i \in Injectables : ~Transient(i) =>
        Cardinality({h \in Of(c, i) \ dropped : item[h].state \in {"resolving", "live"}}) <= 1

\* No instance that needs disposal is ever out of its container's sight: until
\* its disposer has been called it is in the instances map, although requests
\* and factories go on while dispose() starts and ends, but for an instance the
\* end of a disposal dropped.
NothingStranded ==
    \A h \in Instances :
        item[h].state = "live" /\ Tracked(item[h].inj) => item[h].held \/ h \in dropped

\* No disposal drops an instance it was not for.  It does not hold: when two
\* manual disposals of a cached injectable overlap, or one outlasts dispose(),
\* the later end deletes the instance created after the earlier one
\* (container.ts:290-292), which then is disposed by nobody.
NothingDropped == dropped = {}

\* While an instance is created, used or disposed, the instances it was given
\* directly by its own container are not disposed, unless by hand: dispose()
\* takes dependants before their dependencies.
DirectDependenciesOutlive ==
    \A h, g \in Instances :
        /\ item[g].state \in {"resolving", "live", "disposing"}
        /\ item[g].held \/ item[g].state = "resolving"
        /\ h \in item[g].uses
        /\ item[h].at = item[g].at
        => item[h].state = "live" \/ item[h].byHand

\* The instances h reaches through transients nobody tracks.
Behind(h) ==
    item[h].uses \cup UNION {item[g].uses : g \in {u \in item[h].uses : ~Tracked(item[u].inj)}}

\* The same through a transient without a dispose hook.  It does not hold: such
\* a transient is in no instances map, so getDisposalOrder does not see that the
\* dependant needs what the transient was given.
DependenciesOutlive ==
    \A g \in Instances :
        item[g].state \in {"live", "disposing"} /\ item[g].held =>
            \A h \in Behind(g) : item[h].at = item[g].at /\ Tracked(item[h].inj) =>
                item[h].state = "live" \/ item[h].byHand

\* Instances are created once, kept until disposed, and disposed after those
\* that use them.
ContainerSound == CreatedOnce /\ NothingStranded /\ DirectDependenciesOutlive
=============================================================================
