------------------------------ MODULE HostProxy -----------------------------
(***************************************************************************)
(* ProxyController: the upstreams the runtimes want against the ones the   *)
(* native proxy has, reconciled through a serial operation queue. The      *)
(* server's reloads and the recoveries of NeemHost call setUpstreams, each *)
(* without waiting for the other.                                          *)
(***************************************************************************)
EXTENDS Naturals, Sequences, FiniteSets, SequencesExt

CONSTANTS
    Upstreams,    \* upstream keys: runtime, transport and url
    MaxSets,      \* bound: calls of setUpstreams
    MaxRefusals   \* bound: mutations the native proxy refuses

ASSUME ProxyAssumption == IsFiniteSet(Upstreams)

VARIABLES
    proxy,    \* "none", "starting", "running", "stopping" or "stopped"
    desired,  \* upstreams the runtimes have
    applied,  \* upstreams the controller believes the native proxy has
    failures, \* upstreams whose last mutation failed
    routes,   \* upstreams the native proxy has
    jobs,     \* the operation queue: each a sequence of mutations, the first one running
    sets,     \* calls of setUpstreams so far
    refusals, \* refused mutations so far
    overtaken \* history: setUpstreams was called while a reconciliation was under way

proxyVars == <<proxy, desired, applied, failures, routes, jobs, sets, refusals, overtaken>>

ProxyInit ==
    /\ proxy = "none" /\ desired = {} /\ applied = {} /\ failures = {} /\ routes = {}
    /\ jobs = <<>> /\ sets = 0 /\ refusals = 0 /\ overtaken = FALSE

Mutations(kind, keys) == SetToSeq([kind : {kind}, key : keys])

(***************************************************************************)
(* start: the proxy is filled before it listens.                           *)
(***************************************************************************)
ProxyStart(wanted) ==
    /\ proxy = "none"
    /\ proxy' = "starting" /\ desired' = wanted
    /\ jobs' = <<Mutations("add", wanted)>>
    /\ UNCHANGED <<applied, failures, routes, sets, refusals, overtaken>>

ProxyListens ==
    /\ proxy = "starting" /\ jobs = <<<<>>>>
    /\ proxy' = "running" /\ jobs' = <<>>
    /\ UNCHANGED <<desired, applied, failures, routes, sets, refusals, overtaken>>

(***************************************************************************)
(* reconcile: what to remove and to add is decided now, and done when the  *)
(* queue gets there.                                                       *)
(***************************************************************************)
\* Seeded fault: what is no longer wanted is left in place.
ReconcileAdditions(wanted) ==
    jobs' = Append(jobs, Mutations("add", wanted \ applied))

Reconcile(wanted) ==
    jobs' = Append(jobs, Mutations("remove", applied \ wanted) \o Mutations("add", wanted \ applied))

SetUpstreams(wanted) ==
    /\ proxy = "running" /\ sets < MaxSets
    /\ sets' = sets + 1
    /\ desired' = wanted
    /\ Reconcile(wanted)
    /\ overtaken' = (overtaken \/ jobs # <<>>)
    /\ UNCHANGED <<proxy, applied, failures, routes, refusals>>

-----------------------------------------------------------------------------
(* The running operation.                                                  *)

Current == Head(Head(jobs))
ProxyRunning == jobs # <<>> /\ Head(jobs) # <<>>
Advanced == <<Tail(Head(jobs))>> \o Tail(jobs)

(***************************************************************************)
(* The native proxy has done a mutation: the controller books it.          *)
(***************************************************************************)
Book(m) ==
    /\ applied' = IF m.kind = "add" THEN applied \cup {m.key} ELSE applied \ {m.key}
    /\ failures' = failures \ {m.key}

AddOrRemove ==
    /\ ProxyRunning /\ proxy \in {"starting", "running"}
    /\ routes' = IF Current.kind = "add" THEN routes \cup {Current.key} ELSE routes \ {Current.key}
    /\ Book(Current)
    /\ jobs' = Advanced
    /\ UNCHANGED <<proxy, desired, sets, refusals, overtaken>>

(***************************************************************************)
(* It refuses: the failure is kept, and the rest of the operation skipped. *)
(***************************************************************************)
Refuse ==
    /\ ProxyRunning /\ proxy = "running" /\ refusals < MaxRefusals
    /\ refusals' = refusals + 1
    /\ failures' = failures \cup {Current.key}
    /\ jobs' = <<<<>>>> \o Tail(jobs)
    /\ UNCHANGED <<proxy, desired, applied, routes, sets, overtaken>>

\* A start that cannot fill the proxy, or cannot listen, drops it.
ProxyStartFails ==
    /\ proxy = "starting" /\ refusals < MaxRefusals
    /\ refusals' = refusals + 1
    /\ proxy' = "stopped" /\ applied' = {} /\ failures' = {} /\ routes' = {} /\ jobs' = <<>>
    /\ UNCHANGED <<desired, sets, overtaken>>

OperationEnds ==
    /\ proxy # "starting" /\ jobs # <<>> /\ Head(jobs) = <<>>
    /\ jobs' = Tail(jobs)
    /\ UNCHANGED <<proxy, desired, applied, failures, routes, sets, refusals, overtaken>>

-----------------------------------------------------------------------------
(* stop: no mutation starts any more, the queue drains, the native proxy   *)
(* is stopped.                                                             *)

ProxyStop ==
    /\ proxy = "running"
    /\ proxy' = "stopping"
    /\ UNCHANGED <<desired, applied, failures, routes, jobs, sets, refusals, overtaken>>

SkipMutation ==
    /\ ProxyRunning /\ proxy = "stopping"
    /\ jobs' = Advanced
    /\ UNCHANGED <<proxy, desired, applied, failures, routes, sets, refusals, overtaken>>

ProxyStopped ==
    /\ proxy = "stopping" /\ jobs = <<>>
    /\ proxy' = "stopped"
    /\ desired' = {} /\ applied' = {} /\ failures' = {} /\ routes' = {}
    /\ UNCHANGED <<jobs, sets, refusals, overtaken>>

ProxyNext ==
    \/ \E wanted \in SUBSET Upstreams : ProxyStart(wanted) \/ SetUpstreams(wanted)
    \/ ProxyListens \/ AddOrRemove \/ Refuse \/ ProxyStartFails \/ OperationEnds
    \/ ProxyStop \/ SkipMutation \/ ProxyStopped

ProxySpec == ProxyInit /\ [][ProxyNext]_proxyVars

-----------------------------------------------------------------------------
(* getHealth.                                                              *)

ProxyReady ==
    proxy = "running" /\ jobs = <<>> /\ failures = {} /\ desired = applied

(***************************************************************************)
(* The readiness probe can be trusted: a proxy that says ready routes to   *)
(* exactly the upstreams of the runtimes, whatever refusals and races came *)
(* before.                                                                 *)
(***************************************************************************)
ReadyIsRouted == ProxyReady => routes = desired

(***************************************************************************)
(* A proxy whose queue is empty and that reports no failure has applied    *)
(* what the last setUpstreams asked for, unless two calls overlapped: a    *)
(* reconciliation is computed before the queued ones have run.             *)
(***************************************************************************)
QuietIsApplied ==
    (proxy = "running" /\ jobs = <<>> /\ failures = {} /\ ~ overtaken) => applied = desired

\* The proxy routes to what the runtimes last announced, and says so truly.
ProxySound == ReadyIsRouted /\ QuietIsApplied
=============================================================================
