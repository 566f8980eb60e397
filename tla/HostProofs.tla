----------------------------- MODULE HostProofs -----------------------------
(***************************************************************************)
(* The safety of six parts of a server process: the proxy controller for   *)
(* any finite set of upstreams and any number of calls and refusals; the   *)
(* deployment of workers for any lists of pools, workflows and tasks; the  *)
(* lifecycle of any number of hooks and services; the host controller for  *)
(* any controllers, groups, threads, restarts and failures; the dev        *)
(* session for any number of services, rebuilds, config changes and        *)
(* faults; and the dependency containers for any declared injectables and  *)
(* any nesting.                                                            *)
(***************************************************************************)
EXTENDS NeemHost, HostProxy, WorkerDeployment, ServerLifecycle, DevSupervisor, Container,
        FiniteSetTheorems, SequenceTheorems, TLAPS

-----------------------------------------------------------------------------
(* The proxy controller.                                                   *)

Mutation == [kind : {"add", "remove"}, key : Upstreams]

Muts(q) == {q[i] : i \in DOMAIN q}
Added(q) == {u \in Upstreams : [kind |-> "add", key |-> u] \in Muts(q)}
Removed(q) == {u \in Upstreams : [kind |-> "remove", key |-> u] \in Muts(q)}

\* Operation q takes the upstreams in A to those in D, in any order of its
\* mutations.
LeadsTo(A, q, D) ==
    /\ Added(q) \cap Removed(q) = {}
    /\ (A \ Removed(q)) \cup Added(q) = D

\* The controller's beliefs are the proxy's; and while no two calls have
\* overlapped, the one operation there may be leads to what is wanted, or
\* has been cut short by a failure.
ProxyTyped ==
    /\ proxy \in {"none", "starting", "running", "stopping", "stopped"}
    /\ desired \subseteq Upstreams /\ applied \subseteq Upstreams /\ routes = applied
    /\ jobs \in Seq(Seq(Mutation))
    /\ overtaken \in BOOLEAN

OnTheWay ==
    /\ proxy = "none" => jobs = <<>> /\ applied = {}
    /\ proxy \in {"none", "starting"} => ~overtaken
    /\ proxy = "starting" => Len(jobs) = 1 /\ LeadsTo(applied, jobs[1], desired)
    /\ proxy = "running" /\ ~overtaken =>
         /\ Len(jobs) <= 1
         /\ Len(jobs) = 0 => failures # {} \/ applied = desired
         /\ Len(jobs) = 1 => LeadsTo(applied, jobs[1], desired) \/ (jobs[1] = <<>> /\ failures # {})

ProxyInv == ProxyTyped /\ OnTheWay

\* The mutations of a set of keys are one for each of them.
LEMMA MutationsOf ==
    ASSUME NEW kind \in {"add", "remove"}, NEW keys \in SUBSET Upstreams
    PROVE  /\ Mutations(kind, keys) \in Seq(Mutation)
           /\ Muts(Mutations(kind, keys)) = {[kind |-> kind, key |-> u] : u \in keys}
<1> DEFINE S == [kind : {kind}, key : keys]
           n == Cardinality(S)
           q == Mutations(kind, keys)
<1>1. S = {[kind |-> kind, key |-> u] : u \in keys} /\ S \subseteq Mutation
  <2>1. \A m \in S : m = [kind |-> kind, key |-> m.key] /\ m.key \in keys
    OBVIOUS
  <2>2. \A u \in keys : [kind |-> kind, key |-> u] \in S
    OBVIOUS
  <2>3. S \subseteq Mutation
    BY DEF Mutation
  <2>. HIDE DEF S
  <2>. QED  BY <2>1, <2>2, <2>3
<1>2. IsFiniteSet(S)
  <2> DEFINE f == [u \in keys |-> [kind |-> kind, key |-> u]]
  <2>1. f \in Surjection(keys, S)
    BY <1>1 DEF Surjection
  <2>2. IsFiniteSet(keys)
    BY ProxyAssumption, FS_Subset
  <2>. HIDE DEF f, S
  <2>. QED  BY <2>1, <2>2, FS_Surjection
<1>. HIDE DEF S
<1>3. n \in Nat /\ IsFiniteSet(1..n) /\ Cardinality(1..n) = n
  <2>1. n \in Nat
    BY <1>2, FS_CardinalityType
  <2>. HIDE DEF n
  <2>. QED  BY <2>1, FS_Interval
<1>4. PICK g \in Bijection(1..n, S) : TRUE
  BY <1>2, FS_CardinalityType DEF ExistsBijection
<1>5. g \in [1..n -> S] /\ IsInjective(g)
  BY <1>4 DEF Bijection, Injection
<1>6. q \in [1..n -> S] /\ IsInjective(q)
  BY <1>5 DEF Mutations, SetToSeq, S
<1>. HIDE DEF q
<1>7. q \in Injection(1..n, S)
  BY <1>6 DEF Injection
<1>8. q \in Surjection(1..n, S)
  BY <1>2, <1>3, <1>7, FS_Injection
<1>. HIDE DEF n
<1>9. q \in Seq(Mutation)
  BY <1>1, <1>3, <1>6
<1>10. Muts(q) = S
  BY <1>6, <1>8 DEF Muts, Surjection
<1>. QED  BY <1>1, <1>9, <1>10 DEF q

\* The mutations of two operations one after the other, and of the rest of
\* one.
LEMMA MutsOfParts ==
    /\ \A q, r \in Seq(Mutation) : Muts(q \o r) = Muts(q) \cup Muts(r)
    /\ \A q \in Seq(Mutation) : q # <<>> =>
         /\ Head(q) \in Mutation /\ Tail(q) \in Seq(Mutation)
         /\ Muts(q) = {Head(q)} \cup Muts(Tail(q))
    /\ Muts(<<>>) = {}
<1>1. ASSUME NEW q \in Seq(Mutation), NEW r \in Seq(Mutation)
      PROVE  Muts(q \o r) = Muts(q) \cup Muts(r)
  <2>1. /\ Len(q \o r) = Len(q) + Len(r) /\ DOMAIN (q \o r) = 1..(Len(q) + Len(r))
        /\ \A i \in 1..(Len(q) + Len(r)) : (q \o r)[i] = IF i <= Len(q) THEN q[i] ELSE r[i - Len(q)]
    OBVIOUS
  <2>2. DOMAIN q = 1..Len(q) /\ DOMAIN r = 1..Len(r) /\ Len(q) \in Nat /\ Len(r) \in Nat
    OBVIOUS
  <2>3. \A i \in DOMAIN q : i \in DOMAIN (q \o r) /\ (q \o r)[i] = q[i]
    BY <2>1, <2>2
  <2>4. \A i \in DOMAIN r : i + Len(q) \in DOMAIN (q \o r) /\ (q \o r)[i + Len(q)] = r[i]
    BY <2>1, <2>2
  <2>5. \A i \in DOMAIN (q \o r) : (q \o r)[i] \in Muts(q) \cup Muts(r)
    BY <2>1, <2>2 DEF Muts
  <2>. QED  BY ZenonT(30), <2>3, <2>4, <2>5 DEF Muts
<1>2. ASSUME NEW q \in Seq(Mutation), q # <<>>
      PROVE  /\ Head(q) \in Mutation /\ Tail(q) \in Seq(Mutation)
             /\ Muts(q) = {Head(q)} \cup Muts(Tail(q))
  <2>1. /\ Head(q) = q[1] /\ Tail(q) \in Seq(Mutation) /\ Len(Tail(q)) = Len(q) - 1 /\ Len(q) \in Nat \ {0}
        /\ DOMAIN q = 1..Len(q) /\ DOMAIN Tail(q) = 1..(Len(q) - 1)
        /\ \A i \in 1..(Len(q) - 1) : Tail(q)[i] = q[i + 1]
    BY <1>2
  <2>2. \A i \in DOMAIN q : i = 1 \/ (i - 1 \in DOMAIN Tail(q) /\ q[i] = Tail(q)[i - 1])
    BY <2>1
  <2>3. \A i \in DOMAIN Tail(q) : i + 1 \in DOMAIN q
    BY <2>1
  <2>4. Head(q) \in Mutation
    BY <2>1
  <2> DEFINE t == Tail(q)
  <2>5. t \in Seq(Mutation) /\ 1 \in DOMAIN q /\ \A i \in DOMAIN t : q[i + 1] = t[i]
    BY <2>1
  <2>6. \A i \in DOMAIN q : i = 1 \/ (i - 1 \in DOMAIN t /\ q[i] = t[i - 1])
    BY <2>2
  <2>7. \A i \in DOMAIN t : i + 1 \in DOMAIN q
    BY <2>3
  <2>. HIDE DEF t
  <2>8. Muts(q) = {q[1]} \cup Muts(t)
    <3>1. \A x \in Muts(q) : x = q[1] \/ x \in Muts(t)
      BY <2>6 DEF Muts
    <3>2. q[1] \in Muts(q) /\ \A x \in Muts(t) : x \in Muts(q)
      BY <2>5, <2>7 DEF Muts
    <3>. QED  BY <3>1, <3>2
  <2>. QED  BY <2>1, <2>4, <2>5, <2>8 DEF t
<1>3. Muts(<<>>) = {}
  BY DEF Muts
<1>. QED  BY <1>1, <1>2, <1>3

\* What a mutation that is done leaves to the rest of its operation.
LEMMA OneMutation ==
    ASSUME NEW A \in SUBSET Upstreams, NEW q \in Seq(Mutation), q # <<>>, NEW D, LeadsTo(A, q, D),
           NEW B, B = IF Head(q).kind = "add" THEN A \cup {Head(q).key} ELSE A \ {Head(q).key}
    PROVE  LeadsTo(B, Tail(q), D)
<1> DEFINE m == Head(q)
           t == Tail(q)
<1>1. m \in Mutation /\ t \in Seq(Mutation) /\ Muts(q) = {m} \cup Muts(t)
  BY MutsOfParts
<1>. HIDE DEF m, t
<1>2. m = [kind |-> m.kind, key |-> m.key] /\ m.kind \in {"add", "remove"} /\ m.key \in Upstreams
  BY <1>1 DEF Mutation
<1>3. CASE m.kind = "add"
  <2>1. Added(q) = Added(t) \cup {m.key} /\ Removed(q) = Removed(t)
    BY <1>1, <1>2, <1>3 DEF Added, Removed
  <2>2. B = A \cup {m.key}
    BY <1>3 DEF m
  <2>. QED  BY <2>1, <2>2 DEF LeadsTo, t
<1>4. CASE m.kind = "remove"
  <2>1. Added(q) = Added(t) /\ Removed(q) = Removed(t) \cup {m.key}
    BY <1>1, <1>2, <1>4 DEF Added, Removed
  <2>2. B = A \ {m.key}
    BY <1>4 DEF m
  <2>. QED  BY <2>1, <2>2 DEF LeadsTo, t
<1>. QED  BY <1>2, <1>3, <1>4

\* A reconciliation leads from what is applied to what is wanted; so does
\* the filling of an empty proxy.
LEMMA Reconciles ==
    ASSUME NEW A \in SUBSET Upstreams, NEW W \in SUBSET Upstreams
    PROVE  LET q == Mutations("remove", A \ W) \o Mutations("add", W \ A)
           IN  q \in Seq(Mutation) /\ LeadsTo(A, q, W)
<1> DEFINE r == Mutations("remove", A \ W)
           a == Mutations("add", W \ A)
<1>1. r \in Seq(Mutation) /\ Muts(r) = {[kind |-> "remove", key |-> u] : u \in A \ W}
  BY MutationsOf
<1>2. a \in Seq(Mutation) /\ Muts(a) = {[kind |-> "add", key |-> u] : u \in W \ A}
  BY MutationsOf
<1>. HIDE DEF r, a
<1>3. r \o a \in Seq(Mutation) /\ Muts(r \o a) = Muts(r) \cup Muts(a)
  BY <1>1, <1>2, MutsOfParts
<1>4. \A u : u \in W \ A <=> u \in Added(r \o a)
  BY <1>1, <1>2, <1>3 DEF Added
<1>5. \A u : u \in A \ W <=> u \in Removed(r \o a)
  BY <1>1, <1>2, <1>3 DEF Removed
<1>6. LeadsTo(A, r \o a, W)
  BY <1>4, <1>5 DEF LeadsTo
<1>. QED  BY <1>3, <1>6 DEF r, a

\* The calls of the controller keep the invariant.
LEMMA CallsOfProxy ==
    ASSUME ProxyInv, NEW wanted \in SUBSET Upstreams, ProxyStart(wanted) \/ SetUpstreams(wanted)
    PROVE  ProxyInv'
<1>1. CASE ProxyStart(wanted)
  <2> DEFINE q == Mutations("add", wanted)
  <2>1. q \in Seq(Mutation) /\ Muts(q) = {[kind |-> "add", key |-> u] : u \in wanted}
    BY MutationsOf
  <2>2. /\ proxy = "none" /\ proxy' = "starting" /\ desired' = wanted /\ jobs' = <<q>> /\ applied = {}
        /\ UNCHANGED <<applied, routes, overtaken>> /\ ~overtaken
    BY <1>1 DEF ProxyStart, ProxyInv, OnTheWay
  <2>. HIDE DEF q
  <2>3. Added(q) = wanted /\ Removed(q) = {}
    BY <2>1 DEF Added, Removed
  <2>4. LeadsTo({}, q, wanted)
    BY <2>3 DEF LeadsTo
  <2>5. jobs' \in Seq(Seq(Mutation)) /\ Len(jobs') = 1 /\ jobs'[1] = q
    BY <2>1, <2>2
  <2>. QED  BY <2>2, <2>4, <2>5 DEF ProxyInv, ProxyTyped, OnTheWay
<1>2. CASE SetUpstreams(wanted)
  <2> DEFINE q == Mutations("remove", applied \ wanted) \o Mutations("add", wanted \ applied)
  <2>1. /\ proxy = "running" /\ desired' = wanted /\ jobs' = Append(jobs, q)
        /\ UNCHANGED <<proxy, applied, failures, routes>>
    BY <1>2 DEF SetUpstreams, Reconcile
  <2>2. overtaken' \in BOOLEAN /\ (overtaken' <=> overtaken \/ jobs # <<>>)
    BY <1>2, Zenon DEF SetUpstreams
  <2>3. q \in Seq(Mutation) /\ LeadsTo(applied, q, wanted)
    BY Reconciles DEF ProxyInv, ProxyTyped
  <2>. HIDE DEF q
  <2>4. jobs \in Seq(Seq(Mutation))
    BY DEF ProxyInv, ProxyTyped
  <2>5. jobs' \in Seq(Seq(Mutation)) /\ (jobs = <<>> => Len(jobs') = 1 /\ jobs'[1] = q)
    BY <2>1, <2>3, <2>4
  <2>. QED  BY <2>1, <2>2, <2>3, <2>5 DEF ProxyInv, ProxyTyped, OnTheWay
<1>. QED  BY <1>1, <1>2

\* The running operation keeps it.
LEMMA OperationOfProxy ==
    ASSUME ProxyInv, AddOrRemove \/ Refuse \/ SkipMutation \/ OperationEnds
    PROVE  ProxyInv'
<1>1. jobs \in Seq(Seq(Mutation)) /\ jobs # <<>>
  BY DEF ProxyInv, ProxyTyped, AddOrRemove, Refuse, SkipMutation, OperationEnds, ProxyRunning
<1> DEFINE q == Head(jobs)
<1>2. /\ q \in Seq(Mutation) /\ q = jobs[1] /\ Tail(jobs) \in Seq(Seq(Mutation)) /\ Len(jobs) \in Nat
      /\ Len(Tail(jobs)) = Len(jobs) - 1 /\ Len(jobs) > 0
  BY <1>1
<1>. HIDE DEF q
<1>3. ASSUME NEW r \in Seq(Mutation), jobs' = <<r>> \o Tail(jobs)
      PROVE  jobs' \in Seq(Seq(Mutation)) /\ Len(jobs') = Len(jobs) /\ jobs'[1] = r
  BY <1>2, <1>3
<1>4. CASE AddOrRemove
  <2> DEFINE m == Head(q)
  <2>1. /\ q # <<>> /\ proxy \in {"starting", "running"} /\ jobs' = <<Tail(q)>> \o Tail(jobs)
        /\ routes' = (IF m.kind = "add" THEN routes \cup {m.key} ELSE routes \ {m.key})
        /\ applied' = (IF m.kind = "add" THEN applied \cup {m.key} ELSE applied \ {m.key})
        /\ UNCHANGED <<proxy, desired, overtaken>>
    BY <1>4 DEF AddOrRemove, ProxyRunning, Current, Advanced, Book, q
  <2>2. Tail(q) \in Seq(Mutation) /\ m \in Mutation
    BY <1>2, <2>1, MutsOfParts
  <2>3. jobs' \in Seq(Seq(Mutation)) /\ Len(jobs') = Len(jobs) /\ jobs'[1] = Tail(q)
    BY <1>3, <2>1, <2>2
  <2>4. applied' = routes' /\ applied' \subseteq Upstreams
    BY <2>1, <2>2 DEF ProxyInv, ProxyTyped, Mutation
  <2>5. LeadsTo(applied, q, desired) => LeadsTo(applied', Tail(q), desired)
    BY <1>2, <2>1, OneMutation DEF ProxyInv, ProxyTyped
  <2>6. ProxyTyped'
    BY <2>1, <2>3, <2>4 DEF ProxyInv, ProxyTyped
  <2>7. proxy = "starting" \/ ~overtaken => LeadsTo(applied, q, desired) /\ Len(jobs) = 1
    BY <1>2, <2>1 DEF ProxyInv, OnTheWay
  <2>8. OnTheWay'
    BY <2>1, <2>3, <2>5, <2>7 DEF ProxyInv, OnTheWay
  <2>. QED  BY <2>6, <2>8 DEF ProxyInv
<1>5. CASE Refuse
  <2>1. /\ proxy = "running" /\ failures' # {} /\ jobs' = <<<<>>>> \o Tail(jobs)
        /\ UNCHANGED <<proxy, desired, applied, routes, overtaken>>
    BY <1>5 DEF Refuse
  <2>2. <<>> \in Seq(Mutation)
    OBVIOUS
  <2>3. jobs' \in Seq(Seq(Mutation)) /\ Len(jobs') = Len(jobs) /\ jobs'[1] = <<>>
    BY <1>3, <2>1, <2>2
  <2>4. ProxyTyped'
    BY <2>1, <2>3 DEF ProxyInv, ProxyTyped
  <2>5. OnTheWay'
    BY <1>2, <2>1, <2>3 DEF ProxyInv, OnTheWay
  <2>. QED  BY <2>4, <2>5 DEF ProxyInv
<1>6. CASE SkipMutation
  <2>1. /\ q # <<>> /\ proxy = "stopping" /\ jobs' = <<Tail(q)>> \o Tail(jobs)
        /\ UNCHANGED <<proxy, desired, applied, routes, overtaken>>
    BY <1>6 DEF SkipMutation, ProxyRunning, Advanced, q
  <2>2. Tail(q) \in Seq(Mutation)
    BY <1>2, <2>1, MutsOfParts
  <2>3. jobs' \in Seq(Seq(Mutation))
    BY <1>3, <2>1, <2>2
  <2>. QED  BY <2>1, <2>3 DEF ProxyInv, ProxyTyped, OnTheWay
<1>7. CASE OperationEnds
  <2>1. /\ q = <<>> /\ proxy # "starting" /\ jobs' = Tail(jobs)
        /\ UNCHANGED <<proxy, desired, applied, failures, routes, overtaken>>
    BY <1>7 DEF OperationEnds, q
  <2>2. LeadsTo(applied, <<>>, desired) => applied = desired
    BY MutsOfParts DEF LeadsTo, Added, Removed
  <2>3. jobs' \in Seq(Seq(Mutation)) /\ Len(jobs') = Len(jobs) - 1
    BY <1>2, <2>1
  <2>4. ProxyTyped'
    BY <2>1, <2>3 DEF ProxyInv, ProxyTyped
  <2>5. proxy # "none"
    BY <1>1 DEF ProxyInv, OnTheWay
  <2>6. OnTheWay'
    BY <1>2, <2>1, <2>2, <2>3, <2>5 DEF ProxyInv, OnTheWay
  <2>. QED  BY <2>4, <2>6 DEF ProxyInv
<1>. QED  BY <1>4, <1>5, <1>6, <1>7

\* A proxy that listens, fails to start or stops.
LEMMA LifeOfProxy ==
    ASSUME ProxyInv, ProxyListens \/ ProxyStartFails \/ ProxyStop \/ ProxyStopped
    PROVE  ProxyInv'
<1>1. CASE ProxyListens
  <2>1. /\ proxy = "starting" /\ jobs = <<<<>>>> /\ proxy' = "running" /\ jobs' = <<>>
        /\ UNCHANGED <<desired, applied, routes, overtaken>>
    BY <1>1 DEF ProxyListens
  <2>2. LeadsTo(applied, <<>>, desired)
    BY <2>1 DEF ProxyInv, OnTheWay
  <2>3. applied = desired
    BY <2>2, MutsOfParts DEF LeadsTo, Added, Removed
  <2>4. jobs' \in Seq(Seq(Mutation)) /\ Len(jobs') = 0
    BY <2>1
  <2>. QED  BY <2>1, <2>3, <2>4 DEF ProxyInv, ProxyTyped, OnTheWay
<1>2. CASE ProxyStartFails
  <2>1. /\ proxy' = "stopped" /\ applied' = {} /\ routes' = {} /\ jobs' = <<>>
        /\ UNCHANGED <<desired, overtaken>>
    BY <1>2 DEF ProxyStartFails
  <2>2. jobs' \in Seq(Seq(Mutation))
    BY <2>1
  <2>. QED  BY <2>1, <2>2 DEF ProxyInv, ProxyTyped, OnTheWay
<1>3. CASE ProxyStop
  BY <1>3 DEF ProxyStop, ProxyInv, ProxyTyped, OnTheWay
<1>4. CASE ProxyStopped
  BY <1>4 DEF ProxyStopped, ProxyInv, ProxyTyped, OnTheWay
<1>. QED  BY <1>1, <1>2, <1>3, <1>4

\* The proxy routes to what the runtimes last announced, and says so
\* truly, whatever refusals came before: it says ready only when its
\* routes are the desired ones, and a quiet proxy without failures has
\* applied the last call unless two overlapped.  (ProxyController)
THEOREM ProxyRoutesTrue == ProxySpec => []ProxySound
<1>1. ProxyInit => ProxyInv
  <2>1. SUFFICES ASSUME ProxyInit  PROVE  ProxyInv
    OBVIOUS
  <2>2. jobs \in Seq(Seq(Mutation))
    BY <2>1 DEF ProxyInit
  <2>. QED  BY <2>1, <2>2 DEF ProxyInit, ProxyInv, ProxyTyped, OnTheWay
<1>2. ProxyInv /\ [ProxyNext]_proxyVars => ProxyInv'
  <2>1. SUFFICES ASSUME ProxyInv, [ProxyNext]_proxyVars  PROVE  ProxyInv'
    OBVIOUS
  <2>2. CASE UNCHANGED proxyVars
    BY <2>1, <2>2 DEF proxyVars, ProxyInv, ProxyTyped, OnTheWay
  <2>3. CASE ProxyNext
    BY <2>1, <2>3, CallsOfProxy, OperationOfProxy, LifeOfProxy DEF ProxyNext
  <2>. QED  BY <2>1, <2>2, <2>3
<1>3. ProxyInv => ProxySound
  <2>1. SUFFICES ASSUME ProxyInv  PROVE  ProxySound
    OBVIOUS
  <2>2. jobs = <<>> => Len(jobs) = 0
    OBVIOUS
  <2>. QED  BY <2>1, <2>2 DEF ProxyInv, ProxyTyped, OnTheWay, ProxySound, ReadyIsRouted, QuietIsApplied, ProxyReady
<1>. QED  BY <1>1, <1>2, <1>3, PTL DEF ProxySpec

-----------------------------------------------------------------------------
(* The deployment of workers.                                              *)

\* What the coordinator can send is among the names the check collects.
LEMMA SendsAreCollected ==
    ASSUME NEW nodes \in NodeSets, NEW c \in Sends(nodes)
    PROVE  \/ c.field = "activityNames" /\ c.name \in collectWorkflowActivityNames(nodes)
           \/ c.field = "taskNames" /\ c.name \in collectWorkflowTaskNames(nodes)
<1> DEFINE deep == {x \in nodes : x.kind \in {"branch", "parallel"}}
           leaves == {n \in nodes : n.kind \notin {"branch", "parallel"}} \cup UNION {n.cases : n \in deep}
<1>1. PICK l \in {x \in leaves : x.kind \in {"activity", "task", "mapTask"}} :
        c = [field |-> IF l.kind = "activity" THEN "activityNames" ELSE "taskNames", name |-> l.name]
  BY DEF Sends
<1>2. c.name = l.name /\ c.field = IF l.kind = "activity" THEN "activityNames" ELSE "taskNames"
  BY <1>1
<1>3. CASE l \in nodes
  BY <1>1, <1>2, <1>3 DEF collectWorkflowActivityNames, collectWorkflowTaskNames, Members
<1>4. CASE \E n \in deep : l \in n.cases
  <2>1. PICK n \in deep : l \in n.cases
    BY <1>4
  <2>2. l.kind \in {"activity", "task"}
    BY <1>1, <2>1, DeployAssumption
  <2>3. ASSUME NEW plain, NEW kind, l.kind = kind  PROVE  l.name \in Members(nodes, plain, kind)
    <3> DEFINE inside == {{m.name : m \in {y \in x.cases : y.kind = kind}} : x \in deep}
    <3>1. l.name \in {m.name : m \in {y \in n.cases : y.kind = kind}}
      BY <2>1, <2>3
    <3>2. {m.name : m \in {y \in n.cases : y.kind = kind}} \in inside
      BY <2>1
    <3>3. l.name \in UNION inside
      BY <3>1, <3>2
    <3>. QED  BY <3>3 DEF Members
  <2>. QED  BY <1>2, <2>2, <2>3 DEF collectWorkflowActivityNames, collectWorkflowTaskNames
<1>. QED  BY <1>1, <1>3, <1>4

\* The names a pool may list under a field: the activities of the
\* workflows, or the tasks.
Registered(nodes, tasks, field) ==
    IF field = "activityNames" THEN collectWorkflowActivityNames(nodes) ELSE tasks

\* Exactly one pool serves a registered name, and it has a thread.
LEMMA ServedByOne ==
    ASSUME NEW pools \in PoolLists, NEW nodes \in NodeSets, NEW tasks,
           Accepted(pools, nodes, tasks), \A k \in DOMAIN pools : pools[k].threads > 0,
           NEW field \in {"activityNames", "taskNames"}, NEW name \in Registered(nodes, tasks, field)
    PROVE  \E k \in DOMAIN pools :
             {j \in DOMAIN ResolvePools(pools, nodes, tasks) :
                  /\ name \in ResolvePools(pools, nodes, tasks)[j][field]
                  /\ ResolvePools(pools, nodes, tasks)[j].threads > 0} = {k}
<1> DEFINE P == ResolvePools(pools, nodes, tasks)
           Own(k) == Names(pools[k][field])
           claimed == ClaimedBy(pools, field)
           registered == Registered(nodes, tasks, field)
<1>1. /\ DOMAIN P = DOMAIN pools
      /\ \A k \in DOMAIN pools : P[k].threads > 0
  BY DEF ResolvePools
<1>2. \A k \in DOMAIN pools :
        P[k][field] = IF pools[k][field] # Omitted THEN Own(k) ELSE Rest(pools[k], registered, claimed)
  <2>1. CASE field = "activityNames"
    BY <2>1 DEF ResolvePools, Registered
  <2>2. CASE field = "taskNames"
    BY <2>2 DEF ResolvePools, Registered
  <2>. QED  BY <2>1, <2>2
<1>3. \A j, k \in DOMAIN pools : j # k => Own(j) \cap Own(k) = {}
  BY DEF Accepted, ClaimedOnce
<1>4. \A j, k \in DOMAIN pools : CatchAll(pools[j]) /\ CatchAll(pools[k]) => j = k
  <2> DEFINE S == {k \in DOMAIN pools : CatchAll(pools[k])}
  <2>1. IsFiniteSet(S) /\ Cardinality(S) <= 1 /\ Cardinality(S) \in Nat
    <3>1. IsFiniteSet(DOMAIN pools) /\ S \in SUBSET DOMAIN pools
      BY DeployAssumption
    <3>2. Cardinality(S) <= 1
      BY DEF Accepted
    <3>. HIDE DEF S
    <3>. QED  BY <3>1, <3>2, FS_Subset, FS_CardinalityType
  <2>. HIDE DEF S
  <2>2. Cardinality(S) = 0 \/ Cardinality(S) = 1
    BY <2>1
  <2>3. S = {} \/ \E x : S = {x}
    BY <2>1, <2>2, FS_EmptySet, FS_Singleton
  <2>. QED  BY <2>3 DEF S
<1>5. \A k \in DOMAIN pools : CatchAll(pools[k]) => pools[k][field] = Omitted
  BY DEF CatchAll
<1>6. \A k \in DOMAIN pools : pools[k][field] = Omitted => Own(k) = {}
  BY DEF Names
<1>7. name \in claimed <=> \E k \in DOMAIN pools : name \in Own(k)
  BY DEF ClaimedBy
<1>8. name \in claimed \/ \E k \in DOMAIN pools : CatchAll(pools[k])
  BY DEF Accepted, Covered, Registered
<1>9. name \in registered
  OBVIOUS
<1>. HIDE DEF P, Own, claimed, registered
<1>10. \A k \in DOMAIN pools :
         name \in P[k][field] <=> name \in Own(k) \/ (CatchAll(pools[k]) /\ name \notin claimed)
  BY <1>2, <1>5, <1>6, <1>9 DEF Rest
<1>11. \A j, k \in DOMAIN pools : name \in P[j][field] /\ name \in P[k][field] => j = k
  BY <1>3, <1>4, <1>7, <1>10
<1>12. PICK k \in DOMAIN pools : name \in P[k][field]
  BY <1>7, <1>8, <1>10
<1>13. {j \in DOMAIN P : name \in P[j][field] /\ P[j].threads > 0} = {k}
  BY <1>1, <1>11, <1>12
<1>. QED  BY <1>13 DEF P

\* The configuration is one the check accepted; a stop that has passed a
\* stage has left nothing of it open, and nothing is opened once it began,
\* nor does it begin again.
Deployed ==
    \/ config = NoConfig
    \/ \E pools \in PoolLists, nodes \in NodeSets, tasks \in TaskSets :
         /\ Accepted(pools, nodes, tasks)
         /\ \A k \in DOMAIN pools : pools[k].threads > 0
         /\ config = [nodes |-> nodes, tasks |-> tasks, pools |-> ResolvePools(pools, nodes, tasks)]

Hold == {"none", "open", "closed", "broken"}
StopStages == {"none", "loop", "stopHook", "beforeDispose", "adapter", "afterDispose", "execution", "stopped"}

GivenBack ==
    /\ "at" \in DOMAIN worker
    /\ holds \in [execution : Hold, adapter : Hold, loop : Hold]
    /\ stage \in StopStages
    /\ stage # "none" => stopAsked \/ worker.at = "failed"
    /\ stage \notin {"none", "loop"} => holds.loop # "open"
    /\ stage \in {"afterDispose", "execution", "stopped"} => holds.adapter # "open"
    /\ stage = "stopped" => holds.execution # "open"
    /\ holds.adapter = "closed" => stage \in {"afterDispose", "execution", "stopped"}
    /\ holds.execution = "closed" => stage = "stopped"

DeployInv == Deployed /\ GivenBack

\* The stages of a stop follow each other.
LEMMA StagesInOrder ==
    /\ NextStage("loop") = "stopHook" /\ NextStage("stopHook") = "beforeDispose"
    /\ NextStage("beforeDispose") = "adapter" /\ NextStage("adapter") = "afterDispose"
    /\ NextStage("afterDispose") = "execution" /\ NextStage("execution") = "stopped"
<1>1. /\ DOMAIN StopOrder = 1..7 /\ StopOrder[1] = "loop" /\ StopOrder[2] = "stopHook"
      /\ StopOrder[3] = "beforeDispose" /\ StopOrder[4] = "adapter" /\ StopOrder[5] = "afterDispose"
      /\ StopOrder[6] = "execution" /\ StopOrder[7] = "stopped"
  BY DEF StopOrder
<1>2. \A i, j \in 1..7 : StopOrder[i] = StopOrder[j] => i = j
  BY <1>1
<1>3. ASSUME NEW i \in 1..6  PROVE  NextStage(StopOrder[i]) = StopOrder[i + 1]
  <2>1. (CHOOSE k \in DOMAIN StopOrder : StopOrder[k] = StopOrder[i]) = i
    BY <1>1, <1>2
  <2>. QED  BY <2>1 DEF NextStage
<1>4. /\ NextStage(StopOrder[1]) = StopOrder[2] /\ NextStage(StopOrder[2]) = StopOrder[3]
      /\ NextStage(StopOrder[3]) = StopOrder[4] /\ NextStage(StopOrder[4]) = StopOrder[5]
      /\ NextStage(StopOrder[5]) = StopOrder[6] /\ NextStage(StopOrder[6]) = StopOrder[7]
  <2>1. 1 + 1 = 2 /\ 2 + 1 = 3 /\ 3 + 1 = 4 /\ 4 + 1 = 5 /\ 5 + 1 = 6 /\ 6 + 1 = 7
    OBVIOUS
  <2>2. {1, 2, 3, 4, 5, 6} \subseteq 1..6
    OBVIOUS
  <2>. QED  BY <1>3, <2>1, <2>2
<1>. QED  BY <1>1, <1>4

\* The start and the stop of a worker give back what they took.
LEMMA GivenBackKeeps ==
    ASSUME GivenBack, DeployNext
    PROVE  GivenBack'
<1>1. CASE UNCHANGED <<holds, stage, stopAsked>> /\ (worker' = worker \/ (worker.at # "failed" /\ "at" \in DOMAIN worker'))
  BY <1>1 DEF GivenBack
<1>2. CASE StartStep
  <2>1. /\ stage = "none" /\ stage' = stage
        /\ \/ holds' = [holds EXCEPT !.execution = "open"] \/ holds' = [holds EXCEPT !.adapter = "open"]
           \/ holds' = [holds EXCEPT !.loop = "open"] \/ holds' = holds
    BY <1>2 DEF StartStep
  <2>2. "at" \in DOMAIN worker'
    <3>1. worker' = [worker EXCEPT !.at = After(worker.at)]
      BY <1>2 DEF StartStep
    <3>. QED  BY <3>1 DEF GivenBack
  <2>. QED  BY <2>1, <2>2 DEF GivenBack, Hold
<1>3. CASE StartThrows
  <2>1. stage = "none" /\ stage' = "loop" /\ holds' = holds /\ worker' = [worker EXCEPT !.at = "failed"]
    BY <1>3 DEF StartThrows
  <2>2. worker'.at = "failed" /\ "at" \in DOMAIN worker'
    BY <2>1 DEF GivenBack
  <2>. QED  BY <2>1, <2>2 DEF GivenBack, StopStages
<1>4. CASE LoopEnds
  BY <1>4 DEF LoopEnds, GivenBack, Hold
<1>5. CASE StopMessage
  <2>1. CASE stage = "none"
    BY <1>5, <2>1 DEF StopMessage, GivenBack, StopStages
  <2>2. CASE stage # "none"
    BY <1>5, <2>2 DEF StopMessage, GivenBack, StopStages
  <2>. QED  BY <2>1, <2>2
<1>6. CASE StopStage
  <2>1. /\ stage \in StopStages \ {"none", "stopped"} /\ stage' = NextStage(stage)
        /\ UNCHANGED <<worker, stopAsked>>
    BY <1>6 DEF StopStage, GivenBack
  <2>2. stage = "loop" => holds.loop # "open"
    BY <1>6 DEF StopStage
  <2>3. holds' = IF stage \in {"adapter", "execution"} /\ holds[stage] = "open"
                 THEN [holds EXCEPT ![stage] = "closed"] ELSE holds
    BY <1>6 DEF StopStage
  <2>4. CASE stage = "adapter"
    BY <2>3, <2>4, <2>1, StagesInOrder DEF GivenBack, StopStages, Hold
  <2>5. CASE stage = "execution"
    BY <2>3, <2>5, <2>1, StagesInOrder DEF GivenBack, StopStages, Hold
  <2>6. CASE stage \notin {"adapter", "execution"}
    BY <2>1, <2>2, <2>3, <2>6, StagesInOrder DEF GivenBack, StopStages
  <2>. QED  BY <2>4, <2>5, <2>6
<1>7. CASE RuntimeCreated \/ FinishedSeen \/ StopReturns \/ Terminated
  BY <1>1, <1>7 DEF RuntimeCreated, FinishedSeen, StopReturns, Terminated, GivenBack
<1>8. ASSUME NEW pools, NEW nodes, NEW tasks, Plan(pools, nodes, tasks)  PROVE  GivenBack'
  BY <1>1, <1>8 DEF Plan
<1>9. ASSUME NEW role, NEW pool, NEW scheduled, Spawn(role, pool, scheduled)  PROVE  GivenBack'
  BY <1>1, <1>9 DEF Spawn, NoWorker
<1>. QED  BY <1>2, <1>3, <1>4, <1>5, <1>6, <1>7, <1>8, <1>9 DEF DeployNext

\* The configuration stays one that the check accepted.
LEMMA DeployedKeeps ==
    ASSUME Deployed, DeployNext
    PROVE  Deployed'
<1>1. CASE UNCHANGED config
  BY <1>1 DEF Deployed, NoConfig
<1>2. ASSUME NEW pools \in PoolLists, NEW nodes \in NodeSets, NEW tasks \in TaskSets, Plan(pools, nodes, tasks)
      PROVE  Deployed'
  <2>1. /\ Accepted(pools, nodes, tasks)
        /\ \A k \in DOMAIN pools : pools[k].threads > 0
        /\ config' = [nodes |-> nodes, tasks |-> tasks, pools |-> ResolvePools(pools, nodes, tasks)]
    BY <1>2 DEF Plan
  <2>. QED  BY <2>1 DEF Deployed
<1>3. ASSUME NEW role, NEW pool, NEW scheduled, Spawn(role, pool, scheduled)  PROVE  UNCHANGED config
  BY <1>3 DEF Spawn
<1>4. CASE RuntimeCreated \/ StartStep \/ StartThrows \/ LoopEnds \/ FinishedSeen \/ StopMessage
           \/ StopStage \/ StopReturns \/ Terminated
  BY <1>1, <1>4 DEF RuntimeCreated, StartStep, StartThrows, LoopEnds, FinishedSeen, StopMessage, StopStage,
                    StopReturns, Terminated
<1>. QED  BY <1>1, <1>2, <1>3, <1>4 DEF DeployNext

\* An accepted configuration routes every attempt to exactly one pool.
LEMMA AcceptedIsRouted ==
    ASSUME Deployed
    PROVE  RoutedExactlyOnce
<1>1. CASE config = NoConfig
  <2>1. config.nodes = {} /\ config.tasks = {}
    BY <1>1 DEF NoConfig
  <2>. QED  BY <2>1 DEF RoutedExactlyOnce, Sends
<1>2. ASSUME NEW pools \in PoolLists, NEW nodes \in NodeSets, NEW tasks \in TaskSets,
             Accepted(pools, nodes, tasks), \A k \in DOMAIN pools : pools[k].threads > 0,
             config = [nodes |-> nodes, tasks |-> tasks, pools |-> ResolvePools(pools, nodes, tasks)]
      PROVE  RoutedExactlyOnce
  <2>1. config.nodes = nodes /\ config.tasks = tasks /\ config.pools = ResolvePools(pools, nodes, tasks)
    BY <1>2
  <2>2. ASSUME NEW c \in Sends(nodes) \cup [field : {"taskNames"}, name : tasks]
        PROVE  c.field \in {"activityNames", "taskNames"} /\ c.name \in Registered(nodes, tasks, c.field)
    <3>1. CASE c \in Sends(nodes)
      <4>1. collectWorkflowTaskNames(nodes) \subseteq tasks
        BY <1>2 DEF Accepted
      <4>. QED  BY <3>1, <4>1, SendsAreCollected DEF Registered
    <3>2. CASE c \in [field : {"taskNames"}, name : tasks]
      BY <3>2 DEF Registered
    <3>. QED  BY <2>2, <3>1, <3>2
  <2>3. ASSUME NEW c \in Sends(nodes) \cup [field : {"taskNames"}, name : tasks]
        PROVE  Cardinality({k \in DOMAIN config.pools :
                 c.name \in config.pools[k][c.field] /\ config.pools[k].threads > 0}) = 1
    <3>1. PICK k \in DOMAIN pools :
            {j \in DOMAIN ResolvePools(pools, nodes, tasks) :
                 /\ c.name \in ResolvePools(pools, nodes, tasks)[j][c.field]
                 /\ ResolvePools(pools, nodes, tasks)[j].threads > 0} = {k}
      BY <1>2, <2>2, ServedByOne
    <3>. QED  BY <2>1, <3>1, FS_Singleton
  <2>. QED  BY <2>1, <2>3 DEF RoutedExactlyOnce
<1>. QED  BY <1>1, <1>2 DEF Deployed

\* A deployment that the pool check accepts serves every name once, and
\* its workers leave in order: for every list of pools, every set of
\* registered workflows and tasks, and every way a start or a stop fails.
THEOREM WorkersServeAndLeave == DeploySpec => []DeploymentSound
<1>1. DeployInit => DeployInv
  BY DEF DeployInit, DeployInv, Deployed, GivenBack, NoWorker, Hold, StopStages
<1>2. DeployInv /\ [DeployNext]_deployVars => DeployInv'
  <2>1. SUFFICES ASSUME DeployInv, [DeployNext]_deployVars  PROVE  DeployInv'
    OBVIOUS
  <2>2. CASE UNCHANGED deployVars
    BY <2>1, <2>2 DEF deployVars, DeployInv, Deployed, GivenBack, NoConfig
  <2>3. CASE DeployNext
    BY <2>1, <2>3, DeployedKeeps, GivenBackKeeps DEF DeployInv
  <2>. QED  BY <2>1, <2>2, <2>3
<1>3. DeployInv => DeploymentSound
  <2>1. SUFFICES ASSUME DeployInv  PROVE  DeploymentSound
    OBVIOUS
  <2>2. RoutedExactlyOnce
    BY <2>1, AcceptedIsRouted DEF DeployInv
  <2>3. LoopKeepsItsAdapter /\ StoppedIsReleased
    BY <2>1 DEF DeployInv, GivenBack, LoopKeepsItsAdapter, StoppedIsReleased
  <2>. QED  BY <2>2, <2>3 DEF DeploymentSound
<1>. QED  BY <1>1, <1>2, <1>3, PTL DEF DeploySpec

-----------------------------------------------------------------------------
(* The lifecycle of a server.                                              *)

\* A stack with one teardown at the bottom and n of another kind on it.
Piled(bottom, layer, n) == [i \in 1..(n + 1) |-> IF i = 1 THEN bottom ELSE layer]

TransportStack == Piled("socket", "handler", mounted)
ServiceStack == Piled("stopHook", "service", services)
HostStack == <<"application", "services", "gateway">>
BaseStack == <<"application", "services">>

\* Whoever has stack l, an unwinding or the stacks, has to release exactly
\* what the transport, or the services, still hold.
TransportIn(l) == l = TransportStack \/ (l = <<>> /\ mounted = 0 /\ ~bound)
ServicesIn(l) == l = ServiceStack \/ (l = <<>> /\ services = 0)

LifeTyped ==
    /\ life \in {"idle", "starting", "running", "stopping"}
    /\ ops \in Seq({"start", "stop"})
    /\ step \in {"none", "application", "mount", "hooks"}
    /\ app = [state |-> app.state, leaked |-> app.leaked] /\ app.state \in {"none", "live", "disposed"}
    /\ mounted \in 0..Handlers /\ services \in Nat
    /\ reload \in {"none", "creating"} /\ issued \in Nat

AppServes == app.state = "live" \/ reload # "none" \/ crossed
AppGone == app.state = "live" => crossed

StacksAre(h, g, t, s) ==
    /\ DOMAIN stacks = StackNames
    /\ stacks["host"] = h /\ stacks["gateway"] = g
    /\ stacks["transport"] = t /\ stacks["services"] = s

Nothing == TransportIn(<<>>) /\ ServicesIn(<<>>)

\* Between the calls, and at each point of a start, what is held is what
\* the stacks will release.
LifeAtRest ==
    frames = <<>> =>
      /\ step = "none" =>
           \/ life = "idle" /\ StacksAre(<<>>, <<>>, <<>>, <<>>) /\ Nothing /\ AppGone
           \/ life = "running" /\ AppServes
                /\ StacksAre(HostStack, <<"transport">>, TransportStack, ServiceStack)
      /\ step # "none" => life = "starting"
      /\ step = "application" => StacksAre(<<>>, <<>>, <<>>, <<>>) /\ Nothing /\ AppGone
      /\ step = "mount" =>
           /\ AppServes /\ ServicesIn(<<>>) /\ ~bound
           /\ StacksAre(BaseStack, <<>>, IF mounted = 0 THEN <<>> ELSE TransportStack, <<>>)
      /\ step = "hooks" =>
           AppServes /\ StacksAre(HostStack, <<"transport">>, TransportStack, ServiceStack)

Frame(s, l) == [of |-> s, left |-> l]

\* The unwindings under way, in the order they come: the gateway, with the
\* transport inside it, the services, the application.
Unwinding ==
    \/ /\ frames = <<Frame("host", HostStack)>>
       /\ StacksAre(<<>>, <<"transport">>, stacks["transport"], stacks["services"])
       /\ TransportIn(stacks["transport"]) /\ ServicesIn(stacks["services"]) /\ AppServes
    \/ /\ frames = <<Frame("host", BaseStack), Frame("gateway", <<"transport">>)>>
       /\ StacksAre(<<>>, <<>>, stacks["transport"], stacks["services"])
       /\ TransportIn(stacks["transport"]) /\ ServicesIn(stacks["services"]) /\ AppServes
    \/ /\ frames = <<Frame("host", BaseStack), Frame("gateway", <<>>), Frame("transport", Top.left)>>
       /\ StacksAre(<<>>, <<>>, <<>>, stacks["services"])
       /\ TransportIn(Top.left) /\ ServicesIn(stacks["services"]) /\ AppServes
    \/ /\ frames \in {<<Frame("host", BaseStack), Frame("gateway", <<>>)>>, <<Frame("host", BaseStack)>>}
       /\ StacksAre(<<>>, <<>>, <<>>, stacks["services"])
       /\ TransportIn(<<>>) /\ ServicesIn(stacks["services"]) /\ AppServes
    \/ /\ frames = <<Frame("host", <<"application">>), Frame("services", Top.left)>>
       /\ StacksAre(<<>>, <<>>, <<>>, <<>>)
       /\ TransportIn(<<>>) /\ ServicesIn(Top.left) /\ AppServes
    \/ /\ frames = <<Frame("host", <<"application">>)>>
       /\ StacksAre(<<>>, <<>>, <<>>, <<>>) /\ Nothing
    \/ /\ frames = <<Frame("host", <<>>)>>
       /\ StacksAre(<<>>, <<>>, <<>>, <<>>) /\ Nothing /\ AppGone

LifeInv ==
    /\ LifeTyped
    /\ LifeAtRest
    /\ frames # <<>> => step = "none" /\ life \in {"starting", "stopping"} /\ Unwinding
    /\ reload # "none" => crossed \/ (life = "running" /\ Idling)

\* TeardownStack.unwind takes a pile down from the top.
LEMMA PileTakenDown ==
    ASSUME NEW bottom, NEW layer, NEW n \in Nat
    PROVE  LET p == Piled(bottom, layer, n) IN
           /\ p \in Seq({bottom, layer}) /\ Len(p) = n + 1 /\ p # <<>> /\ p[1] = bottom
           /\ UnwoundOrder(p) = <<IF n = 0 THEN bottom ELSE layer,
                                  IF n = 0 THEN <<>> ELSE Piled(bottom, layer, n - 1)>>
           /\ Append(p, layer) = Piled(bottom, layer, n + 1)
<1> DEFINE p == Piled(bottom, layer, n)
<1>1. p \in Seq({bottom, layer}) /\ Len(p) = n + 1 /\ p # <<>> /\ p[1] = bottom
  BY DEF Piled
<1>2. p[Len(p)] = IF n = 0 THEN bottom ELSE layer
  BY <1>1 DEF Piled
<1>3. SubSeq(p, 1, Len(p) - 1) = IF n = 0 THEN <<>> ELSE Piled(bottom, layer, n - 1)
  BY <1>1 DEF Piled
<1>4. Append(p, layer) = Piled(bottom, layer, n + 1)
  BY <1>1 DEF Piled
<1>5. QED
  BY <1>1, <1>2, <1>3, <1>4 DEF UnwoundOrder

\* Sequences of two and three, put together and taken apart.
LEMMA AppendToOne == ASSUME NEW a, NEW b PROVE Append(<<a>>, b) = <<a, b>>
<1> DEFINE s == Append(<<a>>, b)
           t == <<a, b>>
<1>1. <<a>> \in Seq({a, b}) /\ t \in Seq({a, b})
  OBVIOUS
<1>2. s \in Seq({a, b}) /\ Len(s) = 2 /\ Len(t) = 2
  BY <1>1
<1>3. \A i \in 1..2 : s[i] = t[i]
  BY <1>1
<1>4. QED
  BY <1>1, <1>2, <1>3, SeqEqual

\* The same with three.
LEMMA AppendToTwo == ASSUME NEW a, NEW b, NEW c PROVE Append(<<a, b>>, c) = <<a, b, c>>
<1> DEFINE s == Append(<<a, b>>, c)
           t == <<a, b, c>>
<1>1. <<a, b>> \in Seq({a, b, c}) /\ t \in Seq({a, b, c})
  OBVIOUS
<1>2. s \in Seq({a, b, c}) /\ Len(s) = 3 /\ Len(t) = 3
  BY <1>1
<1>3. \A i \in 1..3 : s[i] = t[i]
  BY <1>1
<1>4. QED
  BY <1>1, <1>2, <1>3, SeqEqual

\* Two less one.
LEMMA FrontOfTwo == ASSUME NEW a, NEW b PROVE SubSeq(<<a, b>>, 1, 1) = <<a>>
<1> DEFINE s == SubSeq(<<a, b>>, 1, 1)
           t == <<a>>
<1>1. <<a, b>> \in Seq({a, b}) /\ t \in Seq({a, b})
  OBVIOUS
<1>2. s \in Seq({a, b}) /\ Len(s) = 1 /\ Len(t) = 1
  BY <1>1
<1>3. \A i \in 1..1 : s[i] = t[i]
  BY <1>1
<1>4. QED
  BY <1>1, <1>2, <1>3, SeqEqual

\* Three less one.
LEMMA FrontOfThree == ASSUME NEW a, NEW b, NEW c PROVE SubSeq(<<a, b, c>>, 1, 2) = <<a, b>>
<1> DEFINE s == SubSeq(<<a, b, c>>, 1, 2)
           t == <<a, b>>
<1>1. <<a, b, c>> \in Seq({a, b, c}) /\ t \in Seq({a, b, c})
  OBVIOUS
<1>2. s \in Seq({a, b, c}) /\ Len(s) = 2 /\ Len(t) = 2
  BY <1>1
<1>3. \A i \in 1..2 : s[i] = t[i]
  BY <1>1
<1>4. QED
  BY <1>1, <1>2, <1>3, SeqEqual

\* Nothing is held before the first start.
LEMMA LifeStarts == LifeInit => LifeInv
<1> SUFFICES ASSUME LifeInit PROVE LifeInv
  OBVIOUS
<1>1. StacksAre(<<>>, <<>>, <<>>, <<>>)
  BY DEF LifeInit, StacksAre, StackNames
<1>2. LifeTyped
  <2>1. app = [state |-> app.state, leaked |-> app.leaked] /\ app.state = "none"
    BY DEF LifeInit
  <2>2. ops \in Seq({"start", "stop"}) /\ mounted \in 0..Handlers
    BY LifecycleAssumption DEF LifeInit
  <2>3. QED
    BY <2>1, <2>2 DEF LifeInit, LifeTyped
<1>3. Nothing /\ AppGone
  BY DEF LifeInit, Nothing, TransportIn, ServicesIn, AppGone
<1>4. QED
  BY <1>1, <1>2, <1>3 DEF LifeInit, LifeInv, LifeAtRest

\* Calls that only queue, and those that find nothing to do.
LEMMA LifeHolds ==
    ASSUME LifeInv, UNCHANGED <<life, step, stacks, frames, app, mounted, bound, services, reload, crossed>>,
           ops' \in Seq({"start", "stop"}), issued' \in Nat
    PROVE  LifeInv'
<1>1. LifeTyped'
  BY DEF LifeInv, LifeTyped
<1>2. LifeAtRest'
  BY DEF LifeInv, LifeAtRest, StacksAre, Nothing, TransportIn, ServicesIn, AppGone, AppServes, TransportStack, ServiceStack
<1>3. Unwinding' = Unwinding
  BY DEF Unwinding, StacksAre, Nothing, TransportIn, ServicesIn, AppGone, AppServes, TransportStack, ServiceStack, Top
<1>4. QED
  BY <1>1, <1>2, <1>3 DEF LifeInv, Idling

\* A call only queues.
LEMMA LifeCalls ==
    ASSUME LifeInv, NEW call \in {"start", "stop"}, LifecycleCall(call)
    PROVE  LifeInv'
<1>1. ops' \in Seq({"start", "stop"}) /\ issued' \in Nat
  BY LifecycleAssumption DEF LifeInv, LifeTyped, LifecycleCall
<1>2. QED
  BY <1>1, LifeHolds DEF LifecycleCall

\* A start begins on an idle host only.
LEMMA LifeBeginStart == ASSUME LifeInv, BeginStart PROVE LifeInv'
<1>1. ops' \in Seq({"start", "stop"}) /\ issued' \in Nat
  BY DEF LifeInv, LifeTyped, BeginStart
<1>2. CASE life # "idle"
  BY <1>1, <1>2, LifeHolds DEF BeginStart
<1>3. CASE life = "idle"
  <2>1. LifeTyped'
    BY <1>1, <1>3 DEF BeginStart, LifeInv, LifeTyped
  <2>2. StacksAre(<<>>, <<>>, <<>>, <<>>) /\ Nothing /\ AppGone
    BY <1>3 DEF LifeInv, LifeAtRest, BeginStart, Idling
  <2>3. StacksAre(<<>>, <<>>, <<>>, <<>>)' /\ Nothing' /\ AppGone'
    BY <2>2, <1>3 DEF BeginStart, StacksAre, Nothing, TransportIn, ServicesIn, AppGone, TransportStack, ServiceStack
  <2>4. reload' # "none" => crossed'
    BY <1>3 DEF BeginStart
  <2>5. QED
    BY <2>1, <2>3, <2>4, <1>3 DEF BeginStart, LifeInv, LifeAtRest, Idling
<1>4. QED
  BY <1>2, <1>3

\* A stop of a running host takes its stack.
LEMMA LifeBeginStop == ASSUME LifeInv, BeginStop PROVE LifeInv'
<1>1. ops' \in Seq({"start", "stop"}) /\ issued' \in Nat
  BY DEF LifeInv, LifeTyped, BeginStop
<1>2. CASE life # "running"
  BY <1>1, <1>2, LifeHolds DEF BeginStop
<1>3. CASE life = "running"
  <2>1. LifeTyped'
    BY <1>1, <1>3 DEF BeginStop, LifeInv, LifeTyped
  <2>2. StacksAre(HostStack, <<"transport">>, TransportStack, ServiceStack) /\ AppServes
    BY <1>3 DEF LifeInv, LifeAtRest, BeginStop, Idling
  <2>3. StacksAre(<<>>, <<"transport">>, TransportStack, ServiceStack)'
    BY <2>2, <1>3 DEF BeginStop, StacksAre, StackNames, TransportStack, ServiceStack
  <2>4. frames' = <<Frame("host", HostStack)>>
    BY <2>2, <1>3 DEF BeginStop, Frame, StacksAre
  <2>5. AppServes'
    BY <2>2, <1>3 DEF AppServes, BeginStop
  <2>6. Unwinding'
    BY <2>3, <2>4, <2>5 DEF Unwinding, TransportIn, ServicesIn, StacksAre, StackNames
  <2>7. reload' # "none" => crossed'
    BY <1>3 DEF BeginStop
  <2>8. frames' # <<>> /\ step' = "none" /\ life' = "stopping"
    BY <2>4, <1>3 DEF BeginStop, Idling
  <2>9. QED
    BY <2>1, <2>6, <2>7, <2>8 DEF LifeInv, LifeAtRest
<1>4. QED
  BY <1>2, <1>3

\* The application, and the host's two teardowns.
LEMMA LifeCreate == ASSUME LifeInv, CreateApplication PROVE LifeInv'
<1>1. LifeTyped'
  BY DEF LifeInv, LifeTyped, CreateApplication
<1>2. frames = <<>> /\ StacksAre(<<>>, <<>>, <<>>, <<>>) /\ Nothing /\ life = "starting"
  BY DEF LifeInv, LifeAtRest, CreateApplication
<1>3. StacksAre(BaseStack, <<>>, <<>>, <<>>)'
  BY <1>2 DEF CreateApplication, StacksAre, StackNames, BaseStack
<1>4. mounted = 0 /\ ~bound /\ services = 0
  <2>0. mounted \in Nat /\ services \in Nat
    BY LifecycleAssumption DEF LifeInv, LifeTyped
  <2>1. Piled("socket", "handler", mounted) # <<>> /\ Piled("stopHook", "service", services) # <<>>
    BY <2>0, PileTakenDown
  <2>2. QED
    BY <1>2, <2>1 DEF Nothing, TransportIn, ServicesIn, TransportStack, ServiceStack
<1>5. app'.state = "live"
  BY DEF CreateApplication, LifeInv, LifeTyped
<1>6. QED
  BY <1>1, <1>2, <1>3, <1>4, <1>5
     DEF LifeInv, LifeAtRest, CreateApplication, AppServes, ServicesIn, Idling

\* A mounted handler is on the transport's pile.
LEMMA LifeMount == ASSUME LifeInv, MountHandler PROVE LifeInv'
<1>0. mounted \in Nat /\ mounted' = mounted + 1 /\ mounted' \in 1..Handlers
  BY LifecycleAssumption DEF LifeInv, LifeTyped, MountHandler
<1>1. LifeTyped'
  BY <1>0 DEF LifeInv, LifeTyped, MountHandler
<1>2. /\ frames = <<>> /\ life = "starting" /\ AppServes /\ ServicesIn(<<>>) /\ ~bound
      /\ StacksAre(BaseStack, <<>>, IF mounted = 0 THEN <<>> ELSE TransportStack, <<>>)
  BY DEF LifeInv, LifeAtRest, MountHandler
<1>3. stacks'["transport"] = TransportStack'
  <2>1. CASE mounted = 0
    <3>1. stacks'["transport"] = <<>> \o <<"socket">> \o <<"handler">>
      BY <1>2, <2>1 DEF MountHandler, StacksAre, StackNames, HostStopDeferred
    <3>2. Piled("socket", "handler", 1) = <<"socket", "handler">>
      BY DEF Piled
    <3>3. QED
      BY <1>0, <2>1, <3>1, <3>2 DEF TransportStack
  <2>2. CASE mounted # 0
    <3>1. stacks'["transport"] = TransportStack \o <<>> \o <<"handler">>
      BY <1>2, <2>2 DEF MountHandler, StacksAre, StackNames, HostStopDeferred
    <3>2. /\ TransportStack \in Seq({"socket", "handler"})
          /\ Append(TransportStack, "handler") = Piled("socket", "handler", mounted + 1)
      BY <1>0, PileTakenDown DEF TransportStack
    <3>3. TransportStack \o <<>> \o <<"handler">> = Append(TransportStack, "handler")
      BY <3>2
    <3>4. QED
      BY <1>0, <3>1, <3>2, <3>3 DEF TransportStack
  <2>3. QED
    BY <2>1, <2>2
<1>4. StacksAre(BaseStack, <<>>, TransportStack, <<>>)'
  BY <1>2, <1>3 DEF MountHandler, StacksAre, StackNames, BaseStack
<1>5. QED
  BY <1>0, <1>1, <1>2, <1>4
     DEF LifeInv, LifeAtRest, MountHandler, AppServes, ServicesIn, ServiceStack, Idling

\* With the socket bound, each stack has what its part acquired.
LEMMA LifeBind == ASSUME LifeInv, Bind PROVE LifeInv'
<1>0. mounted \in Nat /\ services \in Nat
  BY LifecycleAssumption DEF LifeInv, LifeTyped
<1>1. LifeTyped'
  BY DEF LifeInv, LifeTyped, Bind
<1>2. /\ frames = <<>> /\ life = "starting" /\ AppServes /\ ServicesIn(<<>>) /\ ~bound
      /\ StacksAre(BaseStack, <<>>, IF mounted = 0 THEN <<>> ELSE TransportStack, <<>>)
  BY DEF LifeInv, LifeAtRest, Bind
<1>3. services = 0
  <2>1. ServiceStack # <<>>
    BY <1>0, PileTakenDown DEF ServiceStack
  <2>2. QED
    BY <1>2, <2>1 DEF ServicesIn
<1>4. stacks'["transport"] = TransportStack'
  <2>1. CASE mounted = 0
    <3>1. "socket" \notin Range(<<>>)
      BY DEF Range
    <3>2. stacks'["transport"] = Append(<<>>, "socket")
      BY <1>2, <2>1, <3>1 DEF Bind, StacksAre, StackNames
    <3>3. Piled("socket", "handler", 0) = <<"socket">>
      BY DEF Piled
    <3>4. Append(<<>>, "socket") = <<"socket">>
      OBVIOUS
    <3>5. mounted' = mounted
      BY DEF Bind
    <3>6. QED
      BY <2>1, <3>2, <3>3, <3>4, <3>5 DEF TransportStack
  <2>2. CASE mounted # 0
    <3>1. TransportStack[1] = "socket" /\ 1 \in DOMAIN TransportStack
      BY <1>0 DEF TransportStack, Piled
    <3>2. "socket" \in Range(TransportStack)
      BY <3>1 DEF Range
    <3>3. stacks'["transport"] = TransportStack
      BY <1>2, <2>2, <3>2 DEF Bind, StacksAre, StackNames
    <3>4. QED
      BY <3>3 DEF TransportStack, Bind
  <2>3. QED
    BY <2>1, <2>2
<1>5. stacks'["services"] = ServiceStack'
  <2>1. stacks'["services"] = Append(<<>>, "stopHook")
    BY <1>2 DEF Bind, StacksAre, StackNames
  <2>2. Piled("stopHook", "service", 0) = <<"stopHook">>
    BY DEF Piled
  <2>3. Append(<<>>, "stopHook") = <<"stopHook">> /\ services' = services
    BY DEF Bind
  <2>4. QED
    BY <1>3, <2>1, <2>2, <2>3 DEF ServiceStack
<1>6. stacks'["host"] = HostStack
  <2>1. stacks'["host"] = Append(BaseStack, "gateway")
    BY <1>2 DEF Bind, StacksAre, StackNames, DeferGateway
  <2>2. Append(<<"application", "services">>, "gateway") = <<"application", "services", "gateway">>
    BY AppendToTwo
  <2>3. QED
    BY <2>1, <2>2 DEF BaseStack, HostStack
<1>7. StacksAre(HostStack, <<"transport">>, TransportStack, ServiceStack)'
  BY <1>2, <1>4, <1>5, <1>6 DEF Bind, StacksAre, StackNames, HostStack
<1>8. QED
  BY <1>1, <1>2, <1>7 DEF LifeInv, LifeAtRest, Bind, AppServes, Idling

\* A service is on the services' pile.
LEMMA LifeHook == ASSUME LifeInv, RunStartHook PROVE LifeInv'
<1>0. services \in Nat /\ services' = services + 1
  BY LifecycleAssumption DEF LifeInv, LifeTyped, RunStartHook
<1>1. LifeTyped'
  BY <1>0 DEF LifeInv, LifeTyped, RunStartHook
<1>2. /\ frames = <<>> /\ life = "starting" /\ AppServes
      /\ StacksAre(HostStack, <<"transport">>, TransportStack, ServiceStack)
  BY DEF LifeInv, LifeAtRest, RunStartHook
<1>3. stacks'["services"] = ServiceStack'
  <2>1. stacks'["services"] = Append(ServiceStack, "service")
    BY <1>2 DEF RunStartHook, Defer, StacksAre, StackNames
  <2>2. QED
    BY <1>0, <2>1, PileTakenDown DEF ServiceStack
<1>4. StacksAre(HostStack, <<"transport">>, TransportStack, ServiceStack)'
  BY <1>2, <1>3 DEF RunStartHook, Defer, StacksAre, StackNames, HostStack, TransportStack
<1>5. QED
  BY <1>1, <1>2, <1>4 DEF LifeInv, LifeAtRest, RunStartHook, AppServes, Idling

\* A host that runs has all the stacks of its start.
LEMMA LifeStarted == ASSUME LifeInv, Started PROVE LifeInv'
<1>1. LifeTyped'
  BY DEF LifeInv, LifeTyped, Started
<1>2. /\ frames = <<>> /\ life = "starting" /\ AppServes
      /\ StacksAre(HostStack, <<"transport">>, TransportStack, ServiceStack)
  BY DEF LifeInv, LifeAtRest, Started
<1>3. StacksAre(HostStack, <<"transport">>, TransportStack, ServiceStack)' /\ AppServes'
  BY <1>2 DEF Started, StacksAre, HostStack, TransportStack, ServiceStack, AppServes
<1>4. QED
  BY <1>1, <1>2, <1>3 DEF LifeInv, LifeAtRest, Started, Idling

\* A failed start unwinds the stacks of what it had acquired.
LEMMA LifeFails == ASSUME LifeInv, LifecycleStartFails PROVE LifeInv'
<1>0. frames = <<>> /\ life = "starting" /\ DOMAIN stacks = StackNames /\ step \in {"application", "mount", "hooks"}
  BY DEF LifeInv, LifeTyped, LifeAtRest, StacksAre, LifecycleStartFails
<1>1. LifeTyped'
  BY DEF LifeInv, LifeTyped, LifecycleStartFails
<1>2. CASE step = "mount"
  <2>1. /\ AppServes /\ ServicesIn(<<>>) /\ ~bound
        /\ StacksAre(BaseStack, <<>>, IF mounted = 0 THEN <<>> ELSE TransportStack, <<>>)
    BY <1>0, <1>2 DEF LifeInv, LifeAtRest
  <2>2. PICK t : t = stacks["transport"]
    OBVIOUS
  <2>3. frames' = <<Frame("host", BaseStack), Frame("gateway", <<>>), Frame("transport", t)>>
    BY <1>2, <2>1, <2>2 DEF LifecycleStartFails, FramesOnFailure, Frame, StacksAre
  <2>4. StacksAre(<<>>, <<>>, <<>>, <<>>)'
    <3>1. Len(frames') = 3 /\ frames'[1].of = "host" /\ frames'[2].of = "gateway" /\ frames'[3].of = "transport"
      BY <2>3 DEF Frame
    <3>2. \A n \in {"host", "gateway", "transport"} : \E k \in 1..Len(frames') : frames'[k].of = n
      BY <3>1
    <3>3. QED
      BY <3>2, <2>1, <1>0 DEF LifecycleStartFails, StacksAre, StackNames
  <2>5. Len(frames') = 3 /\ Top'.left = t
    BY <2>3 DEF Top, Frame
  <2>6. TransportIn(t)' /\ ServicesIn(<<>>)' /\ AppServes'
    <3>1. UNCHANGED <<mounted, bound, services, reload, crossed>> /\ app' = app
      BY <1>2 DEF LifecycleStartFails
    <3>2. (t = <<>> /\ mounted = 0) \/ t = TransportStack
      BY <2>1, <2>2 DEF StacksAre
    <3>3. QED
      BY <3>1, <3>2, <2>1 DEF TransportIn, TransportStack, ServicesIn, ServiceStack, AppServes
  <2>7. Unwinding'
    BY <2>3, <2>4, <2>5, <2>6 DEF Unwinding, StacksAre
  <2>8. QED
    BY <1>0, <1>1, <2>3, <2>7 DEF LifeInv, LifeAtRest, LifecycleStartFails, Idling
<1>3. CASE step = "hooks"
  <2>1. AppServes /\ StacksAre(HostStack, <<"transport">>, TransportStack, ServiceStack)
    BY <1>0, <1>3 DEF LifeInv, LifeAtRest
  <2>2. frames' = <<Frame("host", HostStack)>>
    BY <1>3, <2>1 DEF LifecycleStartFails, FramesOnFailure, Frame, StacksAre
  <2>3. StacksAre(<<>>, <<"transport">>, TransportStack, ServiceStack)'
    <3>1. Len(frames') = 1 /\ frames'[1].of = "host"
      BY <2>2 DEF Frame
    <3>2. \A n \in StackNames : (\E k \in 1..Len(frames') : frames'[k].of = n) <=> n = "host"
      BY <3>1
    <3>3. TransportStack' = TransportStack /\ ServiceStack' = ServiceStack
      BY DEF TransportStack, ServiceStack, LifecycleStartFails
    <3>4. QED
      BY <3>2, <3>3, <2>1, <1>0 DEF LifecycleStartFails, StacksAre, StackNames
  <2>4. AppServes'
    BY <2>1, <1>3 DEF AppServes, LifecycleStartFails
  <2>5. Unwinding'
    BY <2>2, <2>3, <2>4 DEF Unwinding, StacksAre, TransportIn, ServicesIn
  <2>6. QED
    BY <1>0, <1>1, <2>2, <2>5 DEF LifeInv, LifeAtRest, LifecycleStartFails, Idling
<1>4. CASE step = "application"
  <2>1. StacksAre(<<>>, <<>>, <<>>, <<>>) /\ Nothing /\ AppGone
    BY <1>0, <1>4 DEF LifeInv, LifeAtRest
  <2>2. frames' = <<Frame("host", <<>>)>>
    BY <1>4, <2>1 DEF LifecycleStartFails, FramesOnFailure, Frame, StacksAre
  <2>3. StacksAre(<<>>, <<>>, <<>>, <<>>)'
    BY <2>1, <1>0 DEF LifecycleStartFails, StacksAre, StackNames
  <2>4. Nothing'
    BY <2>1 DEF Nothing, TransportIn, ServicesIn, TransportStack, ServiceStack, LifecycleStartFails
  <2>5. AppGone'
    <3>1. app'.state = app.state
      BY <1>4 DEF LifecycleStartFails, LifeInv, LifeTyped
    <3>2. QED
      BY <2>1, <3>1 DEF AppGone, LifecycleStartFails
  <2>6. QED
    BY <1>0, <1>1, <2>2, <2>3, <2>4, <2>5 DEF LifeInv, LifeAtRest, LifecycleStartFails, Idling, Unwinding
<1>5. QED
  BY <1>0, <1>2, <1>3, <1>4

\* The innermost unwinding, by how many there are.
LEMMA TopIsLast ==
    ASSUME NEW a, NEW b, NEW c
    PROVE  /\ frames = <<a>> => Top = a /\ Popped = <<>>
           /\ frames = <<a, b>> => Top = b /\ Popped = <<a>>
           /\ frames = <<a, b, c>> => Top = c /\ Popped = <<a, b>>
<1>1. frames = <<a>> => Top = a /\ Popped = <<>>
  BY DEF Top, Popped
<1>2. frames = <<a, b>> => Top = b /\ Popped = <<a>>
  BY FrontOfTwo DEF Top, Popped
<1>3. frames = <<a, b, c>> => Top = c /\ Popped = <<a, b>>
  BY FrontOfThree DEF Top, Popped
<1>4. QED
  BY <1>1, <1>2, <1>3

\* One teardown, when r is left of stack l below it: a composite one
\* enters the unwinding of its own stack.
LEMMA TeardownEnters ==
    ASSUME Teardown, NEW f, NEW l, NEW n \in {"services", "gateway", "transport"}, NEW r,
           Top = Frame(f, l), UnwoundOrder(l) = <<n, r>>
    PROVE  /\ frames' = Append(Append(Popped, Frame(f, r)), Frame(n, stacks[n]))
           /\ stacks' = [stacks EXCEPT ![n] = <<>>]
           /\ UNCHANGED <<life, ops, step, reload, issued, crossed, app, mounted, bound, services>>
<1>1. Top.left = l /\ [Top EXCEPT !.left = r] = Frame(f, r)
  BY DEF Frame
<1>2. UnwoundOrder(Top.left)[1] = n /\ UnwoundOrder(Top.left)[2] = r
  BY <1>1
<1>3. QED
  BY <1>1, <1>2 DEF Teardown, Frame

\* A simple one releases one thing.
LEMMA TeardownReleases ==
    ASSUME Teardown, NEW f, NEW l, NEW n \in {"application", "handler", "socket", "service", "stopHook"}, NEW r,
           Top = Frame(f, l), UnwoundOrder(l) = <<n, r>>
    PROVE  /\ frames' = Append(Popped, Frame(f, r)) /\ stacks' = stacks
           /\ UNCHANGED <<life, ops, step, reload, issued, crossed>>
           /\ app' = IF n = "application" THEN [app EXCEPT !.state = "disposed"] ELSE app
           /\ mounted' = IF n = "handler" THEN mounted - 1 ELSE mounted
           /\ bound' = IF n = "socket" THEN FALSE ELSE bound
           /\ services' = IF n = "service" THEN services - 1 ELSE services
<1>1. Top.left = l /\ [Top EXCEPT !.left = r] = Frame(f, r)
  BY DEF Frame
<1>2. UnwoundOrder(Top.left)[1] = n /\ UnwoundOrder(Top.left)[2] = r
  BY <1>1
<1>3. QED
  BY <1>1, <1>2 DEF Teardown

\* The last of short stacks.
LEMMA ShortStacks ==
    /\ UnwoundOrder(HostStack) = <<"gateway", BaseStack>>
    /\ UnwoundOrder(BaseStack) = <<"services", <<"application">>>>
    /\ UnwoundOrder(<<"application">>) = <<"application", <<>>>>
    /\ UnwoundOrder(<<"transport">>) = <<"transport", <<>>>>
<1>1. UnwoundOrder(HostStack) = <<"gateway", BaseStack>>
  BY FrontOfThree DEF UnwoundOrder, HostStack, BaseStack
<1>2. UnwoundOrder(BaseStack) = <<"services", <<"application">>>>
  BY FrontOfTwo DEF UnwoundOrder, BaseStack
<1>3. UnwoundOrder(<<"application">>) = <<"application", <<>>>>
  BY DEF UnwoundOrder
<1>4. UnwoundOrder(<<"transport">>) = <<"transport", <<>>>>
  BY DEF UnwoundOrder
<1>5. QED
  BY <1>1, <1>2, <1>3, <1>4

\* A teardown keeps the invariant, unwinding by unwinding.
LEMMA LifeTeardown == ASSUME LifeInv, Teardown PROVE LifeInv'
<1>0. frames # <<>> /\ step = "none" /\ Unwinding /\ Top.left # <<>> /\ mounted \in Nat /\ services \in Nat
  BY LifecycleAssumption DEF LifeInv, LifeTyped, Teardown
<1> SUFFICES Unwinding' /\ frames' # <<>> /\ LifeTyped'
  BY <1>0 DEF LifeInv, LifeAtRest, Idling, Teardown
<1>1. CASE /\ frames = <<Frame("host", HostStack)>>
           /\ StacksAre(<<>>, <<"transport">>, stacks["transport"], stacks["services"])
           /\ TransportIn(stacks["transport"]) /\ ServicesIn(stacks["services"]) /\ AppServes
  <2>1. Top = Frame("host", HostStack) /\ Popped = <<>>
    BY <1>1, TopIsLast
  <2>2. UnwoundOrder(HostStack) = <<"gateway", BaseStack>>
    BY ShortStacks
  <2>3. /\ frames' = Append(Append(<<>>, Frame("host", BaseStack)), Frame("gateway", stacks["gateway"]))
        /\ stacks' = [stacks EXCEPT !["gateway"] = <<>>]
        /\ UNCHANGED <<life, ops, step, reload, issued, crossed, app, mounted, bound, services>>
    BY <2>1, <2>2, TeardownEnters
  <2>4. frames' = <<Frame("host", BaseStack), Frame("gateway", <<"transport">>)>>
    BY <1>1, <2>3, AppendToOne DEF StacksAre
  <2>5. StacksAre(<<>>, <<>>, stacks["transport"], stacks["services"])' /\ AppServes'
    BY <1>1, <2>3 DEF StacksAre, StackNames, AppServes
  <2>6. TransportIn(stacks["transport"])' /\ ServicesIn(stacks["services"])'
    BY <1>1, <2>3 DEF StacksAre, StackNames, TransportIn, ServicesIn, TransportStack, ServiceStack
  <2>7. Unwinding'
    BY <2>4, <2>5, <2>6 DEF Unwinding
  <2>8. LifeTyped'
    BY <2>3 DEF LifeInv, LifeTyped
  <2>9. QED
    BY <2>4, <2>7, <2>8
<1>2. CASE /\ frames = <<Frame("host", BaseStack), Frame("gateway", <<"transport">>)>>
           /\ StacksAre(<<>>, <<>>, stacks["transport"], stacks["services"])
           /\ TransportIn(stacks["transport"]) /\ ServicesIn(stacks["services"]) /\ AppServes
  <2>1. Top = Frame("gateway", <<"transport">>) /\ Popped = <<Frame("host", BaseStack)>>
    BY <1>2, TopIsLast
  <2>2. PICK t : t = stacks["transport"]
    OBVIOUS
  <2>3. UnwoundOrder(<<"transport">>) = <<"transport", <<>>>>
    BY ShortStacks
  <2>4. /\ frames' = Append(Append(<<Frame("host", BaseStack)>>, Frame("gateway", <<>>)), Frame("transport", t))
        /\ stacks' = [stacks EXCEPT !["transport"] = <<>>]
        /\ UNCHANGED <<life, ops, step, reload, issued, crossed, app, mounted, bound, services>>
    BY <2>1, <2>2, <2>3, TeardownEnters
  <2>5. frames' = <<Frame("host", BaseStack), Frame("gateway", <<>>), Frame("transport", t)>>
    BY ZenonT(30), <2>4, AppendToOne, AppendToTwo
  <2>6. Top'.left = t
    BY <2>5 DEF Top, Frame
  <2>7. TransportIn(t)' /\ ServicesIn(stacks["services"])' /\ AppServes'
    BY <1>2, <2>2, <2>4 DEF TransportIn, ServicesIn, TransportStack, ServiceStack, AppServes, StacksAre, StackNames
  <2>8. StacksAre(<<>>, <<>>, <<>>, stacks["services"])'
    BY <1>2, <2>4 DEF StacksAre, StackNames
  <2>9. LifeTyped'
    BY <2>4 DEF LifeInv, LifeTyped
  <2>10. Unwinding'
    BY <2>5, <2>6, <2>7, <2>8 DEF Unwinding
  <2>11. QED
    BY <2>5, <2>9, <2>10
<1>3. CASE /\ frames = <<Frame("host", BaseStack), Frame("gateway", <<>>), Frame("transport", Top.left)>>
           /\ StacksAre(<<>>, <<>>, <<>>, stacks["services"])
           /\ TransportIn(Top.left) /\ ServicesIn(stacks["services"]) /\ AppServes
  <2>1. PICK t : t = Top.left
    OBVIOUS
  <2>2. Top = Frame("transport", t) /\ Popped = <<Frame("host", BaseStack), Frame("gateway", <<>>)>>
    BY <1>3, <2>1, TopIsLast
  <2>3. t = Piled("socket", "handler", mounted)
    BY <1>0, <1>3, <2>1 DEF TransportIn, TransportStack
  <2> DEFINE r == IF mounted = 0 THEN <<>> ELSE Piled("socket", "handler", mounted - 1)
  <2>4. UnwoundOrder(t) = <<IF mounted = 0 THEN "socket" ELSE "handler", r>>
    BY <1>0, <2>3, PileTakenDown
  <2>5. /\ frames' = Append(Popped, Frame("transport", r)) /\ stacks' = stacks
        /\ UNCHANGED <<life, ops, step, reload, issued, crossed, app, services>>
        /\ mounted = 0 => bound' = FALSE /\ mounted' = mounted
        /\ mounted # 0 => mounted' = mounted - 1 /\ bound' = bound
    <3>1. CASE mounted = 0
      BY <2>2, <2>4, <3>1, TeardownReleases
    <3>2. CASE mounted # 0
      BY <2>2, <2>4, <3>2, TeardownReleases
    <3>3. QED
      BY <3>1, <3>2
  <2>6. PICK u : u = r
    OBVIOUS
  <2>7. frames' = <<Frame("host", BaseStack), Frame("gateway", <<>>), Frame("transport", u)>>
    BY <2>2, <2>5, <2>6, AppendToTwo
  <2>8. Top'.left = u
    BY <2>7 DEF Top, Frame
  <2>9. TransportIn(u)'
    BY <2>5, <2>6 DEF TransportIn, TransportStack
  <2>10. mounted' \in 0..Handlers
    BY <1>0, <2>5, LifecycleAssumption DEF LifeInv, LifeTyped
  <2>11. /\ StacksAre(<<>>, <<>>, <<>>, stacks["services"])' /\ ServicesIn(stacks["services"])' /\ AppServes'
         /\ LifeTyped'
    BY <1>3, <2>5, <2>10 DEF StacksAre, ServicesIn, ServiceStack, AppServes, LifeInv, LifeTyped
  <2>12. QED
    BY <2>7, <2>8, <2>9, <2>11 DEF Unwinding
<1>4. CASE /\ frames \in {<<Frame("host", BaseStack), Frame("gateway", <<>>)>>, <<Frame("host", BaseStack)>>}
           /\ StacksAre(<<>>, <<>>, <<>>, stacks["services"])
           /\ TransportIn(<<>>) /\ ServicesIn(stacks["services"]) /\ AppServes
  <2>1. frames = <<Frame("host", BaseStack)>>
    <3>1. ASSUME frames = <<Frame("host", BaseStack), Frame("gateway", <<>>)>> PROVE FALSE
      BY <1>0, <3>1, TopIsLast DEF Frame
    <3>2. QED
      BY <1>4, <3>1
  <2>2. Top = Frame("host", BaseStack) /\ Popped = <<>>
    BY <2>1, TopIsLast
  <2>3. PICK u : u = stacks["services"]
    OBVIOUS
  <2>4. UnwoundOrder(BaseStack) = <<"services", <<"application">>>>
    BY ShortStacks
  <2>5. /\ frames' = Append(Append(<<>>, Frame("host", <<"application">>)), Frame("services", u))
        /\ stacks' = [stacks EXCEPT !["services"] = <<>>]
        /\ UNCHANGED <<life, ops, step, reload, issued, crossed, app, mounted, bound, services>>
    BY <2>2, <2>3, <2>4, TeardownEnters
  <2>6. frames' = <<Frame("host", <<"application">>), Frame("services", u)>>
    BY <2>5, AppendToOne
  <2>7. Top'.left = u
    BY <2>6 DEF Top, Frame
  <2>8. ServicesIn(u)' /\ TransportIn(<<>>)' /\ AppServes'
    BY <1>4, <2>3, <2>5 DEF TransportIn, ServicesIn, TransportStack, ServiceStack, AppServes
  <2>9. StacksAre(<<>>, <<>>, <<>>, <<>>)'
    BY <1>4, <2>5 DEF StacksAre, StackNames
  <2>10. LifeTyped'
    BY <2>5 DEF LifeInv, LifeTyped
  <2>11. Unwinding'
    BY <2>6, <2>7, <2>8, <2>9 DEF Unwinding
  <2>12. QED
    BY <2>6, <2>10, <2>11
<1>5. CASE /\ frames = <<Frame("host", <<"application">>), Frame("services", Top.left)>>
           /\ StacksAre(<<>>, <<>>, <<>>, <<>>)
           /\ TransportIn(<<>>) /\ ServicesIn(Top.left) /\ AppServes
  <2>1. PICK t : t = Top.left
    OBVIOUS
  <2>2. Top = Frame("services", t) /\ Popped = <<Frame("host", <<"application">>)>>
    BY <1>5, <2>1, TopIsLast
  <2>3. t = Piled("stopHook", "service", services)
    BY <1>0, <1>5, <2>1 DEF ServicesIn, ServiceStack
  <2> DEFINE r == IF services = 0 THEN <<>> ELSE Piled("stopHook", "service", services - 1)
  <2>4. UnwoundOrder(t) = <<IF services = 0 THEN "stopHook" ELSE "service", r>>
    BY <1>0, <2>3, PileTakenDown
  <2>5. /\ frames' = Append(Popped, Frame("services", r)) /\ stacks' = stacks
        /\ UNCHANGED <<life, ops, step, reload, issued, crossed, app, mounted, bound>>
        /\ services' = IF services = 0 THEN services ELSE services - 1
    <3>1. CASE services = 0
      BY <2>2, <2>4, <3>1, TeardownReleases
    <3>2. CASE services # 0
      BY <2>2, <2>4, <3>2, TeardownReleases
    <3>3. QED
      BY <3>1, <3>2
  <2>6. PICK u : u = r
    OBVIOUS
  <2>7. frames' = <<Frame("host", <<"application">>), Frame("services", u)>>
    BY <2>2, <2>5, <2>6, AppendToOne
  <2>8. Top'.left = u
    BY <2>7 DEF Top, Frame
  <2>9. ServicesIn(u)'
    BY <2>5, <2>6 DEF ServicesIn, ServiceStack
  <2>10. services' \in Nat
    BY <1>0, <2>5
  <2>11. StacksAre(<<>>, <<>>, <<>>, <<>>)' /\ TransportIn(<<>>)' /\ AppServes' /\ LifeTyped'
    BY <1>5, <2>5, <2>10 DEF StacksAre, TransportIn, TransportStack, AppServes, LifeInv, LifeTyped
  <2>12. QED
    BY <2>7, <2>8, <2>9, <2>11 DEF Unwinding
<1>6. CASE /\ frames = <<Frame("host", <<"application">>)>>
           /\ StacksAre(<<>>, <<>>, <<>>, <<>>) /\ Nothing
  <2>1. Top = Frame("host", <<"application">>) /\ Popped = <<>>
    BY <1>6, TopIsLast
  <2>2. UnwoundOrder(<<"application">>) = <<"application", <<>>>>
    BY ShortStacks
  <2>3. /\ frames' = Append(<<>>, Frame("host", <<>>)) /\ stacks' = stacks
        /\ app' = [app EXCEPT !.state = "disposed"]
        /\ UNCHANGED <<life, ops, step, reload, issued, crossed, mounted, bound, services>>
    BY <2>1, <2>2, TeardownReleases
  <2>4. frames' = <<Frame("host", <<>>)>>
    BY <2>3
  <2>5. AppGone' /\ LifeTyped'
    BY <2>3 DEF LifeInv, LifeTyped, AppGone
  <2>6. StacksAre(<<>>, <<>>, <<>>, <<>>)' /\ Nothing'
    BY <1>6, <2>3 DEF StacksAre, Nothing, TransportIn, ServicesIn, TransportStack, ServiceStack
  <2>7. QED
    BY <2>4, <2>5, <2>6 DEF Unwinding
<1>7. CASE frames = <<Frame("host", <<>>)>>
  BY <1>0, <1>7, TopIsLast DEF Frame
<1>8. QED
  BY <1>0, <1>1, <1>2, <1>3, <1>4, <1>5, <1>6, <1>7 DEF Unwinding

\* The end of an unwinding goes back to the one around it.
LEMMA LifeUnwound == ASSUME LifeInv, Unwound PROVE LifeInv'
<1>0. /\ frames # <<>> /\ step = "none" /\ Unwinding /\ Top.left = <<>> /\ mounted \in Nat /\ services \in Nat
      /\ life \in {"starting", "stopping"}
  BY LifecycleAssumption DEF LifeInv, LifeTyped, Unwound
<1>1. LifeTyped'
  BY DEF LifeInv, LifeTyped, Unwound
<1>2. TransportStack # <<>> /\ ServiceStack # <<>>
  <2>1. \A b, i, n : n \in Nat => Piled(b, i, n) # <<>>
    BY PileTakenDown
  <2>2. QED
    BY <1>0, <2>1 DEF TransportStack, ServiceStack
<1>3. reload # "none" => crossed
  BY <1>0 DEF LifeInv
<1>4. UNCHANGED <<step, stacks, app, mounted, bound, services, reload, crossed>>
  BY DEF Unwound
<1>5. CASE /\ frames = <<Frame("host", BaseStack), Frame("gateway", <<>>), Frame("transport", Top.left)>>
           /\ StacksAre(<<>>, <<>>, <<>>, stacks["services"])
           /\ TransportIn(Top.left) /\ ServicesIn(stacks["services"]) /\ AppServes
  <2>1. frames' = <<Frame("host", BaseStack), Frame("gateway", <<>>)>>
    BY <1>5, TopIsLast DEF Unwound
  <2>2. Unwinding'
    BY <1>0, <1>4, <1>5, <2>1 DEF Unwinding, StacksAre, TransportIn, ServicesIn, TransportStack, ServiceStack, AppServes
  <2>3. life' = life
    BY <2>1 DEF Unwound
  <2>4. QED
    BY <1>0, <1>1, <1>3, <1>4, <2>1, <2>2, <2>3 DEF LifeInv, LifeAtRest
<1>6. CASE /\ frames \in {<<Frame("host", BaseStack), Frame("gateway", <<>>)>>, <<Frame("host", BaseStack)>>}
           /\ StacksAre(<<>>, <<>>, <<>>, stacks["services"])
           /\ TransportIn(<<>>) /\ ServicesIn(stacks["services"]) /\ AppServes
  <2>1. frames = <<Frame("host", BaseStack), Frame("gateway", <<>>)>>
    <3>1. ASSUME frames = <<Frame("host", BaseStack)>> PROVE FALSE
      BY <1>0, <3>1, TopIsLast DEF Frame, BaseStack
    <3>2. QED
      BY <1>6, <3>1
  <2>2. frames' = <<Frame("host", BaseStack)>>
    BY <2>1, TopIsLast DEF Unwound
  <2>3. Unwinding'
    BY <1>4, <1>6, <2>2 DEF Unwinding, StacksAre, TransportIn, ServicesIn, TransportStack, ServiceStack, AppServes
  <2>4. life' = life
    BY <2>2 DEF Unwound
  <2>5. QED
    BY <1>0, <1>1, <1>3, <1>4, <2>2, <2>3, <2>4 DEF LifeInv, LifeAtRest
<1>7. CASE /\ frames = <<Frame("host", <<"application">>), Frame("services", Top.left)>>
           /\ StacksAre(<<>>, <<>>, <<>>, <<>>)
           /\ TransportIn(<<>>) /\ ServicesIn(Top.left) /\ AppServes
  <2>1. frames' = <<Frame("host", <<"application">>)>>
    BY <1>7, TopIsLast DEF Unwound
  <2>2. Unwinding'
    BY <1>0, <1>4, <1>7, <2>1 DEF Unwinding, StacksAre, Nothing, TransportIn, ServicesIn, TransportStack, ServiceStack
  <2>3. life' = life
    BY <2>1 DEF Unwound
  <2>4. QED
    BY <1>0, <1>1, <1>3, <1>4, <2>1, <2>2, <2>3 DEF LifeInv, LifeAtRest
<1>8. CASE /\ frames = <<Frame("host", <<>>)>>
           /\ StacksAre(<<>>, <<>>, <<>>, <<>>) /\ Nothing /\ AppGone
  <2>1. frames' = <<>> /\ life' = "idle"
    BY <1>8, TopIsLast DEF Unwound
  <2>2. StacksAre(<<>>, <<>>, <<>>, <<>>)' /\ Nothing' /\ AppGone'
    BY <1>4, <1>8 DEF StacksAre, Nothing, TransportIn, ServicesIn, TransportStack, ServiceStack, AppGone
  <2>3. QED
    BY <1>0, <1>1, <1>3, <1>4, <2>1, <2>2 DEF LifeInv, LifeAtRest
<1>9. ASSUME frames \in {<<Frame("host", HostStack)>>, <<Frame("host", <<"application">>)>>,
                         <<Frame("host", BaseStack), Frame("gateway", <<"transport">>)>>}
      PROVE  FALSE
  BY <1>0, <1>9, TopIsLast DEF Frame, HostStack
<1>10. QED
  BY <1>0, <1>5, <1>6, <1>7, <1>8, <1>9 DEF Unwinding

\* A reload is made by a running host, or has crossed something.
LEMMA LifeReloads == ASSUME LifeInv, ReloadApplication PROVE LifeInv'
<1>1. LifeTyped'
  BY LifecycleAssumption DEF LifeInv, LifeTyped, ReloadApplication
<1>2. AppServes' /\ AppGone'
  BY DEF AppServes, AppGone, ReloadApplication, LifeInv, LifeTyped
<1>3. LifeAtRest'
  BY <1>2 DEF LifeInv, LifeAtRest, ReloadApplication, StacksAre, Nothing, TransportIn, ServicesIn, TransportStack, ServiceStack
<1>4. Unwinding => Unwinding'
  BY <1>2 DEF Unwinding, ReloadApplication, StacksAre, Nothing, TransportIn, ServicesIn, TransportStack, ServiceStack, Top
<1>5. QED
  BY <1>1, <1>3, <1>4 DEF LifeInv, ReloadApplication, Idling

\* Its end leaves an application, or marks the failure.
LEMMA LifeReloaded == ASSUME LifeInv, ReloadEnds PROVE LifeInv'
<1>1. LifeTyped'
  BY DEF LifeInv, LifeTyped, ReloadEnds
<1>2. AppServes' /\ (crossed \/ (life = "running" /\ Idling))
  BY DEF AppServes, ReloadEnds, LifeInv, LifeTyped
<1>3. crossed => AppGone'
  BY DEF AppGone, ReloadEnds
<1>4. LifeAtRest'
  BY <1>2, <1>3 DEF LifeInv, LifeAtRest, ReloadEnds, StacksAre, Nothing, TransportIn, ServicesIn, TransportStack, ServiceStack, Idling
<1>5. Unwinding /\ crossed => Unwinding'
  BY <1>2, <1>3 DEF Unwinding, ReloadEnds, StacksAre, Nothing, TransportIn, ServicesIn, TransportStack, ServiceStack, Top
<1>6. QED
  BY <1>1, <1>2, <1>4, <1>5 DEF LifeInv, ReloadEnds, Idling

\* From the invariant to what it is for.
LEMMA LifeIsSound == LifeInv => LifecycleSound
<1> SUFFICES ASSUME LifeInv PROVE LifecycleSound
  OBVIOUS
<1>0. mounted \in Nat /\ services \in Nat
  BY LifecycleAssumption DEF LifeInv, LifeTyped
<1>1. TransportStack # <<>> /\ ServiceStack # <<>> /\ 1 \in DOMAIN TransportStack /\ TransportStack[1] = "socket"
  <2>1. Len(TransportStack) = mounted + 1 /\ TransportStack \in Seq({"socket", "handler"})
    BY <1>0, PileTakenDown DEF TransportStack
  <2>2. TransportStack # <<>> /\ ServiceStack # <<>> /\ TransportStack[1] = "socket"
    BY <1>0, PileTakenDown DEF TransportStack, ServiceStack
  <2>3. QED
    BY <1>0, <2>1, <2>2
<1>2. IdleHoldsNothing
  BY <1>1 DEF IdleHoldsNothing, LifeInv, LifeAtRest, Idling, StacksAre, StackNames, Nothing, TransportIn, ServicesIn, AppGone
<1>3. SocketClosesLast
  <2> SUFFICES ASSUME frames # <<>>, mounted > 0, Top.of = "transport" PROVE "socket" \in Range(Top.left)
    BY DEF SocketClosesLast
  <2>1. Unwinding
    BY DEF LifeInv
  <2>2. TransportIn(Top.left)
    BY <2>1, TopIsLast DEF Unwinding, Frame
  <2>3. Top.left = TransportStack
    BY <2>2 DEF TransportIn
  <2>4. QED
    BY <1>1, <2>3 DEF Range
<1>4. ServesLiveApplication
  <2> SUFFICES ASSUME bound \/ services > 0 PROVE AppServes
    BY DEF ServesLiveApplication, AppServes
  <2>1. ~Nothing
    BY <1>1 DEF Nothing, TransportIn, ServicesIn
  <2>2. CASE frames = <<>>
    BY <2>1, <2>2 DEF LifeInv, LifeTyped, LifeAtRest
  <2>3. CASE frames # <<>>
    BY <2>1, <2>3 DEF LifeInv, Unwinding
  <2>4. QED
    BY <2>2, <2>3
<1>5. QED
  BY <1>2, <1>3, <1>4 DEF LifecycleSound

\* However start, stop and reload calls pile up and whichever acquisition
\* fails, an idle host holds nothing, the socket is closed after the last
\* handler has left it, and nothing is served without an application
\* (lifecycle.ts, host.ts, transport.ts).
THEOREM ServersUnwind == LifeSpec => []LifecycleSound
<1>1. LifeInv /\ [LifeNext]_lifeVars => LifeInv'
  <2> SUFFICES ASSUME LifeInv, [LifeNext]_lifeVars PROVE LifeInv'
    OBVIOUS
  <2>1. CASE UNCHANGED lifeVars
    <3>1. ops' \in Seq({"start", "stop"}) /\ issued' \in Nat
      BY <2>1 DEF lifeVars, LifeInv, LifeTyped
    <3>2. QED
      BY <2>1, <3>1, LifeHolds DEF lifeVars
  <2>2. CASE LifeNext
    BY <2>2, LifeCalls, LifeBeginStart, LifeBeginStop, LifeCreate, LifeMount, LifeBind, LifeHook, LifeStarted,
       LifeFails, LifeTeardown, LifeUnwound, LifeReloads, LifeReloaded DEF LifeNext
  <2>3. QED
    BY <2>1, <2>2
<1>2. QED
  BY <1>1, LifeStarts, LifeIsSound, PTL DEF LifeSpec

-----------------------------------------------------------------------------
(* The host controller.  Where a process may be: closing a controller with *)
(* its threads told to stop or not yet, or opening one.                    *)

Stages == {"idle", "wait", "calling", "stopping", "failing", "unwinding", "cleaning", "clearing",
           "hook", "runner", "threads", "telling"}
Untold == {"calling", "failing", "cleaning"}
Told == {"stopping", "unwinding", "clearing"}
Closing == Untold \cup Told
Opening == {"hook", "runner", "threads", "telling"}

Process == [at : Stages, on : Controllers \cup {0}, h : Groups \cup {0}, w : Groups \cup {0}]

USE DEF Process, Doing

HostTyped ==
    /\ server \in {"idle", "starting", "running", "reloading", "failed", "stopping", "stopped"}
    /\ op \in {"none", "start", "reload", "reloadRuntime", "stop"}
    /\ current \in Controllers \cup {0} /\ built \in Nat
    /\ stopped \in [Controllers -> BOOLEAN]
    /\ host \in [Controllers -> Groups \cup {0}] /\ workers \in [Controllers -> Groups \cup {0}]
    /\ recovering \subseteq Controllers /\ restarts \in [Controllers -> 0..Attempts]
    /\ proc \in [Processes -> Process]
    /\ owner \in [Groups -> Controllers \cup {0}]
    /\ runner \in [Groups -> {"none", "starting", "up", "gone"}]
    /\ thread \in [Groups -> [Threads -> ThreadStates]]
    /\ started \in [Groups -> SUBSET Threads]
    /\ faults \in Nat /\ excused \subseteq Controllers /\ ignored \subseteq Controllers

\* A group belongs to the controller that made it, whoever has it in hand.
GroupsOwned ==
    \A c \in Controllers : /\ host[c] # 0 => owner[host[c]] = c
                           /\ workers[c] # 0 => owner[workers[c]] = c

HandsOwned ==
    \A p \in Processes : \A g \in {proc[p].h, proc[p].w} \ {0} : owner[g] = proc[p].on /\ proc[p].on # 0

Unmade ==
    \A g \in Groups :
        /\ owner[g] = 0 => runner[g] = "none" /\ started[g] = {} /\ \A t \in Threads : thread[g][t] = "none"
        /\ owner[g] # 0 => owner[g] <= built

Owned == GroupsOwned /\ HandsOwned /\ Unmade

\* Where the server's operation and the recoveries may be.
RecoveriesStep ==
    \A c \in Controllers :
        /\ proc[c].at # "idle" => proc[c].on = c
        /\ proc[c].at \notin {"cleaning", "clearing"}
        /\ c \in recovering <=> proc[c].at # "idle"
        /\ c > built => /\ proc[c].at = "idle" /\ restarts[c] = 0
                        /\ host[c] = 0 /\ workers[c] = 0 /\ stopped[c]

ServerSteps ==
    /\ proc[Server].at # "wait"
    /\ proc[Server].at \notin {"idle", "calling", "stopping"} => proc[Server].on # 0
    /\ proc[Server].at # "idle" => current \in {0, proc[Server].on}
    /\ op = "none" <=> proc[Server].at = "idle"
    /\ server = "idle" => current = 0 /\ op = "none"
    /\ current <= built /\ proc[Server].on <= built
    /\ ServerFree /\ server = "running" => current # 0

InHand ==
    \A p \in Processes :
        /\ proc[p].at = "idle" => proc[p] = IdleProcess
        /\ proc[p].at \in {"runner", "threads", "telling"} => proc[p].h # 0 /\ proc[p].w = proc[p].h
        /\ proc[p].at = "telling" => started[proc[p].w] = Threads

\* Process p starts or stops controller c.
Drives(p, c) == proc[p].at \notin {"idle", "wait"} /\ proc[p].on = c

ThreadsAlive(g) == \E t \in Threads : thread[g][t] \in {"starting", "ready"}

\* What the fields of a controller hold at each stage of its only driver.
InStage(p, c) ==
    /\ proc[p].at \in Closing => stopped[c] /\ host[c] = 0 /\ workers[c] = 0
    /\ proc[p].at = "hook" => host[c] = 0 /\ workers[c] = 0
    /\ proc[p].at = "runner" =>
         /\ host[c] = proc[p].h /\ workers[c] = 0 /\ started[proc[p].h] = {}
         /\ \A t \in Threads : thread[proc[p].h][t] = "none"
    /\ proc[p].at \in {"threads", "telling"} => host[c] = proc[p].h /\ workers[c] = proc[p].w

\* A live group is in the fields of its controller, or in the hands of the
\* process that is closing it, the threads not yet told.
Held(g, c) ==
    \/ g = host[c] /\ (ThreadsAlive(g) => workers[c] = g)
    \/ \E p \in {Server, c} :
          /\ proc[p].on = c /\ proc[p].at \in Closing /\ proc[p].h = g
          /\ ThreadsAlive(g) => proc[p].w = g /\ proc[p].at \in Untold

Tended(c) ==
    /\ ~(Drives(Server, c) /\ Drives(c, c))
    /\ Drives(Server, c) => InStage(Server, c)
    /\ Drives(c, c) => InStage(c, c)
    /\ \A g \in Groups : owner[g] = c /\ Alive(g) => Held(g, c)
    /\ c # current /\ ~Drives(Server, c) => stopped[c] /\ host[c] = 0 /\ workers[c] = 0 /\ ~Drives(c, c)

AllReady(g) == \A t \in started[g] : thread[g][t] = "ready"

\* A thread that has started is ready, unless its failure has been heard.
Serving(c) ==
    /\ Drives(Server, c) /\ proc[Server].at \in Opening /\ c \notin recovering => restarts[c] = 0
    /\ Drives(Server, c) /\ proc[Server].at \in {"threads", "telling"} /\ c \notin recovering =>
         AllReady(proc[Server].w)
    /\ Drives(c, c) /\ proc[c].at \in {"threads", "telling"} => AllReady(proc[c].w)
    /\ ServerFree /\ server = "running" /\ c = current /\ c \notin recovering =>
         workers[c] # 0 /\ \A t \in Threads : thread[workers[c]][t] = "ready"

HostInv ==
    /\ HostTyped /\ Owned /\ RecoveriesStep /\ ServerSteps /\ InHand
    /\ \A c \in Controllers : c \notin excused => Tended(c)
    /\ \A c \in Controllers : c \notin excused /\ c \notin ignored => Serving(c)

\* A step that has nothing to do with controller c.
SameFor(c) ==
    /\ host'[c] = host[c] /\ workers'[c] = workers[c] /\ stopped'[c] = stopped[c] /\ proc'[c] = proc[c]
    /\ Drives(Server, c) \/ Drives(Server, c)' => proc'[Server] = proc[Server]
    /\ c = current' <=> c = current
    /\ \A g \in Groups : owner'[g] = c =>
         owner[g] = c /\ runner'[g] = runner[g] /\ thread'[g] = thread[g] /\ started'[g] = started[g]

\* Nor with its recovery, nor does the server begin to run with it.
StillServing(c) ==
    /\ c \in recovering' <=> c \in recovering
    /\ restarts'[c] = restarts[c]
    /\ (ServerFree /\ server = "running")' /\ c = current => ServerFree /\ server = "running"

\* The processes are the server and the controllers; no controller and no
\* group is 0.
LEMMA HostNames ==
    /\ Server = 0 /\ Server \in Processes /\ Server \notin Controllers /\ 0 \notin Groups
    /\ \A c \in Controllers : c \in Processes /\ c \in Nat /\ c # 0
    /\ \A p \in Processes : p = Server \/ p \in Controllers
BY HostAssumption DEF Processes, Server

\* Such a step leaves c as well tended as it was.
LEMMA TendedElsewhere ==
    ASSUME HostInv, NEW c \in Controllers, Tended(c), SameFor(c), HostTyped', Owned', InHand',
           proc'[Server].at # "wait"
    PROVE  Tended(c)'
<1>1. c # 0 /\ c \in Processes /\ Server \in Processes /\ Server # c
  BY HostAssumption DEF Processes, Server
<1>2. Drives(Server, c)' <=> Drives(Server, c)
  BY <1>1 DEF SameFor, Drives
<1>3. Drives(c, c)' <=> Drives(c, c)
  BY DEF SameFor, Drives
<1>4. \A g \in Groups : owner'[g] = c => (ThreadsAlive(g)' <=> ThreadsAlive(g)) /\ (Alive(g)' <=> Alive(g))
  BY DEF SameFor, ThreadsAlive, Alive
<1>5. Drives(Server, c)' => InStage(Server, c)'
  <2> SUFFICES ASSUME Drives(Server, c)' PROVE InStage(Server, c)'
    OBVIOUS
  <2>1. proc'[Server] = proc[Server] /\ InStage(Server, c) /\ proc[Server].on = c
    BY <1>2 DEF SameFor, Tended, Drives
  <2>2. proc[Server].at = "runner" => proc[Server].h \in Groups /\ owner'[proc[Server].h] = c
    BY <1>1, <2>1 DEF Owned, HandsOwned, InHand, HostTyped
  <2>3. QED
    BY <2>1, <2>2 DEF InStage, SameFor
<1>6. Drives(c, c)' => InStage(c, c)'
  <2> SUFFICES ASSUME Drives(c, c)' PROVE InStage(c, c)'
    OBVIOUS
  <2>1. proc'[c] = proc[c] /\ InStage(c, c) /\ proc[c].on = c
    BY <1>3 DEF SameFor, Tended, Drives
  <2>2. proc[c].at = "runner" => proc[c].h \in Groups /\ owner'[proc[c].h] = c
    BY <1>1, <2>1 DEF Owned, HandsOwned, InHand, HostTyped
  <2>3. QED
    BY <2>1, <2>2 DEF InStage, SameFor
<1>7. ASSUME NEW g \in Groups, owner'[g] = c, Alive(g)' PROVE Held(g, c)'
  <2>1. Held(g, c) /\ (ThreadsAlive(g)' <=> ThreadsAlive(g))
    BY <1>4, <1>7 DEF Tended, SameFor
  <2>2. proc[Server].on = c /\ proc[Server].at \in Closing => proc'[Server] = proc[Server]
    BY DEF SameFor, Drives, Closing, Untold, Told
  <2>3. QED
    BY <2>1, <2>2 DEF Held, SameFor
<1>8. QED
  BY <1>2, <1>3, <1>5, <1>6, <1>7 DEF Tended, SameFor

\* And serving as it was, when its recovery is left alone and the server
\* does not begin to run with it.
LEMMA ServingElsewhere ==
    ASSUME HostInv, NEW c \in Controllers, Serving(c), SameFor(c), StillServing(c), HostTyped', Owned', InHand'
    PROVE  Serving(c)'
<1>1. c # 0 /\ c \in Processes /\ Server \in Processes /\ Server # c
  BY HostNames
<1>2. Drives(Server, c)' => Drives(Server, c) /\ proc'[Server] = proc[Server]
  BY <1>1 DEF SameFor, Drives
<1>3. Drives(c, c)' => Drives(c, c) /\ proc'[c] = proc[c]
  BY DEF SameFor, Drives
<1>4. ASSUME NEW p \in {Server, c}, proc'[p] = proc[p], proc[p].on = c, proc[p].at \in {"threads", "telling"},
             AllReady(proc[p].w)
      PROVE  AllReady(proc[p].w)'
  <2>1. proc[p].w \in Groups /\ owner'[proc[p].w] = c
    BY <1>1, <1>4 DEF Owned, HandsOwned, InHand, HostTyped
  <2>2. QED
    BY <1>4, <2>1 DEF AllReady, SameFor
<1>5. workers[c] # 0 => thread'[workers[c]] = thread[workers[c]]
  BY DEF SameFor, Owned, GroupsOwned, HostTyped
<1>6. Drives(Server, c)' /\ proc'[Server].at \in Opening /\ c \notin recovering' => restarts'[c] = 0
  BY <1>2 DEF Serving, StillServing
<1>7. Drives(Server, c)' /\ proc'[Server].at \in {"threads", "telling"} /\ c \notin recovering' => AllReady(proc[Server].w)'
  BY <1>2, <1>4 DEF Serving, StillServing, Drives
<1>8. Drives(c, c)' /\ proc'[c].at \in {"threads", "telling"} => AllReady(proc[c].w)'
  BY <1>3, <1>4 DEF Serving, Drives
<1>9. ASSUME (ServerFree /\ server = "running")', c = current', c \notin recovering'
      PROVE  workers'[c] # 0 /\ \A t \in Threads : thread'[workers'[c]][t] = "ready"
  <2>1. workers[c] # 0 /\ \A t \in Threads : thread[workers[c]][t] = "ready"
    BY <1>9 DEF Serving, StillServing, SameFor
  <2>2. QED
    BY <1>5, <2>1 DEF SameFor
<1>10. QED
  BY <1>6, <1>7, <1>8, <1>9 DEF Serving

\* A group whose threads are told and gone and whose runner is shut is not
\* alive, and its controller has no other.
LEMMA ClosedIsDead ==
    ASSUME HostInv, NEW p \in Processes, NEW k \in Controllers, k \notin excused, proc[p].on = k,
           proc[p].at \in Told, ShutRunner(p), thread' = thread, NEW g \in Groups, owner[g] = k
    PROVE  ~Alive(g)'
<1>1. k # 0 /\ g # 0 /\ p \in {Server, k} /\ Drives(p, k) /\ Tended(k)
  BY HostAssumption DEF HostInv, RecoveriesStep, Processes, Server, Drives, Told
<1>2. InStage(p, k) /\ host[k] = 0
  BY <1>1 DEF Tended, InStage, Closing
<1>3. SUFFICES ASSUME Alive(g)' PROVE FALSE
  OBVIOUS
<1>4. Alive(g)
  BY <1>3 DEF Alive, ShutRunner, HostInv, HostTyped
<1>5. PICK q \in {Server, k} : /\ proc[q].on = k /\ proc[q].at \in Closing /\ proc[q].h = g
                               /\ ThreadsAlive(g) => proc[q].at \in Untold
  BY <1>1, <1>2, <1>4 DEF Tended, Held
<1>6. q = p
  <2>1. Drives(q, k)
    BY <1>5 DEF Drives, Closing, Untold, Told
  <2>2. QED
    BY <1>1, <2>1 DEF Tended
<1>7. ~ThreadsAlive(g)
  BY <1>5, <1>6 DEF Told, Untold
<1>8. runner'[g] = "gone"
  BY <1>1, <1>5, <1>6 DEF ShutRunner, HostInv, HostTyped
<1>9. QED
  BY <1>3, <1>7, <1>8 DEF Alive, ThreadsAlive

\* A process that starts or stops a controller nobody excused is alone at
\* it, and the fields of the controller are as its stage says.
LEMMA OneDriver ==
    ASSUME HostInv, NEW p \in Processes, NEW c \in Controllers, c \notin excused,
           proc[p].at \notin {"idle", "wait"}, proc[p].on = c
    PROVE  /\ p \in {Server, c} /\ Drives(p, c) /\ InStage(p, c) /\ Tended(c)
           /\ \A q \in {Server, c} : q # p => ~Drives(q, c)
<1>1. p \in {Server, c} /\ Drives(p, c) /\ Tended(c)
  BY HostNames DEF HostInv, RecoveriesStep, Drives
<1>2. QED
  BY <1>1 DEF Tended

\* While a controller starts, its only live group is the one it has.
LEMMA OpenIsHeld ==
    ASSUME HostInv, NEW p \in Processes, NEW c \in Controllers, c \notin excused,
           proc[p].at \in Opening, proc[p].on = c, NEW g \in Groups, owner[g] = c, Alive(g)
    PROVE  g = host[c] /\ (ThreadsAlive(g) => workers[c] = g)
<1>1. /\ p \in {Server, c} /\ Tended(c)
      /\ \A q \in {Server, c} : q # p => ~Drives(q, c)
  BY OneDriver DEF Opening
<1>2. \A q \in {Server, c} : ~(proc[q].on = c /\ proc[q].at \in Closing)
  BY <1>1 DEF Drives, Opening, Closing, Untold, Told
<1>3. QED
  BY <1>1, <1>2 DEF Tended, Held

\* A step keeps the invariant when it keeps the books, leaves most
\* controllers alone and treats the others well.
LEMMA OneTouched ==
    ASSUME HostInv, HostTyped', Owned', RecoveriesStep', ServerSteps', InHand',
           excused \subseteq excused', ignored \subseteq ignored',
           \A c \in Controllers : c \notin excused' => SameFor(c) \/ Tended(c)',
           \A c \in Controllers : c \notin excused' /\ c \notin ignored' =>
               (SameFor(c) /\ StillServing(c)) \/ Serving(c)'
    PROVE  HostInv'
<1>1. ASSUME NEW c \in Controllers, c \notin excused' PROVE Tended(c)'
  <2>1. CASE SameFor(c)
    <3>1. Tended(c) /\ proc'[Server].at # "wait"
      BY <1>1 DEF HostInv, ServerSteps
    <3>2. QED
      BY <2>1, <3>1, TendedElsewhere
  <2>2. QED
    BY <1>1, <2>1
<1>2. ASSUME NEW c \in Controllers, c \notin excused', c \notin ignored' PROVE Serving(c)'
  <2>1. CASE SameFor(c) /\ StillServing(c)
    <3>1. Serving(c)
      BY <1>2 DEF HostInv
    <3>2. QED
      BY <2>1, <3>1, ServingElsewhere
  <2>2. QED
    BY <1>2, <2>1
<1>3. QED
  BY <1>1, <1>2 DEF HostInv

\* A process at another stage is still a process.
LEMMA ProcessMoves ==
    ASSUME proc \in [Processes -> Process], NEW p \in Processes, NEW s \in Stages
    PROVE  [proc EXCEPT ![p].at = s] \in [Processes -> Process]
<1>1. [proc[p] EXCEPT !.at = s] \in Process
  BY DEF Process
<1>2. QED
  BY <1>1

\* The first start makes the first controller.
LEMMA HostStart == ASSUME HostInv, Start PROVE HostInv'
<1>1. /\ built + 1 \in Controllers /\ proc[Server].at = "idle" /\ current = 0
      /\ op' = "start" /\ server' = "starting" /\ built' = built + 1
      /\ proc' = [proc EXCEPT ![Server] = Doing("hook", built + 1, 0, 0)]
      /\ stopped' = [stopped EXCEPT ![built + 1] = FALSE]
      /\ UNCHANGED <<current, faults, host, workers, recovering, restarts, owner, runner, thread, started,
                     excused, ignored>>
  BY HostNames DEF Start, StartNew, StartHook, NewController, ServerFree, At, groupVars, HostInv, ServerSteps,
     IdleProcess
<1>2. HostTyped'
  BY HostNames, <1>1, HostAssumption DEF HostInv, HostTyped, Stages, Processes, ThreadStates
<1>3. Owned'
  <2>1. GroupsOwned'
    BY HostNames, <1>1 DEF HostInv, HostTyped, Owned, GroupsOwned
  <2>2. HandsOwned'
    BY HostNames, <1>1 DEF HostInv, HostTyped, Owned, GroupsOwned, HandsOwned
  <2>3. Unmade'
    <3>1. ASSUME NEW g \in Groups, owner[g] # 0 PROVE owner[g] <= built + 1
      <4>1. owner[g] \in Nat /\ built \in Nat /\ owner[g] <= built
        BY HostNames, <3>1 DEF HostInv, HostTyped, Owned, Unmade
      <4>2. QED
        BY <4>1
    <3>2. QED
      BY HostNames, <1>1, <3>1 DEF HostInv, Owned, Unmade
  <2>4. QED
    BY <2>1, <2>2, <2>3 DEF Owned
<1>4. RecoveriesStep'
  BY HostNames, <1>1 DEF HostInv, HostTyped, RecoveriesStep
<1>5. ServerSteps'
  BY HostNames, <1>1 DEF HostInv, HostTyped, ServerSteps, ServerFree, At
<1>6. InHand'
  BY HostNames, <1>1 DEF HostInv, HostTyped, InHand, IdleProcess
<1>7. ASSUME NEW c \in Controllers, c # built + 1 PROVE SameFor(c) /\ StillServing(c)
  <2>1. SameFor(c)
    BY <1>7, HostNames, <1>1 DEF HostInv, HostTyped, SameFor, Drives, Owned, HandsOwned,
       RecoveriesStep, ServerSteps
  <2>2. StillServing(c)
    BY <1>7, HostNames, <1>1 DEF HostInv, HostTyped, StillServing, ServerFree, At, ServerSteps,
       RecoveriesStep
  <2>3. QED
    BY <2>1, <2>2
<1>8. ASSUME NEW c \in Controllers, c = built + 1, c \notin excused' PROVE Tended(c)'
  <2>1. host[c] = 0 /\ workers[c] = 0 /\ proc[c].at = "idle"
    BY <1>8, HostNames, <1>1 DEF HostInv, RecoveriesStep, HostTyped
  <2>2. \A g \in Groups : owner[g] # c
    BY <1>8, HostNames, <1>1 DEF HostInv, Owned, Unmade, HostTyped
  <2>3. QED
    BY HostNames, <1>1, <1>8, <2>1, <2>2 DEF Tended, InStage, Drives, Closing, Untold, Told, HostInv,
       HostTyped
<1>9. ASSUME NEW c \in Controllers, c = built + 1, c \notin excused', c \notin ignored' PROVE Serving(c)'
  <2>1. restarts[c] = 0 /\ proc[c].at = "idle"
    BY <1>9, HostNames, <1>1 DEF HostInv, RecoveriesStep, HostTyped
  <2>2. QED
    BY HostNames, <1>1, <1>9, <2>1 DEF Serving, Drives, ServerFree, At, HostInv, HostTyped
<1>10. excused \subseteq excused' /\ ignored \subseteq ignored'
  BY <1>1
<1>11. QED
  BY <1>2, <1>3, <1>4, <1>5, <1>6, <1>7, <1>8, <1>9, <1>10, <1>1, OneTouched

\* A stop that ends has closed the controller it took.
LEMMA HostStop == ASSUME HostInv, Stop PROVE HostInv'
<1>1. /\ proc[Server].at \in Told
      /\ op' = "none" /\ server' = "stopped"
      /\ proc' = [proc EXCEPT ![Server] = Doing("idle", 0, 0, 0)]
      /\ ShutRunner(Server)
      /\ UNCHANGED <<current, faults, host, workers, recovering, restarts, owner, thread, started, excused,
                     ignored, built, stopped>>
  BY HostNames DEF Stop, At, ShutRunner, controllerVars, Told, IdleProcess
<1>2. HostTyped'
  BY HostNames, <1>1, HostAssumption DEF HostInv, HostTyped, Stages, Processes, ThreadStates,
     ShutRunner
<1>3. Owned'
  <2>1. GroupsOwned'
    BY HostNames, <1>1 DEF HostInv, HostTyped, Owned, GroupsOwned, ShutRunner
  <2>2. HandsOwned'
    BY HostNames, <1>1 DEF HostInv, HostTyped, Owned, GroupsOwned, HandsOwned, ShutRunner
  <2>3. Unmade'
    BY HostNames, <1>1 DEF HostInv, HostTyped, Owned, HandsOwned, Unmade, ShutRunner
  <2>4. QED
    BY <2>1, <2>2, <2>3 DEF Owned
<1>4. RecoveriesStep'
  BY HostNames, <1>1 DEF HostInv, HostTyped, RecoveriesStep
<1>5. ServerSteps'
  BY HostNames, <1>1 DEF HostInv, HostTyped, ServerSteps, ServerFree, At
<1>6. InHand'
  BY HostNames, <1>1 DEF HostInv, HostTyped, InHand, IdleProcess
<1>7. ASSUME NEW c \in Controllers, c # proc[Server].on PROVE SameFor(c) /\ StillServing(c)
  <2>1. SameFor(c)
    BY <1>7, HostNames, <1>1 DEF HostInv, HostTyped, SameFor, Drives, Owned, HandsOwned,
       RecoveriesStep, ServerSteps, ShutRunner, Told
  <2>2. StillServing(c)
    BY <1>7, HostNames, <1>1 DEF HostInv, HostTyped, StillServing, ServerFree, At, ServerSteps,
       RecoveriesStep
  <2>3. QED
    BY <2>1, <2>2
<1>8. ASSUME NEW c \in Controllers, c = proc[Server].on, c \notin excused' PROVE Tended(c)'
  <2>1. c \notin excused /\ proc[Server].at \notin {"idle", "wait"}
    BY <1>1, <1>8 DEF Told
  <2>2. InStage(Server, c) /\ ~Drives(c, c) /\ Server # c
    BY HostNames, <1>8, <2>1, OneDriver
  <2>3. \A g \in Groups : owner[g] = c => ~Alive(g)'
    BY HostNames, <1>1, <1>8, <2>1, ClosedIsDead
  <2>4. QED
    BY HostNames, <1>1, <2>2, <2>3 DEF Tended, InStage, Closing, Drives, HostInv, HostTyped
<1>9. ASSUME NEW c \in Controllers, c = proc[Server].on, c \notin excused', c \notin ignored' PROVE Serving(c)'
  <2>1. c \notin excused /\ proc[Server].at \notin {"idle", "wait"}
    BY <1>1, <1>9 DEF Told
  <2>2. ~Drives(c, c) /\ Server # c
    BY HostNames, <1>9, <2>1, OneDriver
  <2>3. QED
    BY HostNames, <1>1, <1>9, <2>2 DEF Serving, Drives, ServerFree, HostInv, HostTyped
<1>10. excused \subseteq excused' /\ ignored \subseteq ignored'
  BY <1>1
<1>11. QED
  BY <1>2, <1>3, <1>4, <1>5, <1>6, <1>7, <1>8, <1>9, <1>10, <1>1, OneTouched

\* A failed start ends with the new controller closed.
LEMMA HostBringUpFails == ASSUME HostInv, BringUpFails PROVE HostInv'
<1>1. /\ proc[Server].at \in Told
      /\ op' = "none" /\ server' = "failed"
      /\ proc' = [proc EXCEPT ![Server] = Doing("idle", 0, 0, 0)]
      /\ ShutRunner(Server)
      /\ UNCHANGED <<current, faults, host, workers, recovering, restarts, owner, thread, started, excused,
                     ignored, built, stopped>>
  BY HostNames DEF BringUpFails, At, ShutRunner, controllerVars, Told, IdleProcess
<1>2. HostTyped'
  BY HostNames, <1>1, HostAssumption DEF HostInv, HostTyped, Stages, Processes, ThreadStates,
     ShutRunner
<1>3. Owned'
  <2>1. GroupsOwned'
    BY HostNames, <1>1 DEF HostInv, HostTyped, Owned, GroupsOwned, ShutRunner
  <2>2. HandsOwned'
    BY HostNames, <1>1 DEF HostInv, HostTyped, Owned, GroupsOwned, HandsOwned, ShutRunner
  <2>3. Unmade'
    BY HostNames, <1>1 DEF HostInv, HostTyped, Owned, HandsOwned, Unmade, ShutRunner
  <2>4. QED
    BY <2>1, <2>2, <2>3 DEF Owned
<1>4. RecoveriesStep'
  BY HostNames, <1>1 DEF HostInv, HostTyped, RecoveriesStep
<1>5. ServerSteps'
  BY HostNames, <1>1 DEF HostInv, HostTyped, ServerSteps, ServerFree, At
<1>6. InHand'
  BY HostNames, <1>1 DEF HostInv, HostTyped, InHand, IdleProcess
<1>7. ASSUME NEW c \in Controllers, c # proc[Server].on PROVE SameFor(c) /\ StillServing(c)
  <2>1. SameFor(c)
    BY <1>7, HostNames, <1>1 DEF HostInv, HostTyped, SameFor, Drives, Owned, HandsOwned,
       RecoveriesStep, ServerSteps, ShutRunner, Told
  <2>2. StillServing(c)
    BY <1>7, HostNames, <1>1 DEF HostInv, HostTyped, StillServing, ServerFree, At, ServerSteps,
       RecoveriesStep
  <2>3. QED
    BY <2>1, <2>2
<1>8. ASSUME NEW c \in Controllers, c = proc[Server].on, c \notin excused' PROVE Tended(c)'
  <2>1. c \notin excused /\ proc[Server].at \notin {"idle", "wait"}
    BY <1>1, <1>8 DEF Told
  <2>2. InStage(Server, c) /\ ~Drives(c, c) /\ Server # c
    BY HostNames, <1>8, <2>1, OneDriver
  <2>3. \A g \in Groups : owner[g] = c => ~Alive(g)'
    BY HostNames, <1>1, <1>8, <2>1, ClosedIsDead
  <2>4. QED
    BY HostNames, <1>1, <2>2, <2>3 DEF Tended, InStage, Closing, Drives, HostInv, HostTyped
<1>9. ASSUME NEW c \in Controllers, c = proc[Server].on, c \notin excused', c \notin ignored' PROVE Serving(c)'
  <2>1. c \notin excused /\ proc[Server].at \notin {"idle", "wait"}
    BY <1>1, <1>9 DEF Told
  <2>2. ~Drives(c, c) /\ Server # c
    BY HostNames, <1>9, <2>1, OneDriver
  <2>3. QED
    BY HostNames, <1>1, <1>9, <2>2 DEF Serving, Drives, ServerFree, HostInv, HostTyped
<1>10. excused \subseteq excused' /\ ignored \subseteq ignored'
  BY <1>1
<1>11. QED
  BY <1>2, <1>3, <1>4, <1>5, <1>6, <1>7, <1>8, <1>9, <1>10, <1>1, OneTouched

\* A start that ends has put its controller on the map.
LEMMA HostBringUpEnds == ASSUME HostInv, BringUpEnds PROVE HostInv'
<1>1. /\ proc[Server].at = "telling"
      /\ op' = "none" /\ server' = "running" /\ current' = proc[Server].on
      /\ proc' = [proc EXCEPT ![Server] = Doing("idle", 0, 0, 0)]
      /\ UNCHANGED <<faults, host, workers, recovering, restarts, owner, runner, thread, started, excused,
                     ignored, built, stopped>>
  BY HostNames DEF BringUpEnds, At, controllerVars, groupVars, IdleProcess
<1>2. HostTyped'
  BY HostNames, <1>1, HostAssumption DEF HostInv, HostTyped, Stages, Processes, ThreadStates
<1>3. Owned'
  <2>1. GroupsOwned'
    BY HostNames, <1>1 DEF HostInv, HostTyped, Owned, GroupsOwned
  <2>2. HandsOwned'
    BY HostNames, <1>1 DEF HostInv, HostTyped, Owned, GroupsOwned, HandsOwned
  <2>3. Unmade'
    BY HostNames, <1>1 DEF HostInv, HostTyped, Owned, HandsOwned, Unmade
  <2>4. QED
    BY <2>1, <2>2, <2>3 DEF Owned
<1>4. RecoveriesStep'
  BY HostNames, <1>1 DEF HostInv, HostTyped, RecoveriesStep
<1>5. ServerSteps'
  BY HostNames, <1>1 DEF HostInv, HostTyped, ServerSteps, ServerFree, At
<1>6. InHand'
  BY HostNames, <1>1 DEF HostInv, HostTyped, InHand, IdleProcess
<1>7. ASSUME NEW c \in Controllers, c # proc[Server].on PROVE SameFor(c) /\ StillServing(c)
  <2>1. SameFor(c)
    BY <1>7, HostNames, <1>1 DEF HostInv, HostTyped, SameFor, Drives, Owned, HandsOwned,
       RecoveriesStep, ServerSteps
  <2>2. StillServing(c)
    BY <1>7, HostNames, <1>1 DEF HostInv, HostTyped, StillServing, ServerFree, At, ServerSteps,
       RecoveriesStep
  <2>3. QED
    BY <2>1, <2>2
<1>8. ASSUME NEW c \in Controllers, c = proc[Server].on, c \notin excused' PROVE Tended(c)'
  <2>1. c \notin excused
    BY <1>1, <1>8
  <2>2. ~Drives(c, c) /\ InStage(Server, c) /\ Server # c
    BY HostNames, <1>1, <1>8, <2>1, OneDriver
  <2>3. \A g \in Groups : owner[g] = c /\ Alive(g) => g = host[c] /\ (ThreadsAlive(g) => workers[c] = g)
    BY HostNames, <1>1, <1>8, <2>1, OpenIsHeld DEF Opening
  <2>4. QED
    BY HostNames, <1>1, <1>8, <2>2, <2>3 DEF Tended, Held, Drives, HostInv, HostTyped, Alive,
       ThreadsAlive
<1>9. ASSUME NEW c \in Controllers, c = proc[Server].on, c \notin excused', c \notin ignored' PROVE Serving(c)'
  <2>1. c \notin excused /\ Serving(c)
    BY <1>1, <1>9 DEF HostInv
  <2>2. ~Drives(c, c) /\ Drives(Server, c) /\ InStage(Server, c) /\ Server # c
    BY HostNames, <1>1, <1>9, <2>1, OneDriver
  <2>3. workers[c] = proc[Server].w /\ proc[Server].w # 0 /\ started[proc[Server].w] = Threads
    BY HostNames, <1>1, <2>2 DEF InStage, HostInv, InHand
  <2>4. c \notin recovering => AllReady(proc[Server].w)
    BY HostNames, <1>1, <2>1, <2>2 DEF Serving
  <2>5. QED
    BY HostNames, <1>1, <1>9, <2>2, <2>3, <2>4 DEF Serving, Drives, AllReady, HostInv, HostTyped
<1>10. excused \subseteq excused' /\ ignored \subseteq ignored'
  BY <1>1
<1>11. QED
  BY <1>2, <1>3, <1>4, <1>5, <1>6, <1>7, <1>8, <1>9, <1>10, <1>1, OneTouched

\* The threads in hand are told to stop.
LEMMA HostStopThreads == ASSUME HostInv, NEW p \in Processes, StopThreads(p) PROVE HostInv'
<1>1. /\ proc[p].at \in Untold
      /\ \E s \in Told :
            /\ proc' = [proc EXCEPT ![p].at = s]
            /\ s = "clearing" <=> proc[p].at = "cleaning"
            /\ s = "stopping" <=> proc[p].at = "calling"
      /\ thread' = IF proc[p].w = 0 THEN thread
                   ELSE [thread EXCEPT ![proc[p].w] = [t \in Threads |-> ToldToStop(thread[proc[p].w][t])]]
      /\ UNCHANGED <<server, op, current, built, faults, stopped, host, workers, recovering, restarts, owner,
                     runner, started, excused, ignored>>
  BY HostNames DEF StopThreads, GoTo, At, controllerVars, Untold, Told, IdleProcess
<1>2. proc' \in [Processes -> Process]
  <2>1. PICK s \in Told : proc' = [proc EXCEPT ![p].at = s]
    BY <1>1
  <2>2. s \in Stages
    BY DEF Told, Stages
  <2>3. QED
    BY <2>1, <2>2, ProcessMoves DEF HostInv, HostTyped
<1>3. HostTyped'
  BY HostNames, <1>1, <1>2, HostAssumption DEF HostInv, HostTyped, Stages, Processes,
     ThreadStates, Told, ToldToStop
<1>4. Owned'
  <2>1. GroupsOwned'
    BY HostNames, <1>1, <1>2 DEF HostInv, HostTyped, Owned, GroupsOwned, ToldToStop
  <2>2. HandsOwned'
    BY HostNames, <1>1, <1>2 DEF HostInv, HostTyped, Owned, GroupsOwned, HandsOwned, ToldToStop
  <2>3. Unmade'
    BY HostNames, <1>1, <1>2 DEF HostInv, HostTyped, Owned, HandsOwned, Unmade, ToldToStop
  <2>4. QED
    BY <2>1, <2>2, <2>3 DEF Owned
<1>5. RecoveriesStep'
  BY HostNames, <1>1, <1>2 DEF HostInv, HostTyped, RecoveriesStep, Untold, Told
<1>6. ServerSteps'
  BY HostNames, <1>1, <1>2 DEF HostInv, HostTyped, ServerSteps, ServerFree, At, Untold, Told,
     Opening
<1>7. InHand'
  BY HostNames, <1>1, <1>2 DEF HostInv, HostTyped, InHand, IdleProcess, Untold, Told
<1>8. ASSUME NEW c \in Controllers, c # proc[p].on PROVE SameFor(c) /\ StillServing(c)
  <2>1. SameFor(c)
    BY <1>8, HostNames, <1>1, <1>2 DEF HostInv, HostTyped, SameFor, Drives, Owned, HandsOwned,
       RecoveriesStep, ServerSteps, Untold, Told
  <2>2. StillServing(c)
    BY <1>8, HostNames, <1>1, <1>2 DEF HostInv, HostTyped, StillServing, ServerFree, At,
       ServerSteps, RecoveriesStep
  <2>3. QED
    BY <2>1, <2>2
<1>9. ASSUME NEW c \in Controllers, c = proc[p].on, c \notin excused' PROVE Tended(c)'
  <2>1. c \notin excused /\ proc[p].at \notin {"idle", "wait"}
    BY <1>1, <1>9 DEF Opening, Untold, Told
  <2>2. /\ p \in {Server, c} /\ Drives(p, c) /\ InStage(p, c) /\ Tended(c)
        /\ \A q \in {Server, c} : q # p => ~Drives(q, c)
    BY <1>9, <2>1, OneDriver
  <2>3. p = Server \/ c \in recovering
    BY HostNames, <1>9, <2>1 DEF HostInv, RecoveriesStep
  <2>4. ASSUME NEW g \in Groups, owner[g] = c, Alive(g)' PROVE Held(g, c)'
    <3>1. Alive(g)
      BY <2>4, <1>1 DEF Alive, ToldToStop, HostInv, HostTyped
    <3>2. host[c] = 0
      BY <1>1, <2>2 DEF InStage, Closing
    <3>3. PICK q \in {Server, c} : /\ proc[q].on = c /\ proc[q].at \in Closing /\ proc[q].h = g
                                   /\ ThreadsAlive(g) => proc[q].w = g
      BY HostNames, <2>2, <2>4, <3>1, <3>2 DEF Tended, Held
    <3>4. q = p
      BY <2>2, <3>3 DEF Drives, Closing, Untold, Told
    <3>5. ~ThreadsAlive(g)'
      <4>1. ASSUME ThreadsAlive(g)' PROVE ThreadsAlive(g)
        BY <4>1, <1>1, HostNames DEF ThreadsAlive, ToldToStop, HostInv, HostTyped
      <4>2. proc[p].w = g => \A t \in Threads : thread'[g][t] \notin {"starting", "ready"}
        BY <1>1, HostNames DEF ToldToStop, HostInv, HostTyped
      <4>3. QED
        BY <3>3, <3>4, <4>1, <4>2 DEF ThreadsAlive
    <3>6. QED
      BY <1>1, <2>2, <3>3, <3>4, <3>5 DEF Held, Closing, HostInv, HostTyped
  <2>5. QED
    <3>1. ~(Drives(Server, c)' /\ Drives(c, c)')
      BY HostNames, <1>1, <1>9, <2>2, <2>4 DEF Tended, Drives, Closing, Untold, Told, HostInv,
         HostTyped
    <3>2. Drives(Server, c)' => InStage(Server, c)'
      BY HostNames, <1>1, <1>9, <2>2, <2>4 DEF Tended, InStage, Drives, Closing, Untold, Told,
         HostInv, HostTyped
    <3>3. Drives(c, c)' => InStage(c, c)'
      BY HostNames, <1>1, <1>9, <2>2, <2>4 DEF Tended, InStage, Drives, Closing, Untold, Told,
         HostInv, HostTyped
    <3>4. \A g \in Groups : owner'[g] = c /\ Alive(g)' => Held(g, c)'
      BY HostNames, <1>1, <1>9, <2>2, <2>4 DEF Tended, InStage, Drives, Closing, Untold, Told,
         HostInv, HostTyped
    <3>5. c # current' /\ ~Drives(Server, c)' => stopped'[c] /\ host'[c] = 0 /\ workers'[c] = 0 /\ ~Drives(c, c)'
      BY HostNames, <1>1, <1>9, <2>2, <2>4 DEF Tended, InStage, Drives, Closing, Untold, Told,
         HostInv, HostTyped
    <3>6. QED
      BY <3>1, <3>2, <3>3, <3>4, <3>5 DEF Tended
<1>10. ASSUME NEW c \in Controllers, c = proc[p].on, c \notin excused', c \notin ignored' PROVE Serving(c)'
  <2>1. c \notin excused /\ proc[p].at \notin {"idle", "wait"}
    BY <1>1, <1>10 DEF Opening, Untold, Told
  <2>2. /\ p \in {Server, c} /\ Drives(p, c) /\ InStage(p, c) /\ Tended(c)
        /\ \A q \in {Server, c} : q # p => ~Drives(q, c)
    BY <1>10, <2>1, OneDriver
  <2>3. ~(ServerFree /\ c \notin recovering)
    BY HostNames, <1>10, <2>1, <2>2 DEF HostInv, RecoveriesStep, ServerFree, At
  <2>4. QED
    BY HostNames, <1>1, <1>10, <2>2, <2>3 DEF Serving, Drives, Told, Opening, ServerFree, At, HostInv,
       HostTyped
<1>11. excused \subseteq excused' /\ ignored \subseteq ignored'
  BY <1>1
<1>12. QED
  BY <1>3, <1>4, <1>5, <1>6, <1>7, <1>8, <1>9, <1>10, <1>11, <1>1, OneTouched

\* The threads are made.
LEMMA HostStartThreads == ASSUME HostInv, NEW p \in Processes, StartThreads(p) PROVE HostInv'
<1>1. /\ proc[p].at = "runner" /\ proc' = [proc EXCEPT ![p].at = "threads"]
      /\ proc[p].w = proc[p].h /\ proc[p].w \in Groups /\ owner[proc[p].w] = proc[p].on
      /\ proc[p].on \in Controllers /\ proc[p].on <= built
      /\ workers' = [workers EXCEPT ![proc[p].on] = proc[p].w]
      /\ thread' = [thread EXCEPT ![proc[p].w] = [t \in Threads |-> "starting"]]
      /\ UNCHANGED <<server, op, current, built, faults, stopped, host, recovering, restarts, owner, runner,
                     started, excused, ignored>>
  BY HostNames DEF StartThreads, GoTo, At, HostInv, HostTyped, InHand, Owned, HandsOwned, Unmade,
     IdleProcess
<1>2. proc' \in [Processes -> Process]
  BY <1>1, ProcessMoves DEF HostInv, HostTyped, Stages
<1>3. HostTyped'
  BY HostNames, <1>1, <1>2, HostAssumption DEF HostInv, HostTyped, Stages, Processes,
     ThreadStates
<1>4. Owned'
  <2>1. GroupsOwned'
    BY HostNames, <1>1, <1>2 DEF HostInv, HostTyped, Owned, GroupsOwned
  <2>2. HandsOwned'
    BY HostNames, <1>1, <1>2 DEF HostInv, HostTyped, Owned, GroupsOwned, HandsOwned
  <2>3. Unmade'
    BY HostNames, <1>1, <1>2 DEF HostInv, HostTyped, Owned, HandsOwned, Unmade
  <2>4. QED
    BY <2>1, <2>2, <2>3 DEF Owned
<1>5. RecoveriesStep'
  BY HostNames, <1>1, <1>2 DEF HostInv, HostTyped, RecoveriesStep
<1>6. ServerSteps'
  BY HostNames, <1>1, <1>2 DEF HostInv, HostTyped, ServerSteps, ServerFree, At
<1>7. InHand'
  BY HostNames, <1>1, <1>2 DEF HostInv, HostTyped, InHand, IdleProcess
<1>8. ASSUME NEW c \in Controllers, c # proc[p].on PROVE SameFor(c) /\ StillServing(c)
  <2>1. SameFor(c)
    BY <1>8, HostNames, <1>1, <1>2 DEF HostInv, HostTyped, SameFor, Drives, Owned, HandsOwned,
       RecoveriesStep, ServerSteps
  <2>2. StillServing(c)
    BY <1>8, HostNames, <1>1, <1>2 DEF HostInv, HostTyped, StillServing, ServerFree, At,
       ServerSteps, RecoveriesStep
  <2>3. QED
    BY <2>1, <2>2
<1>9. ASSUME NEW c \in Controllers, c = proc[p].on, c \notin excused' PROVE Tended(c)'
  <2>1. c \notin excused /\ proc[p].at \notin {"idle", "wait"}
    BY <1>1, <1>9 DEF Opening, Untold, Told
  <2>2. /\ p \in {Server, c} /\ Drives(p, c) /\ InStage(p, c) /\ Tended(c)
        /\ \A q \in {Server, c} : q # p => ~Drives(q, c)
    BY <1>9, <2>1, OneDriver
  <2>3. \A g \in Groups : owner[g] = c /\ Alive(g) => g = host[c]
    BY HostNames, <1>1, <1>9, <2>1, OpenIsHeld DEF Opening
  <2>4. host[c] = proc[p].h
    BY <1>1, <2>2 DEF InStage
  <2>5. \A g \in Groups : owner[g] = c /\ Alive(g)' => g = host[c]
    BY <1>1, <2>3, <2>4 DEF Alive
  <2>6. QED
    <3>1. ~(Drives(Server, c)' /\ Drives(c, c)')
      BY HostNames, <1>1, <1>9, <2>2, <2>4, <2>5 DEF Tended, Drives, Closing, Untold, Told, HostInv,
         HostTyped
    <3>2. Drives(Server, c)' => InStage(Server, c)'
      BY HostNames, <1>1, <1>9, <2>2, <2>4, <2>5 DEF Tended, InStage, Drives, Closing, Untold, Told,
         HostInv, HostTyped
    <3>3. Drives(c, c)' => InStage(c, c)'
      BY HostNames, <1>1, <1>9, <2>2, <2>4, <2>5 DEF Tended, InStage, Drives, Closing, Untold, Told,
         HostInv, HostTyped
    <3>4. \A g \in Groups : owner'[g] = c /\ Alive(g)' => Held(g, c)'
      BY HostNames, <1>1, <1>9, <2>2, <2>4, <2>5 DEF Tended, InStage, Held, Drives, Closing, Untold,
         Told, HostInv, HostTyped
    <3>5. c # current' /\ ~Drives(Server, c)' => stopped'[c] /\ host'[c] = 0 /\ workers'[c] = 0 /\ ~Drives(c, c)'
      BY HostNames, <1>1, <1>9, <2>2, <2>4, <2>5 DEF Tended, InStage, Drives, Closing, Untold, Told,
         HostInv, HostTyped
    <3>6. QED
      BY <3>1, <3>2, <3>3, <3>4, <3>5 DEF Tended
<1>10. ASSUME NEW c \in Controllers, c = proc[p].on, c \notin excused', c \notin ignored' PROVE Serving(c)'
  <2>1. c \notin excused /\ proc[p].at \notin {"idle", "wait"}
    BY <1>1, <1>10 DEF Opening, Untold, Told
  <2>2. /\ p \in {Server, c} /\ Drives(p, c) /\ InStage(p, c) /\ Tended(c)
        /\ \A q \in {Server, c} : q # p => ~Drives(q, c)
    BY <1>10, <2>1, OneDriver
  <2>3. ~(ServerFree /\ c \notin recovering) /\ Serving(c)
    BY HostNames, <1>1, <1>10, <2>1, <2>2 DEF HostInv, RecoveriesStep, ServerFree, At
  <2>4. started[proc[p].w] = {}
    BY <1>1, <2>2 DEF InStage
  <2>5. QED
    BY HostNames, <1>1, <1>10, <2>2, <2>3, <2>4 DEF Serving, AllReady, Drives, Opening, ServerFree, At, HostInv,
       HostTyped
<1>11. excused \subseteq excused' /\ ignored \subseteq ignored'
  BY <1>1
<1>12. QED
  BY <1>3, <1>4, <1>5, <1>6, <1>7, <1>8, <1>9, <1>10, <1>11, <1>1, OneTouched

\* Every thread has started.
LEMMA HostThreadsStarted == ASSUME HostInv, NEW p \in Processes, ThreadsStarted(p) PROVE HostInv'
<1>1. /\ proc[p].at = "threads" /\ proc' = [proc EXCEPT ![p].at = "telling"]
      /\ started[proc[p].w] = Threads /\ proc[p].on \in Controllers
      /\ UNCHANGED <<server, op, current, built, faults, stopped, host, workers, recovering, restarts, owner,
                     runner, thread, started, excused, ignored>>
  BY HostNames DEF ThreadsStarted, GoTo, At, controllerVars, groupVars, HostInv, HostTyped, InHand,
     Owned, HandsOwned, IdleProcess
<1>2. proc' \in [Processes -> Process]
  BY <1>1, ProcessMoves DEF HostInv, HostTyped, Stages
<1>3. HostTyped'
  BY HostNames, <1>1, <1>2, HostAssumption DEF HostInv, HostTyped, Stages, Processes,
     ThreadStates
<1>4. Owned'
  <2>1. GroupsOwned'
    BY HostNames, <1>1, <1>2 DEF HostInv, HostTyped, Owned, GroupsOwned
  <2>2. HandsOwned'
    BY HostNames, <1>1, <1>2 DEF HostInv, HostTyped, Owned, GroupsOwned, HandsOwned
  <2>3. Unmade'
    BY HostNames, <1>1, <1>2 DEF HostInv, HostTyped, Owned, HandsOwned, Unmade
  <2>4. QED
    BY <2>1, <2>2, <2>3 DEF Owned
<1>5. RecoveriesStep'
  BY HostNames, <1>1, <1>2 DEF HostInv, HostTyped, RecoveriesStep
<1>6. ServerSteps'
  BY HostNames, <1>1, <1>2 DEF HostInv, HostTyped, ServerSteps, ServerFree, At
<1>7. InHand'
  BY HostNames, <1>1, <1>2 DEF HostInv, HostTyped, InHand, IdleProcess
<1>8. ASSUME NEW c \in Controllers, c # proc[p].on PROVE SameFor(c) /\ StillServing(c)
  <2>1. SameFor(c)
    BY <1>8, HostNames, <1>1, <1>2 DEF HostInv, HostTyped, SameFor, Drives, Owned, HandsOwned,
       RecoveriesStep, ServerSteps
  <2>2. StillServing(c)
    BY <1>8, HostNames, <1>1, <1>2 DEF HostInv, HostTyped, StillServing, ServerFree, At,
       ServerSteps, RecoveriesStep
  <2>3. QED
    BY <2>1, <2>2
<1>9. ASSUME NEW c \in Controllers, c = proc[p].on, c \notin excused' PROVE Tended(c)'
  <2>1. c \notin excused /\ proc[p].at \notin {"idle", "wait"}
    BY <1>1, <1>9 DEF Opening, Untold, Told
  <2>2. /\ p \in {Server, c} /\ Drives(p, c) /\ InStage(p, c) /\ Tended(c)
        /\ \A q \in {Server, c} : q # p => ~Drives(q, c)
    BY <1>9, <2>1, OneDriver
  <2>3. \A g \in Groups : owner[g] = c /\ Alive(g) => g = host[c] /\ (ThreadsAlive(g) => workers[c] = g)
    BY HostNames, <1>1, <1>9, <2>1, OpenIsHeld DEF Opening
  <2>4. QED
    <3>1. ~(Drives(Server, c)' /\ Drives(c, c)')
      BY HostNames, <1>1, <1>9, <2>2, <2>3 DEF Tended, Drives, Closing, Untold, Told, HostInv,
         HostTyped
    <3>2. Drives(Server, c)' => InStage(Server, c)'
      BY HostNames, <1>1, <1>9, <2>2, <2>3 DEF Tended, InStage, Drives, Closing, Untold, Told,
         HostInv, HostTyped
    <3>3. Drives(c, c)' => InStage(c, c)'
      BY HostNames, <1>1, <1>9, <2>2, <2>3 DEF Tended, InStage, Drives, Closing, Untold, Told,
         HostInv, HostTyped
    <3>4. \A g \in Groups : owner'[g] = c /\ Alive(g)' => Held(g, c)'
      BY HostNames, <1>1, <1>9, <2>2, <2>3 DEF Tended, InStage, Held, Alive, ThreadsAlive, Drives,
         Closing, Untold, Told, HostInv, HostTyped
    <3>5. c # current' /\ ~Drives(Server, c)' => stopped'[c] /\ host'[c] = 0 /\ workers'[c] = 0 /\ ~Drives(c, c)'
      BY HostNames, <1>1, <1>9, <2>2, <2>3 DEF Tended, InStage, Drives, Closing, Untold, Told,
         HostInv, HostTyped
    <3>6. QED
      BY <3>1, <3>2, <3>3, <3>4, <3>5 DEF Tended
<1>10. ASSUME NEW c \in Controllers, c = proc[p].on, c \notin excused', c \notin ignored' PROVE Serving(c)'
  <2>1. c \notin excused /\ proc[p].at \notin {"idle", "wait"}
    BY <1>1, <1>10 DEF Opening, Untold, Told
  <2>2. /\ p \in {Server, c} /\ Drives(p, c) /\ InStage(p, c) /\ Tended(c)
        /\ \A q \in {Server, c} : q # p => ~Drives(q, c)
    BY <1>10, <2>1, OneDriver
  <2>3. ~(ServerFree /\ c \notin recovering) /\ Serving(c)
    BY HostNames, <1>1, <1>10, <2>1, <2>2 DEF HostInv, RecoveriesStep, ServerFree, At
  <2>4. \A g : AllReady(g)' <=> AllReady(g)
    BY <1>1 DEF AllReady
  <2>5. /\ proc'[p].at = "telling" /\ proc'[p].on = c /\ proc'[p].w = proc[p].w
        /\ \A q \in Processes : q # p => proc'[q] = proc[q]
    BY <1>1, <1>10 DEF HostInv, HostTyped
  <2>6. CASE p = Server
    BY HostNames, <1>1, <2>2, <2>3, <2>4, <2>5, <2>6 DEF Serving, Drives, Opening, ServerFree, At
  <2>7. CASE p = c
    BY HostNames, <1>1, <2>2, <2>3, <2>4, <2>5, <2>7 DEF Serving, Drives, Opening, ServerFree, At
  <2>8. QED
    BY <2>2, <2>6, <2>7
<1>11. excused \subseteq excused' /\ ignored \subseteq ignored'
  BY <1>1
<1>12. QED
  BY <1>3, <1>4, <1>5, <1>6, <1>7, <1>8, <1>9, <1>10, <1>11, <1>1, OneTouched

\* A group is made for the controller that starts.
LEMMA HostStartRunner == ASSUME HostInv, NEW p \in Processes, StartRunner(p) PROVE HostInv'
<1>1. PICK n \in Groups :
        /\ proc[p].at = "hook" /\ proc' = [proc EXCEPT ![p] = Doing("runner", proc[p].on, n, n)]
        /\ owner[n] = 0 /\ proc[p].on \in Controllers /\ proc[p].on <= built
        /\ owner' = [owner EXCEPT ![n] = proc[p].on]
        /\ runner' = [runner EXCEPT ![n] = "starting"]
        /\ host' = [host EXCEPT ![proc[p].on] = n]
        /\ UNCHANGED <<server, op, current, built, faults, stopped, workers, recovering, restarts, thread,
                       started, excused, ignored>>
  <2>1. NextGroup \in Groups /\ owner[NextGroup] = 0
    BY DEF StartRunner, NextGroup
  <2>2. proc[p].at = "hook" /\ proc[p].on \in Controllers /\ proc[p].on <= built
    BY HostNames DEF StartRunner, At, HostInv, HostTyped, ServerSteps, RecoveriesStep
  <2>3. QED
    BY <2>1, <2>2 DEF StartRunner
<1>2. HostTyped'
  BY HostNames, <1>1, HostAssumption DEF HostInv, HostTyped, Stages, Processes, ThreadStates
<1>3. Owned'
  <2>1. GroupsOwned'
    BY HostNames, <1>1 DEF HostInv, HostTyped, Owned, GroupsOwned
  <2>2. HandsOwned'
    BY HostNames, <1>1 DEF HostInv, HostTyped, Owned, GroupsOwned, HandsOwned
  <2>3. Unmade'
    BY HostNames, <1>1 DEF HostInv, HostTyped, Owned, HandsOwned, Unmade
  <2>4. QED
    BY <2>1, <2>2, <2>3 DEF Owned
<1>4. RecoveriesStep'
  BY HostNames, <1>1 DEF HostInv, HostTyped, RecoveriesStep
<1>5. ServerSteps'
  BY HostNames, <1>1 DEF HostInv, HostTyped, ServerSteps, ServerFree, At
<1>6. InHand'
  BY HostNames, <1>1 DEF HostInv, HostTyped, InHand, IdleProcess
<1>7. ASSUME NEW c \in Controllers, c # proc[p].on PROVE SameFor(c) /\ StillServing(c)
  <2>1. SameFor(c)
    BY <1>7, HostNames, <1>1 DEF HostInv, HostTyped, SameFor, Drives, Owned, HandsOwned,
       RecoveriesStep, ServerSteps
  <2>2. StillServing(c)
    BY <1>7, HostNames, <1>1 DEF HostInv, HostTyped, StillServing, ServerFree, At, ServerSteps,
       RecoveriesStep
  <2>3. QED
    BY <2>1, <2>2
<1>8. ASSUME NEW c \in Controllers, c = proc[p].on, c \notin excused' PROVE Tended(c)'
  <2>1. c \notin excused /\ proc[p].at \notin {"idle", "wait"}
    BY <1>1, <1>8 DEF Opening, Untold, Told
  <2>2. /\ p \in {Server, c} /\ Drives(p, c) /\ InStage(p, c) /\ Tended(c)
        /\ \A q \in {Server, c} : q # p => ~Drives(q, c)
    BY <1>8, <2>1, OneDriver
  <2>3. \A g \in Groups : owner[g] = c => ~Alive(g)
    BY HostNames, <1>1, <1>8, <2>1, <2>2, OpenIsHeld DEF Opening, InStage
  <2>4. started[n] = {} /\ \A t \in Threads : thread[n][t] = "none"
    BY <1>1 DEF HostInv, Owned, Unmade
  <2>5. host[c] = 0 /\ workers[c] = 0
    BY <1>1, <2>2 DEF InStage
  <2>6. /\ proc'[p] = Doing("runner", c, n, n) /\ host'[c] = n /\ workers'[c] = 0
        /\ \A q \in Processes : q # p => proc'[q] = proc[q]
    BY HostNames, <1>1, <1>8, <2>5 DEF HostInv, HostTyped
  <2>7. \A g \in Groups : owner'[g] = c /\ Alive(g)' => g = n /\ ~ThreadsAlive(g)'
    BY HostNames, <1>1, <2>3, <2>4 DEF Alive, ThreadsAlive, HostInv, HostTyped
  <2>8. InStage(p, c)'
    BY HostNames, <1>1, <2>4, <2>6 DEF InStage, Closing, Untold, Told
  <2>9. Drives(p, c)' /\ \A q \in {Server, c} : q # p => ~Drives(q, c)'
    BY HostNames, <2>2, <2>6 DEF Drives
  <2>10. p = Server \/ c = current'
    BY HostNames, <1>1, <2>2 DEF Tended
  <2>11. QED
    BY HostNames, <2>2, <2>6, <2>7, <2>8, <2>9, <2>10 DEF Tended, Held
<1>9. ASSUME NEW c \in Controllers, c = proc[p].on, c \notin excused', c \notin ignored' PROVE Serving(c)'
  <2>1. c \notin excused /\ proc[p].at \notin {"idle", "wait"}
    BY <1>1, <1>9 DEF Opening, Untold, Told
  <2>2. /\ p \in {Server, c} /\ Drives(p, c) /\ InStage(p, c) /\ Tended(c)
        /\ \A q \in {Server, c} : q # p => ~Drives(q, c)
    BY <1>9, <2>1, OneDriver
  <2>3. ~(ServerFree /\ c \notin recovering) /\ Serving(c)
    BY HostNames, <1>1, <1>9, <2>1, <2>2 DEF HostInv, RecoveriesStep, ServerFree, At
  <2>4. QED
    BY HostNames, <1>1, <1>9, <2>2, <2>3 DEF Serving, Drives, Opening, ServerFree, At, HostInv, HostTyped
<1>10. excused \subseteq excused' /\ ignored \subseteq ignored'
  BY <1>1
<1>11. QED
  BY <1>2, <1>3, <1>4, <1>5, <1>6, <1>7, <1>8, <1>9, <1>10, <1>1, OneTouched

\* A start that fails takes the group of its controller in hand.
LEMMA HostStartFails == ASSUME HostInv, NEW p \in Processes, StartFails(p) PROVE HostInv'
<1>1. /\ proc[p].at \in Opening
      /\ proc[p].on \in Controllers /\ proc[p].on <= built
      /\ stopped' = [stopped EXCEPT ![proc[p].on] = TRUE]
      /\ host' = [host EXCEPT ![proc[p].on] = 0]
      /\ workers' = [workers EXCEPT ![proc[p].on] = 0]
      /\ proc' = [proc EXCEPT ![p] = Doing("failing", proc[p].on, host[proc[p].on], workers[proc[p].on])]
      /\ faults' \in Nat
      /\ UNCHANGED <<server, op, current, built, recovering, restarts, owner, runner, thread, started, excused,
                     ignored>>
  BY HostNames DEF StartFails, Rejected, Fault, TakeGroup, Opening, At, groupVars, HostInv, HostTyped,
     ServerSteps, RecoveriesStep, IdleProcess
<1>2. HostTyped'
  BY HostNames, <1>1, HostAssumption DEF HostInv, HostTyped, Stages, Processes, ThreadStates
<1>3. Owned'
  <2>1. GroupsOwned'
    BY HostNames, <1>1 DEF HostInv, HostTyped, Owned, GroupsOwned
  <2>2. HandsOwned'
    BY HostNames, <1>1 DEF HostInv, HostTyped, Owned, GroupsOwned, HandsOwned
  <2>3. Unmade'
    BY HostNames, <1>1 DEF HostInv, HostTyped, Owned, HandsOwned, Unmade
  <2>4. QED
    BY <2>1, <2>2, <2>3 DEF Owned
<1>4. RecoveriesStep'
  BY HostNames, <1>1 DEF HostInv, HostTyped, RecoveriesStep, Opening
<1>5. ServerSteps'
  BY HostNames, <1>1 DEF HostInv, HostTyped, ServerSteps, ServerFree, At, Opening
<1>6. InHand'
  BY HostNames, <1>1 DEF HostInv, HostTyped, InHand, IdleProcess
<1>7. ASSUME NEW c \in Controllers, c # proc[p].on PROVE SameFor(c) /\ StillServing(c)
  <2>1. SameFor(c)
    BY <1>7, HostNames, <1>1 DEF HostInv, HostTyped, SameFor, Drives, Owned, HandsOwned,
       RecoveriesStep, ServerSteps, Opening
  <2>2. StillServing(c)
    BY <1>7, HostNames, <1>1 DEF HostInv, HostTyped, StillServing, ServerFree, At, ServerSteps,
       RecoveriesStep
  <2>3. QED
    BY <2>1, <2>2
<1>8. ASSUME NEW c \in Controllers, c = proc[p].on, c \notin excused' PROVE Tended(c)'
  <2>1. c \notin excused /\ proc[p].at \notin {"idle", "wait"}
    BY <1>1, <1>8 DEF Opening, Untold, Told
  <2>2. /\ p \in {Server, c} /\ Drives(p, c) /\ InStage(p, c) /\ Tended(c)
        /\ \A q \in {Server, c} : q # p => ~Drives(q, c)
    BY <1>8, <2>1, OneDriver
  <2>3. \A g \in Groups : owner[g] = c /\ Alive(g) => g = host[c] /\ (ThreadsAlive(g) => workers[c] = g)
    BY HostNames, <1>1, <1>8, <2>1, OpenIsHeld
  <2>4. QED
    <3>1. ~(Drives(Server, c)' /\ Drives(c, c)')
      BY HostNames, <1>1, <1>8, <2>2, <2>3 DEF Tended, Drives, Closing, Untold, Told,
         HostInv, HostTyped
    <3>2. Drives(Server, c)' => InStage(Server, c)'
      BY HostNames, <1>1, <1>8, <2>2, <2>3 DEF Tended, InStage, Drives, Closing, Untold,
         Told, HostInv, HostTyped
    <3>3. Drives(c, c)' => InStage(c, c)'
      BY HostNames, <1>1, <1>8, <2>2, <2>3 DEF Tended, InStage, Drives, Closing, Untold,
         Told, HostInv, HostTyped
    <3>4. \A g \in Groups : owner'[g] = c /\ Alive(g)' => Held(g, c)'
      BY HostNames, <1>1, <1>8, <2>2, <2>3 DEF Tended, InStage, Held, Alive, ThreadsAlive, Drives,
         Doing, Closing, Untold, Told, HostInv, HostTyped
    <3>5. c # current' /\ ~Drives(Server, c)' => stopped'[c] /\ host'[c] = 0 /\ workers'[c] = 0 /\ ~Drives(c, c)'
      BY HostNames, <1>1, <1>8, <2>2, <2>3 DEF Tended, InStage, Drives, Closing, Untold,
         Told, HostInv, HostTyped
    <3>6. QED
      BY <3>1, <3>2, <3>3, <3>4, <3>5 DEF Tended
<1>9. ASSUME NEW c \in Controllers, c = proc[p].on, c \notin excused', c \notin ignored' PROVE Serving(c)'
  <2>1. c \notin excused /\ proc[p].at \notin {"idle", "wait"}
    BY <1>1, <1>9 DEF Opening, Untold, Told
  <2>2. /\ p \in {Server, c} /\ Drives(p, c) /\ InStage(p, c) /\ Tended(c)
        /\ \A q \in {Server, c} : q # p => ~Drives(q, c)
    BY <1>9, <2>1, OneDriver
  <2>3. ~(ServerFree /\ c \notin recovering) /\ Serving(c)
    BY HostNames, <1>1, <1>9, <2>1, <2>2 DEF HostInv, RecoveriesStep, ServerFree, At
  <2>4. QED
    BY HostNames, <1>1, <1>9, <2>2, <2>3 DEF Serving, Drives, Opening, ServerFree, At, HostInv, HostTyped
<1>10. excused \subseteq excused' /\ ignored \subseteq ignored'
  BY <1>1
<1>11. QED
  BY <1>2, <1>3, <1>4, <1>5, <1>6, <1>7, <1>8, <1>9, <1>10, <1>1, OneTouched

\* A recovery leaves a stopped controller alone, and says nothing.
LEMMA HostWaitGivesUp == ASSUME HostInv, NEW k \in Controllers, WaitEnds(k), stopped[k] PROVE HostInv'
<1>1. /\ proc[k].at = "wait" /\ proc' = [proc EXCEPT ![k] = Doing("idle", 0, 0, 0)]
      /\ recovering' = recovering \ {k} /\ ignored' = ignored \cup {k}
      /\ UNCHANGED <<server, op, current, built, faults, stopped, host, workers, restarts, owner, runner,
                     thread, started, excused>>
  BY HostNames DEF WaitEnds, At, groupVars, IdleProcess
<1>2. HostTyped'
  BY HostNames, <1>1, HostAssumption DEF HostInv, HostTyped, Stages, Processes, ThreadStates
<1>3. Owned'
  <2>1. GroupsOwned'
    BY HostNames, <1>1 DEF HostInv, HostTyped, Owned, GroupsOwned
  <2>2. HandsOwned'
    BY HostNames, <1>1 DEF HostInv, HostTyped, Owned, GroupsOwned, HandsOwned
  <2>3. Unmade'
    BY HostNames, <1>1 DEF HostInv, HostTyped, Owned, HandsOwned, Unmade
  <2>4. QED
    BY <2>1, <2>2, <2>3 DEF Owned
<1>4. RecoveriesStep'
  BY HostNames, <1>1 DEF HostInv, HostTyped, RecoveriesStep
<1>5. ServerSteps'
  BY HostNames, <1>1 DEF HostInv, HostTyped, ServerSteps, ServerFree, At
<1>6. InHand'
  BY HostNames, <1>1 DEF HostInv, HostTyped, InHand, IdleProcess
<1>7. ASSUME NEW c \in Controllers, c # k PROVE SameFor(c) /\ StillServing(c)
  <2>1. SameFor(c)
    BY <1>7, HostNames, <1>1 DEF HostInv, HostTyped, SameFor, Drives, Owned, HandsOwned,
       RecoveriesStep, ServerSteps
  <2>2. StillServing(c)
    BY <1>7, HostNames, <1>1 DEF HostInv, HostTyped, StillServing, ServerFree, At, ServerSteps,
       RecoveriesStep
  <2>3. QED
    BY <2>1, <2>2
<1>8. ASSUME NEW c \in Controllers, c = k, c \notin excused' PROVE Tended(c)'
  <2>1. Tended(c)
    BY <1>1, <1>8 DEF HostInv
  <2>2. QED
    BY HostNames, <1>1, <1>8, <2>1 DEF Tended, InStage, Held, Alive, ThreadsAlive, Drives, Closing,
       Untold, Told, HostInv, HostTyped
<1>9. ASSUME NEW c \in Controllers, c = k, c \notin excused', c \notin ignored' PROVE Serving(c)'
  BY <1>1, <1>9
<1>10. excused \subseteq excused' /\ ignored \subseteq ignored'
  BY <1>1
<1>11. QED
  BY <1>2, <1>3, <1>4, <1>5, <1>6, <1>7, <1>8, <1>9, <1>10, <1>1, OneTouched

\* A recovery whose delay is over takes the group of its controller in
\* hand.
LEMMA HostWaitRestarts == ASSUME HostInv, NEW k \in Controllers, WaitEnds(k), ~stopped[k] PROVE HostInv'
<1>1. /\ proc[k].at = "wait" /\ k <= built
      /\ stopped' = [stopped EXCEPT ![k] = TRUE]
      /\ host' = [host EXCEPT ![k] = 0]
      /\ workers' = [workers EXCEPT ![k] = 0]
      /\ proc' = [proc EXCEPT ![k] = Doing("calling", k, host[k], workers[k])]
      /\ excused' = IF ServerOn(k) THEN excused \cup {k} ELSE excused
      /\ UNCHANGED <<server, op, current, built, faults, recovering, restarts, owner, runner, thread, started,
                     ignored>>
  BY HostNames DEF WaitEnds, TakeGroup, At, groupVars, HostInv, HostTyped, RecoveriesStep, IdleProcess
<1>2. HostTyped'
  BY HostNames, <1>1, HostAssumption DEF HostInv, HostTyped, Stages, Processes, ThreadStates,
     ServerOn
<1>3. Owned'
  <2>1. GroupsOwned'
    BY HostNames, <1>1 DEF HostInv, HostTyped, Owned, GroupsOwned
  <2>2. HandsOwned'
    BY HostNames, <1>1 DEF HostInv, HostTyped, Owned, GroupsOwned, HandsOwned
  <2>3. Unmade'
    BY HostNames, <1>1 DEF HostInv, HostTyped, Owned, HandsOwned, Unmade
  <2>4. QED
    BY <2>1, <2>2, <2>3 DEF Owned
<1>4. RecoveriesStep'
  BY HostNames, <1>1 DEF HostInv, HostTyped, RecoveriesStep
<1>5. ServerSteps'
  BY HostNames, <1>1 DEF HostInv, HostTyped, ServerSteps, ServerFree, At
<1>6. InHand'
  BY HostNames, <1>1 DEF HostInv, HostTyped, InHand, IdleProcess
<1>7. ASSUME NEW c \in Controllers, c # k PROVE SameFor(c) /\ StillServing(c)
  <2>1. SameFor(c)
    BY <1>7, HostNames, <1>1 DEF HostInv, HostTyped, SameFor, Drives, Owned, HandsOwned,
       RecoveriesStep, ServerSteps
  <2>2. StillServing(c)
    BY <1>7, HostNames, <1>1 DEF HostInv, HostTyped, StillServing, ServerFree, At, ServerSteps,
       RecoveriesStep
  <2>3. QED
    BY <2>1, <2>2
<1>8. ASSUME NEW c \in Controllers, c = k, c \notin excused' PROVE Tended(c)'
  <2>1. Tended(c) /\ ~Drives(Server, c) /\ ~Drives(c, c)
    BY HostNames, <1>1, <1>8 DEF HostInv, ServerOn, Drives
  <2>2. c = current
    BY <1>8, <2>1 DEF Tended
  <2>3. \A g \in Groups : owner[g] = c /\ Alive(g) => g = host[c] /\ (ThreadsAlive(g) => workers[c] = g)
    BY HostNames, <2>1 DEF Tended, Held, Drives, Closing, Untold, Told
  <2>4. QED
    BY HostNames, <1>1, <1>8, <2>1, <2>2, <2>3 DEF Tended, InStage, Held, Alive, ThreadsAlive, Drives,
       Closing, Untold, Told, HostInv, HostTyped
<1>9. ASSUME NEW c \in Controllers, c = k, c \notin excused', c \notin ignored' PROVE Serving(c)'
  <2>1. ~Drives(Server, c) /\ c \in recovering
    BY HostNames, <1>1, <1>9 DEF HostInv, ServerOn, Drives, RecoveriesStep
  <2>2. QED
    BY HostNames, <1>1, <1>9, <2>1 DEF Serving, Drives, HostInv, HostTyped
<1>10. excused \subseteq excused' /\ ignored \subseteq ignored'
  BY <1>1
<1>11. QED
  BY <1>2, <1>3, <1>4, <1>5, <1>6, <1>7, <1>8, <1>9, <1>10, <1>1, OneTouched

\* A recovery that has closed its controller starts it again.
LEMMA HostRecoveryStarts == ASSUME HostInv, NEW k \in Controllers, RecoveryStarts(k) PROVE HostInv'
<1>1. /\ proc[k].at = "stopping" /\ k <= built
      /\ stopped' = [stopped EXCEPT ![k] = FALSE]
      /\ proc' = [proc EXCEPT ![k] = Doing("hook", k, 0, 0)]
      /\ ShutRunner(k)
      /\ UNCHANGED <<server, op, current, built, faults, host, workers, recovering, restarts, owner, thread,
                     started, excused, ignored>>
  BY HostNames DEF RecoveryStarts, StartHook, At, ShutRunner, HostInv, HostTyped, RecoveriesStep, IdleProcess
<1>2. HostTyped'
  BY HostNames, <1>1, HostAssumption DEF HostInv, HostTyped, Stages, Processes, ThreadStates,
     ShutRunner
<1>3. Owned'
  <2>1. GroupsOwned'
    BY HostNames, <1>1 DEF HostInv, HostTyped, Owned, GroupsOwned, ShutRunner
  <2>2. HandsOwned'
    BY HostNames, <1>1 DEF HostInv, HostTyped, Owned, GroupsOwned, HandsOwned, ShutRunner
  <2>3. Unmade'
    BY HostNames, <1>1 DEF HostInv, HostTyped, Owned, HandsOwned, Unmade, ShutRunner
  <2>4. QED
    BY <2>1, <2>2, <2>3 DEF Owned
<1>4. RecoveriesStep'
  BY HostNames, <1>1 DEF HostInv, HostTyped, RecoveriesStep
<1>5. ServerSteps'
  BY HostNames, <1>1 DEF HostInv, HostTyped, ServerSteps, ServerFree, At
<1>6. InHand'
  BY HostNames, <1>1 DEF HostInv, HostTyped, InHand, IdleProcess
<1>7. ASSUME NEW c \in Controllers, c # k PROVE SameFor(c) /\ StillServing(c)
  <2>1. SameFor(c)
    BY <1>7, HostNames, <1>1 DEF HostInv, HostTyped, SameFor, Drives, Owned, HandsOwned,
       RecoveriesStep, ServerSteps, ShutRunner
  <2>2. StillServing(c)
    BY <1>7, HostNames, <1>1 DEF HostInv, HostTyped, StillServing, ServerFree, At, ServerSteps,
       RecoveriesStep
  <2>3. QED
    BY <2>1, <2>2
<1>8. ASSUME NEW c \in Controllers, c = k, c \notin excused' PROVE Tended(c)'
  <2>1. c \notin excused /\ proc[c].at \notin {"idle", "wait"} /\ proc[c].on = c
    BY HostNames, <1>1, <1>8 DEF Opening, Untold, Told, HostInv, RecoveriesStep
  <2>2. /\ Drives(c, c) /\ InStage(c, c) /\ Tended(c) /\ ~Drives(Server, c)
        /\ c = current
    BY HostNames, <1>8, <2>1, OneDriver DEF Tended
  <2>3. \A g \in Groups : owner[g] = c => ~Alive(g)'
    BY HostNames, <1>1, <1>8, <2>1, ClosedIsDead DEF Told
  <2>4. QED
    BY HostNames, <1>1, <1>8, <2>2, <2>3 DEF Tended, InStage, Drives, Closing, Untold, Told, HostInv,
       HostTyped
<1>9. ASSUME NEW c \in Controllers, c = k, c \notin excused', c \notin ignored' PROVE Serving(c)'
  <2>1. c \notin excused /\ proc[c].at \notin {"idle", "wait"} /\ proc[c].on = c
    BY HostNames, <1>1, <1>9 DEF Opening, Untold, Told, HostInv, RecoveriesStep
  <2>2. /\ Drives(c, c) /\ InStage(c, c) /\ Tended(c) /\ ~Drives(Server, c)
        /\ c = current
    BY HostNames, <1>9, <2>1, OneDriver DEF Tended
  <2>3. c \in recovering
    BY <2>1 DEF HostInv, RecoveriesStep
  <2>4. QED
    BY HostNames, <1>1, <1>9, <2>2, <2>3 DEF Serving, Drives, HostInv, HostTyped
<1>10. excused \subseteq excused' /\ ignored \subseteq ignored'
  BY <1>1
<1>11. QED
  BY <1>2, <1>3, <1>4, <1>5, <1>6, <1>7, <1>8, <1>9, <1>10, <1>1, OneTouched

\* A restart that fails leaves its controller closed: the recovery goes
\* around, or reports.
LEMMA HostRecoveryFails == ASSUME HostInv, NEW k \in Controllers, RecoveryFails(k) PROVE HostInv'
<1>1. /\ proc[k].at = "unwinding" /\ k <= built
      /\ \/ /\ proc' = [proc EXCEPT ![k] = Doing("wait", k, 0, 0)]
            /\ restarts[k] < Attempts /\ restarts' = [restarts EXCEPT ![k] = restarts[k] + 1]
            /\ recovering' = recovering \cup {k} /\ UNCHANGED server
         \/ /\ proc' = [proc EXCEPT ![k] = Doing("idle", 0, 0, 0)]
            /\ recovering' = recovering \ {k} /\ server' = "failed" /\ UNCHANGED restarts
      /\ ShutRunner(k)
      /\ UNCHANGED <<op, current, built, faults, stopped, host, workers, owner, thread, started, excused,
                     ignored>>
  BY HostNames DEF RecoveryFails, RecoverNext, At, ShutRunner, HostInv, HostTyped, RecoveriesStep, IdleProcess
<1>2. /\ proc' \in [Processes -> Process] /\ restarts' \in [Controllers -> 0..Attempts]
      /\ proc'[k].h = 0 /\ proc'[k].w = 0 /\ \A q \in Processes : q # k => proc'[q] = proc[q]
  BY HostNames, <1>1, HostAssumption DEF HostInv, HostTyped, Stages
<1>3. HostTyped'
  <2>1. server' \in {"failed", server} /\ recovering' \subseteq Controllers
    BY <1>1 DEF HostInv, HostTyped
  <2>2. runner' \in [Groups -> {"none", "starting", "up", "gone"}]
    BY <1>1 DEF ShutRunner, HostInv, HostTyped
  <2>3. UNCHANGED <<op, current, built, faults, stopped, host, workers, owner, thread, started, excused, ignored>>
    BY <1>1
  <2>4. QED
    BY <1>2, <2>1, <2>2, <2>3 DEF HostInv, HostTyped
<1>4. Owned'
  <2>1. GroupsOwned'
    BY HostNames, <1>1, <1>2 DEF HostInv, HostTyped, Owned, GroupsOwned, ShutRunner
  <2>2. HandsOwned'
    BY HostNames, <1>1, <1>2 DEF HostInv, HostTyped, Owned, GroupsOwned, HandsOwned, ShutRunner
  <2>3. Unmade'
    BY HostNames, <1>1, <1>2 DEF HostInv, HostTyped, Owned, HandsOwned, Unmade, ShutRunner
  <2>4. QED
    BY <2>1, <2>2, <2>3 DEF Owned
<1>5. RecoveriesStep'
  BY HostNames, <1>1, <1>2 DEF HostInv, HostTyped, RecoveriesStep
<1>6. ServerSteps'
  BY HostNames, <1>1, <1>2 DEF HostInv, HostTyped, ServerSteps, ServerFree, At
<1>7. InHand'
  BY HostNames, <1>1, <1>2 DEF HostInv, HostTyped, InHand, IdleProcess
<1>8. ASSUME NEW c \in Controllers, c # k PROVE SameFor(c) /\ StillServing(c)
  <2>1. SameFor(c)
    BY <1>8, HostNames, <1>1, <1>2 DEF HostInv, HostTyped, SameFor, Drives, Owned, HandsOwned,
       RecoveriesStep, ServerSteps, ShutRunner
  <2>2. StillServing(c)
    BY <1>8, HostNames, <1>1, <1>2 DEF HostInv, HostTyped, StillServing, ServerFree, At,
       ServerSteps, RecoveriesStep
  <2>3. QED
    BY <2>1, <2>2
<1>9. ASSUME NEW c \in Controllers, c = k, c \notin excused' PROVE Tended(c)'
  <2>1. c \notin excused /\ proc[c].at \notin {"idle", "wait"} /\ proc[c].on = c
    BY HostNames, <1>1, <1>9 DEF Opening, Untold, Told, HostInv, RecoveriesStep
  <2>2. /\ Drives(c, c) /\ InStage(c, c) /\ Tended(c) /\ ~Drives(Server, c)
        /\ c = current
    BY HostNames, <1>9, <2>1, OneDriver DEF Tended
  <2>3. \A g \in Groups : owner[g] = c => ~Alive(g)'
    BY HostNames, <1>1, <1>9, <2>1, ClosedIsDead DEF Told
  <2>4. QED
    BY HostNames, <1>1, <1>9, <2>2, <2>3 DEF Tended, InStage, Drives, Closing, Untold, Told, HostInv,
       HostTyped
<1>10. ASSUME NEW c \in Controllers, c = k, c \notin excused', c \notin ignored' PROVE Serving(c)'
  <2>1. c \notin excused /\ proc[c].at \notin {"idle", "wait"} /\ proc[c].on = c
    BY HostNames, <1>1, <1>10 DEF Opening, Untold, Told, HostInv, RecoveriesStep
  <2>2. /\ Drives(c, c) /\ InStage(c, c) /\ Tended(c) /\ ~Drives(Server, c)
        /\ c = current
    BY HostNames, <1>10, <2>1, OneDriver DEF Tended
  <2>3. QED
    BY HostNames, <1>1, <1>10, <2>2 DEF Serving, Drives, HostInv, HostTyped
<1>11. excused \subseteq excused' /\ ignored \subseteq ignored'
  BY <1>1
<1>12. QED
  BY <1>3, <1>4, <1>5, <1>6, <1>7, <1>8, <1>9, <1>10, <1>11, <1>1, OneTouched

\* A recovery that ends leaves its controller serving.
LEMMA HostRecoveryEnds == ASSUME HostInv, NEW k \in Controllers, RecoveryEnds(k) PROVE HostInv'
<1>1. /\ proc[k].at = "telling" /\ k <= built
      /\ proc' = [proc EXCEPT ![k] = Doing("idle", 0, 0, 0)]
      /\ restarts' = [restarts EXCEPT ![k] = 0]
      /\ recovering' = recovering \ {k}
      /\ UNCHANGED <<server, op, current, built, faults, stopped, host, workers, owner, runner, thread,
                     started, excused, ignored>>
  BY HostNames DEF RecoveryEnds, At, groupVars, HostInv, HostTyped, RecoveriesStep, IdleProcess
<1>2. HostTyped'
  BY HostNames, <1>1, HostAssumption DEF HostInv, HostTyped, Stages, Processes, ThreadStates
<1>3. Owned'
  <2>1. GroupsOwned'
    BY HostNames, <1>1 DEF HostInv, HostTyped, Owned, GroupsOwned
  <2>2. HandsOwned'
    BY HostNames, <1>1 DEF HostInv, HostTyped, Owned, GroupsOwned, HandsOwned
  <2>3. Unmade'
    BY HostNames, <1>1 DEF HostInv, HostTyped, Owned, HandsOwned, Unmade
  <2>4. QED
    BY <2>1, <2>2, <2>3 DEF Owned
<1>4. RecoveriesStep'
  BY HostNames, <1>1 DEF HostInv, HostTyped, RecoveriesStep
<1>5. ServerSteps'
  BY HostNames, <1>1 DEF HostInv, HostTyped, ServerSteps, ServerFree, At
<1>6. InHand'
  BY HostNames, <1>1 DEF HostInv, HostTyped, InHand, IdleProcess
<1>7. ASSUME NEW c \in Controllers, c # k PROVE SameFor(c) /\ StillServing(c)
  <2>1. SameFor(c)
    BY <1>7, HostNames, <1>1 DEF HostInv, HostTyped, SameFor, Drives, Owned, HandsOwned,
       RecoveriesStep, ServerSteps
  <2>2. StillServing(c)
    BY <1>7, HostNames, <1>1 DEF HostInv, HostTyped, StillServing, ServerFree, At, ServerSteps,
       RecoveriesStep
  <2>3. QED
    BY <2>1, <2>2
<1>8. ASSUME NEW c \in Controllers, c = k, c \notin excused' PROVE Tended(c)'
  <2>1. c \notin excused /\ proc[c].at \notin {"idle", "wait"} /\ proc[c].on = c
    BY HostNames, <1>1, <1>8 DEF Opening, Untold, Told, HostInv, RecoveriesStep
  <2>2. /\ Drives(c, c) /\ InStage(c, c) /\ Tended(c) /\ ~Drives(Server, c)
        /\ c = current
    BY HostNames, <1>8, <2>1, OneDriver DEF Tended
  <2>3. \A g \in Groups : owner[g] = c /\ Alive(g) => g = host[c] /\ (ThreadsAlive(g) => workers[c] = g)
    BY HostNames, <1>1, <1>8, <2>1, OpenIsHeld DEF Opening
  <2>4. QED
    BY HostNames, <1>1, <1>8, <2>2, <2>3 DEF Tended, InStage, Held, Alive, ThreadsAlive, Drives,
       Closing, Untold, Told, HostInv, HostTyped
<1>9. ASSUME NEW c \in Controllers, c = k, c \notin excused', c \notin ignored' PROVE Serving(c)'
  <2>1. c \notin excused /\ proc[c].at \notin {"idle", "wait"} /\ proc[c].on = c
    BY HostNames, <1>1, <1>9 DEF Opening, Untold, Told, HostInv, RecoveriesStep
  <2>2. /\ Drives(c, c) /\ InStage(c, c) /\ Tended(c) /\ ~Drives(Server, c)
        /\ c = current
    BY HostNames, <1>9, <2>1, OneDriver DEF Tended
  <2>3. workers[c] = proc[c].w /\ proc[c].w # 0 /\ started[proc[c].w] = Threads /\ AllReady(proc[c].w)
    BY HostNames, <1>1, <1>9, <2>2 DEF InStage, HostInv, InHand, Serving
  <2>4. QED
    BY HostNames, <1>1, <1>9, <2>2, <2>3 DEF Serving, AllReady, Drives, HostInv, HostTyped
<1>10. excused \subseteq excused' /\ ignored \subseteq ignored'
  BY <1>1
<1>11. QED
  BY <1>2, <1>3, <1>4, <1>5, <1>6, <1>7, <1>8, <1>9, <1>10, <1>1, OneTouched

\* The server stops the controller whose start failed once more.
LEMMA HostCleanUp == ASSUME HostInv, CleanUp PROVE HostInv'
<1>1. /\ proc[Server].at = "unwinding" /\ proc[Server].on \in Controllers /\ proc[Server].on <= built
      /\ current' = 0
      /\ stopped' = [stopped EXCEPT ![proc[Server].on] = TRUE]
      /\ host' = [host EXCEPT ![proc[Server].on] = 0]
      /\ workers' = [workers EXCEPT ![proc[Server].on] = 0]
      /\ proc' = [proc EXCEPT ![Server] = Doing("cleaning", proc[Server].on, host[proc[Server].on], workers[proc[Server].on])]
      /\ excused' \in {excused, excused \cup {proc[Server].on}}
      /\ ShutRunner(Server)
      /\ UNCHANGED <<server, op, built, faults, recovering, restarts, owner, thread, started, ignored>>
  BY HostNames DEF CleanUp, Overlaps, TakeGroup, At, HostInv, HostTyped, ServerSteps, IdleProcess
<1>2. HostTyped'
  <2>1. proc' \in [Processes -> Process] /\ excused' \subseteq Controllers
    BY HostNames, <1>1 DEF HostInv, HostTyped, Stages
  <2>2. runner' \in [Groups -> {"none", "starting", "up", "gone"}]
    BY <1>1 DEF ShutRunner, HostInv, HostTyped
  <2>3. /\ host' \in [Controllers -> Groups \cup {0}] /\ workers' \in [Controllers -> Groups \cup {0}]
        /\ stopped' \in [Controllers -> BOOLEAN]
    BY <1>1 DEF HostInv, HostTyped
  <2>4. /\ current' = 0
        /\ UNCHANGED <<server, op, built, faults, recovering, restarts, owner, thread, started, ignored>>
    BY <1>1
  <2>5. QED
    BY <2>1, <2>2, <2>3, <2>4 DEF HostInv, HostTyped
<1>3. Owned'
  <2>1. GroupsOwned'
    BY HostNames, <1>1 DEF HostInv, HostTyped, Owned, GroupsOwned, ShutRunner
  <2>2. HandsOwned'
    BY HostNames, <1>1 DEF HostInv, HostTyped, Owned, GroupsOwned, HandsOwned, ShutRunner
  <2>3. Unmade'
    BY HostNames, <1>1 DEF HostInv, HostTyped, Owned, HandsOwned, Unmade, ShutRunner
  <2>4. QED
    BY <2>1, <2>2, <2>3 DEF Owned
<1>4. RecoveriesStep'
  BY HostNames, <1>1 DEF HostInv, HostTyped, RecoveriesStep
<1>5. ServerSteps'
  BY HostNames, <1>1 DEF HostInv, HostTyped, ServerSteps, ServerFree, At
<1>6. InHand'
  BY HostNames, <1>1 DEF HostInv, HostTyped, InHand, IdleProcess
<1>7. ASSUME NEW c \in Controllers, c # proc[Server].on PROVE SameFor(c) /\ StillServing(c)
  <2>1. SameFor(c)
    BY <1>7, HostNames, <1>1 DEF HostInv, HostTyped, SameFor, Drives, Owned, HandsOwned,
       RecoveriesStep, ServerSteps, ShutRunner
  <2>2. StillServing(c)
    BY <1>7, HostNames, <1>1 DEF HostInv, HostTyped, StillServing, ServerFree, At, ServerSteps,
       RecoveriesStep
  <2>3. QED
    BY <2>1, <2>2
<1>8. ASSUME NEW c \in Controllers, c = proc[Server].on, c \notin excused' PROVE Tended(c)'
  <2>1. c \notin excused
    BY <1>1, <1>8
  <2>2. InStage(Server, c) /\ ~Drives(c, c) /\ Server # c
    BY HostNames, <1>1, <1>8, <2>1, OneDriver
  <2>3. \A g \in Groups : owner[g] = c => ~Alive(g)'
    BY HostNames, <1>1, <1>8, <2>1, ClosedIsDead DEF Told
  <2>4. QED
    BY SMTT(30), HostNames, <1>1, <1>8, <2>2, <2>3 DEF Tended, InStage, Closing, Untold, Told, Drives, HostInv,
       HostTyped
<1>9. ASSUME NEW c \in Controllers, c = proc[Server].on, c \notin excused', c \notin ignored' PROVE Serving(c)'
  <2>1. c \notin excused
    BY <1>1, <1>9
  <2>2. ~Drives(c, c) /\ Server # c
    BY HostNames, <1>1, <1>9, <2>1, OneDriver
  <2>3. QED
    BY HostNames, <1>1, <1>9, <2>2 DEF Serving, Drives, Opening, ServerFree, At, HostInv, HostTyped
<1>10. excused \subseteq excused' /\ ignored \subseteq ignored'
  BY <1>1
<1>11. QED
  BY <1>2, <1>3, <1>4, <1>5, <1>6, <1>7, <1>8, <1>9, <1>10, <1>1, OneTouched

\* An operation of a server without a controller has nothing to stop.
LEMMA HostBeginEmpty == ASSUME HostInv, NEW kind \in {"reload", "reloadRuntime", "stop"}, Begin(kind), current = 0 PROVE HostInv'
<1>1. /\ proc[Server].at = "idle" /\ current = 0
      /\ op' = kind /\ server' \in {"stopping", "reloading"} /\ current' = 0
      /\ proc' = [proc EXCEPT ![Server] = Doing("calling", 0, 0, 0)]
      /\ UNCHANGED <<built, faults, stopped, host, workers, recovering, restarts, owner, runner, thread,
                     started, excused, ignored>>
  BY HostNames DEF Begin, ServerFree, At, groupVars, IdleProcess
<1>2. HostTyped'
  BY HostNames, <1>1, HostAssumption DEF HostInv, HostTyped, Stages, Processes, ThreadStates
<1>3. Owned'
  <2>1. GroupsOwned'
    BY HostNames, <1>1 DEF HostInv, HostTyped, Owned, GroupsOwned
  <2>2. HandsOwned'
    BY HostNames, <1>1 DEF HostInv, HostTyped, Owned, GroupsOwned, HandsOwned
  <2>3. Unmade'
    BY HostNames, <1>1 DEF HostInv, HostTyped, Owned, HandsOwned, Unmade
  <2>4. QED
    BY <2>1, <2>2, <2>3 DEF Owned
<1>4. RecoveriesStep'
  BY HostNames, <1>1 DEF HostInv, HostTyped, RecoveriesStep
<1>5. ServerSteps'
  BY HostNames, <1>1 DEF HostInv, HostTyped, ServerSteps, ServerFree, At
<1>6. InHand'
  BY HostNames, <1>1 DEF HostInv, HostTyped, InHand, IdleProcess
<1>7. ASSUME NEW c \in Controllers PROVE SameFor(c) /\ StillServing(c)
  <2>1. SameFor(c)
    BY <1>7, HostNames, <1>1 DEF HostInv, HostTyped, SameFor, Drives, Owned, HandsOwned,
       RecoveriesStep, ServerSteps
  <2>2. StillServing(c)
    BY <1>7, HostNames, <1>1 DEF HostInv, HostTyped, StillServing, ServerFree, At, ServerSteps,
       RecoveriesStep
  <2>3. QED
    BY <2>1, <2>2
<1>8. excused \subseteq excused' /\ ignored \subseteq ignored'
  BY <1>1
<1>9. QED
  BY <1>2, <1>3, <1>4, <1>5, <1>6, <1>7, <1>8, <1>1, OneTouched

\* An operation takes the controller off the map and its group in hand.
LEMMA HostBegin == ASSUME HostInv, NEW kind \in {"reload", "reloadRuntime", "stop"}, Begin(kind), current # 0 PROVE HostInv'
<1>1. /\ proc[Server].at = "idle" /\ current \in Controllers /\ current <= built
      /\ op' = kind /\ server' \in {"stopping", "reloading"} /\ current' = 0
      /\ stopped' = [stopped EXCEPT ![current] = TRUE]
      /\ host' = [host EXCEPT ![current] = 0]
      /\ workers' = [workers EXCEPT ![current] = 0]
      /\ proc' = [proc EXCEPT ![Server] = Doing("calling", current, host[current], workers[current])]
      /\ excused' = Overlaps(current)
      /\ UNCHANGED <<built, faults, recovering, restarts, owner, runner, thread, started, ignored>>
  BY HostNames DEF Begin, TakeGroup, ServerFree, At, groupVars, HostInv, HostTyped, ServerSteps, IdleProcess
<1>2. HostTyped'
  BY HostNames, <1>1, HostAssumption DEF HostInv, HostTyped, Stages, Processes, ThreadStates,
     Overlaps
<1>3. Owned'
  <2>1. GroupsOwned'
    BY HostNames, <1>1 DEF HostInv, HostTyped, Owned, GroupsOwned
  <2>2. HandsOwned'
    BY HostNames, <1>1 DEF HostInv, HostTyped, Owned, GroupsOwned, HandsOwned
  <2>3. Unmade'
    BY HostNames, <1>1 DEF HostInv, HostTyped, Owned, HandsOwned, Unmade
  <2>4. QED
    BY <2>1, <2>2, <2>3 DEF Owned
<1>4. RecoveriesStep'
  BY HostNames, <1>1 DEF HostInv, HostTyped, RecoveriesStep
<1>5. ServerSteps'
  BY HostNames, <1>1 DEF HostInv, HostTyped, ServerSteps, ServerFree, At
<1>6. InHand'
  BY HostNames, <1>1 DEF HostInv, HostTyped, InHand, IdleProcess
<1>7. ASSUME NEW c \in Controllers, c # current PROVE SameFor(c) /\ StillServing(c)
  <2>1. SameFor(c)
    BY <1>7, HostNames, <1>1 DEF HostInv, HostTyped, SameFor, Drives, Owned, HandsOwned,
       RecoveriesStep, ServerSteps
  <2>2. StillServing(c)
    BY <1>7, HostNames, <1>1 DEF HostInv, HostTyped, StillServing, ServerFree, At, ServerSteps,
       RecoveriesStep
  <2>3. QED
    BY <2>1, <2>2
<1>8. ASSUME NEW c \in Controllers, c = current, c \notin excused' PROVE Tended(c)'
  <2>1. Tended(c) /\ ~Drives(Server, c) /\ ~Drives(c, c)
    BY HostNames, <1>1, <1>8 DEF HostInv, Overlaps, Restarting, Drives
  <2>2. \A g \in Groups : owner[g] = c /\ Alive(g) => g = host[c] /\ (ThreadsAlive(g) => workers[c] = g)
    BY HostNames, <2>1 DEF Tended, Held, Drives, Closing, Untold, Told
  <2>3. QED
    BY HostNames, <1>1, <1>8, <2>1, <2>2 DEF Tended, InStage, Held, Alive, ThreadsAlive, Drives,
       Closing, Untold, Told, HostInv, HostTyped
<1>9. ASSUME NEW c \in Controllers, c = current, c \notin excused', c \notin ignored' PROVE Serving(c)'
  <2>1. ~Drives(c, c)
    BY HostNames, <1>1, <1>9 DEF HostInv, Overlaps, Restarting, Drives
  <2>2. QED
    BY HostNames, <1>1, <1>9, <2>1 DEF Serving, Drives, Opening, ServerFree, At, HostInv, HostTyped
<1>10. excused \subseteq excused' /\ ignored \subseteq ignored'
  BY <1>1 DEF Overlaps
<1>11. QED
  BY <1>2, <1>3, <1>4, <1>5, <1>6, <1>7, <1>8, <1>9, <1>10, <1>1, OneTouched

\* A proxy whose stop throws costs the server its controller.
LEMMA HostProxyStopFails == ASSUME HostInv, NEW kind \in {"reload", "stop"}, ProxyStopFails(kind) PROVE HostInv'
<1>1. /\ proc[Server].at = "idle" /\ op = "none" /\ current \in Controllers
      /\ server' \in {"stopped", "failed"} /\ current' = 0
      /\ excused' = excused \cup {current} /\ faults' \in Nat
      /\ UNCHANGED proc
      /\ UNCHANGED <<op, built, stopped, host, workers, recovering, restarts, owner, runner, thread, started,
                     ignored>>
  BY HostNames DEF ProxyStopFails, Fault, ServerFree, At, controllerVars, groupVars, HostInv, HostTyped,
     IdleProcess
<1>2. HostTyped'
  BY HostNames, <1>1, HostAssumption DEF HostInv, HostTyped, Stages, Processes, ThreadStates
<1>3. Owned'
  <2>1. GroupsOwned'
    BY HostNames, <1>1 DEF HostInv, HostTyped, Owned, GroupsOwned
  <2>2. HandsOwned'
    BY HostNames, <1>1 DEF HostInv, HostTyped, Owned, GroupsOwned, HandsOwned
  <2>3. Unmade'
    BY HostNames, <1>1 DEF HostInv, HostTyped, Owned, HandsOwned, Unmade
  <2>4. QED
    BY <2>1, <2>2, <2>3 DEF Owned
<1>4. RecoveriesStep'
  BY HostNames, <1>1 DEF HostInv, HostTyped, RecoveriesStep
<1>5. ServerSteps'
  BY HostNames, <1>1 DEF HostInv, HostTyped, ServerSteps, ServerFree, At
<1>6. InHand'
  BY HostNames, <1>1 DEF HostInv, HostTyped, InHand, IdleProcess
<1>7. ASSUME NEW c \in Controllers, c # current PROVE SameFor(c) /\ StillServing(c)
  <2>1. SameFor(c)
    BY <1>7, HostNames, <1>1 DEF HostInv, HostTyped, SameFor, Drives, Owned, HandsOwned,
       RecoveriesStep, ServerSteps
  <2>2. StillServing(c)
    BY <1>7, HostNames, <1>1 DEF HostInv, HostTyped, StillServing, ServerFree, At, ServerSteps,
       RecoveriesStep
  <2>3. QED
    BY <2>1, <2>2
<1>8. ASSUME NEW c \in Controllers, c = current, c \notin excused' PROVE Tended(c)'
  BY <1>1, <1>8
<1>9. ASSUME NEW c \in Controllers, c = current, c \notin excused', c \notin ignored' PROVE Serving(c)'
  BY <1>1, <1>9
<1>10. excused \subseteq excused' /\ ignored \subseteq ignored'
  BY <1>1
<1>11. QED
  BY <1>2, <1>3, <1>4, <1>5, <1>6, <1>7, <1>8, <1>9, <1>10, <1>1, OneTouched

\* A reload that has closed the old controller makes the next one.
LEMMA HostReload == ASSUME HostInv, Reload PROVE HostInv'
<1>1. /\ proc[Server].at \in Told /\ proc[Server].on <= built /\ built + 1 \in Controllers /\ op # "none"
      /\ current' \in {0, built + 1} /\ built' = built + 1
      /\ stopped' = [stopped EXCEPT ![built + 1] = FALSE]
      /\ proc' = [proc EXCEPT ![Server] = Doing("hook", built + 1, 0, 0)]
      /\ ShutRunner(Server)
      /\ UNCHANGED <<server, op, faults, host, workers, recovering, restarts, owner, thread, started, excused,
                     ignored>>
  BY HostNames DEF Reload, StartNew, StartHook, NewController, ShutRunner, Told, At, HostInv, HostTyped,
     Process, ServerSteps, IdleProcess
<1>2. HostTyped'
  BY HostNames, <1>1, HostAssumption DEF HostInv, HostTyped, Stages, Processes, ThreadStates,
     ShutRunner
<1>3. Owned'
  <2>1. GroupsOwned'
    BY HostNames, <1>1 DEF HostInv, HostTyped, Owned, GroupsOwned, ShutRunner
  <2>2. HandsOwned'
    BY HostNames, <1>1 DEF HostInv, HostTyped, Owned, GroupsOwned, HandsOwned, ShutRunner
  <2>3. Unmade'
    <3>1. ASSUME NEW g \in Groups, owner[g] # 0 PROVE owner[g] <= built + 1
      <4>1. owner[g] \in Nat /\ built \in Nat /\ owner[g] <= built
        BY HostNames, <3>1 DEF HostInv, HostTyped, Owned, Unmade
      <4>2. QED
        BY <4>1
    <3>2. QED
      BY HostNames, <1>1, <3>1 DEF HostInv, HostTyped, Owned, Unmade, ShutRunner, HandsOwned
  <2>4. QED
    BY <2>1, <2>2, <2>3 DEF Owned
<1>4. RecoveriesStep'
  BY HostNames, <1>1 DEF HostInv, HostTyped, RecoveriesStep
<1>5. ServerSteps'
  BY HostNames, <1>1 DEF HostInv, HostTyped, ServerSteps, ServerFree, At
<1>6. InHand'
  BY HostNames, <1>1 DEF HostInv, HostTyped, InHand, IdleProcess
<1>7. ASSUME NEW c \in Controllers, c # proc[Server].on, c # built + 1 PROVE SameFor(c) /\ StillServing(c)
  <2>1. SameFor(c)
    BY <1>7, HostNames, <1>1 DEF HostInv, HostTyped, SameFor, Drives, Owned, HandsOwned,
       RecoveriesStep, ServerSteps, ShutRunner, Told
  <2>2. StillServing(c)
    BY <1>7, HostNames, <1>1 DEF HostInv, HostTyped, StillServing, ServerFree, At, ServerSteps,
       RecoveriesStep
  <2>3. QED
    BY <2>1, <2>2
<1>8. ASSUME NEW c \in Controllers, c \in {proc[Server].on, built + 1}, c \notin excused' PROVE Tended(c)'
  <2>1. CASE c = proc[Server].on
    <3>1. c \notin excused /\ proc[Server].at \notin {"idle", "wait"} /\ c # built + 1
      BY HostNames, <1>1, <1>8, <2>1 DEF Told, HostInv, HostTyped
    <3>2. InStage(Server, c) /\ ~Drives(c, c) /\ Server # c
      BY HostNames, <2>1, <3>1, OneDriver
    <3>3. \A g \in Groups : owner[g] = c => ~Alive(g)'
      BY HostNames, <1>1, <2>1, <3>1, ClosedIsDead
    <3>4. QED
      BY HostNames, <1>1, <3>1, <3>2, <3>3 DEF Tended, InStage, Closing, Drives, HostInv, HostTyped
  <2>2. CASE c = built + 1
    <3>1. host[c] = 0 /\ workers[c] = 0 /\ proc[c].at = "idle"
      BY <2>2, HostNames, <1>1 DEF HostInv, RecoveriesStep, HostTyped
    <3>2. \A g \in Groups : owner[g] # c
      BY <2>2, HostNames, <1>1 DEF HostInv, Owned, Unmade, HostTyped
    <3>3. QED
      BY HostNames, <1>1, <2>2, <3>1, <3>2 DEF Tended, InStage, Drives, Closing, Untold, Told, HostInv,
         HostTyped
  <2>3. QED
    BY <1>8, <2>1, <2>2
<1>9. ASSUME NEW c \in Controllers, c \in {proc[Server].on, built + 1}, c \notin excused', c \notin ignored' PROVE Serving(c)'
  <2>1. CASE c = proc[Server].on
    <3>1. c \notin excused /\ proc[Server].at \notin {"idle", "wait"} /\ c # built + 1
      BY HostNames, <1>1, <1>9, <2>1 DEF Told, HostInv, HostTyped
    <3>2. ~Drives(c, c) /\ Server # c
      BY HostNames, <2>1, <3>1, OneDriver
    <3>3. QED
      BY HostNames, <1>1, <3>1, <3>2 DEF Serving, Drives, ServerFree, At, HostInv, HostTyped
  <2>2. CASE c = built + 1
    <3>1. restarts[c] = 0 /\ proc[c].at = "idle"
      BY <2>2, HostNames, <1>1 DEF HostInv, RecoveriesStep, HostTyped
    <3>2. QED
      BY HostNames, <1>1, <2>2, <3>1 DEF Serving, Drives, ServerFree, At, HostInv, HostTyped
  <2>3. QED
    BY <1>9, <2>1, <2>2
<1>10. excused \subseteq excused' /\ ignored \subseteq ignored'
  BY <1>1
<1>11. QED
  BY <1>2, <1>3, <1>4, <1>5, <1>6, <1>7, <1>8, <1>9, <1>10, <1>1, OneTouched

\* A step of a member of group g that does not bring the group to life.
Weakens(g) ==
    /\ runner' \in [Groups -> {"none", "starting", "up", "gone"}]
    /\ thread' \in [Groups -> [Threads -> ThreadStates]]
    /\ \A o \in Groups : o # g => runner'[o] = runner[o] /\ thread'[o] = thread[o]
    /\ Alive(g)' => Alive(g)
    /\ ThreadsAlive(g)' => ThreadsAlive(g)
    /\ \A t \in Threads : thread[g][t] = "none" => thread'[g][t] = "none"

\* A step of a member that nobody hears of.
LEMMA HostQuiet == ASSUME HostInv, NEW g \in Groups, NEW k \in Controllers, owner[g] = k, Weakens(g), faults' \in Nat,
           \A t \in Threads : thread[g][t] = "ready" => thread'[g][t] = "ready",
           UNCHANGED <<server, recovering, restarts, proc, ignored>>,
           UNCHANGED <<op, current, built, stopped, host, workers, owner, started, excused>> PROVE HostInv'
<1>1. /\ owner[g] = k /\ k <= built
      /\ runner' \in [Groups -> {"none", "starting", "up", "gone"}]
      /\ thread' \in [Groups -> [Threads -> ThreadStates]]
      /\ \A o \in Groups : o # g => runner'[o] = runner[o] /\ thread'[o] = thread[o]
      /\ faults' \in Nat
      /\ Weakens(g) /\ UNCHANGED <<server, recovering, restarts, proc, ignored>>
      /\ UNCHANGED <<op, current, built, stopped, host, workers, owner, started, excused>>
  BY HostNames DEF Weakens, HostInv, HostTyped, Owned, Unmade, IdleProcess
<1>2. HostTyped'
  BY HostNames, <1>1, HostAssumption DEF HostInv, HostTyped, Stages, Processes, ThreadStates
<1>3. Owned'
  <2>1. GroupsOwned'
    BY HostNames, <1>1 DEF HostInv, HostTyped, Owned, GroupsOwned
  <2>2. HandsOwned'
    BY HostNames, <1>1 DEF HostInv, HostTyped, Owned, GroupsOwned, HandsOwned
  <2>3. Unmade'
    BY HostNames, <1>1 DEF HostInv, HostTyped, Owned, HandsOwned, Unmade
  <2>4. QED
    BY <2>1, <2>2, <2>3 DEF Owned
<1>4. RecoveriesStep'
  BY HostNames, <1>1 DEF HostInv, HostTyped, RecoveriesStep
<1>5. ServerSteps'
  BY HostNames, <1>1 DEF HostInv, HostTyped, ServerSteps, ServerFree, At
<1>6. InHand'
  BY HostNames, <1>1 DEF HostInv, HostTyped, InHand, IdleProcess
<1>7. ASSUME NEW c \in Controllers, c # k PROVE SameFor(c) /\ StillServing(c)
  <2>1. SameFor(c)
    BY <1>7, HostNames, <1>1 DEF HostInv, HostTyped, SameFor, Drives, Owned, HandsOwned,
       RecoveriesStep, ServerSteps
  <2>2. StillServing(c)
    BY <1>7, HostNames, <1>1 DEF HostInv, HostTyped, StillServing, ServerFree, At, ServerSteps,
       RecoveriesStep
  <2>3. QED
    BY <2>1, <2>2
<1>8. ASSUME NEW c \in Controllers, c = k, c \notin excused' PROVE Tended(c)'
  <2>1. Tended(c)
    BY <1>1, <1>8 DEF HostInv
  <2>2. \A p \in {Server, c} : proc'[p] = proc[p] \/ (~(proc[p].at \notin {"idle", "wait"}) /\ ~(proc'[p].at \notin {"idle", "wait"}))
    BY HostNames, <1>1, <1>8 DEF Doing, HostInv, HostTyped
  <2>3. \A p \in {Server, c} : Drives(p, c)' => Drives(p, c) /\ proc'[p] = proc[p]
    BY <2>2 DEF Drives
  <2>4. \A p \in {Server, c} : Drives(p, c) => Drives(p, c)'
    BY <2>2 DEF Drives
  <2>5. ASSUME NEW p \in {Server, c}, Drives(p, c)' PROVE InStage(p, c)'
    <3>1. InStage(p, c) /\ proc'[p] = proc[p]
      BY <2>1, <2>3, <2>5 DEF Tended
    <3>2. proc[p].at = "runner" => \A t \in Threads : thread'[proc[p].h][t] = "none"
      <4>1. ASSUME proc[p].at = "runner" PROVE proc[p].h \in Groups
        BY HostNames, <4>1 DEF HostInv, InHand, HostTyped
      <4>2. QED
        BY <1>1, <3>1, <4>1 DEF InStage, Weakens
    <3>3. QED
      BY <1>1, <3>1, <3>2 DEF InStage
  <2>6. ASSUME NEW o \in Groups, owner[o] = c, Alive(o)' PROVE Held(o, c)'
    <3>1. Alive(o) /\ (ThreadsAlive(o)' => ThreadsAlive(o))
      BY <1>1, <2>6 DEF Weakens, Alive, ThreadsAlive
    <3>2. Held(o, c)
      BY <2>1, <2>6, <3>1 DEF Tended
    <3>3. \A p \in {Server, c} : proc[p].at \in Closing => proc'[p] = proc[p]
      BY <2>2 DEF Closing, Untold, Told
    <3>4. QED
      BY <1>1, <3>1, <3>2, <3>3 DEF Held
  <2>7. QED
    BY <1>1, <2>1, <2>3, <2>4, <2>5, <2>6 DEF Tended
<1>9. ASSUME NEW c \in Controllers, c = k, c \notin excused', c \notin ignored' PROVE Serving(c)'
  <2>1. Serving(c)
    BY <1>1, <1>9 DEF HostInv
  <2>2. \A o \in Groups, t \in Threads : thread[o][t] = "ready" => thread'[o][t] = "ready"
    BY <1>1
  <2>3. \A o \in Groups : AllReady(o) => AllReady(o)'
    BY <1>1, <2>2 DEF AllReady, HostInv, HostTyped
  <2>4. \A p \in {Server, c} : proc[p].at \in {"threads", "telling"} => proc[p].w \in Groups
    BY HostNames DEF HostInv, InHand, HostTyped
  <2>5. workers[c] # 0 => workers[c] \in Groups
    BY DEF HostInv, HostTyped
  <2>6. QED
    BY <1>1, <2>1, <2>2, <2>3, <2>4, <2>5 DEF Serving, Drives, ServerFree, At
<1>10. excused \subseteq excused' /\ ignored \subseteq ignored'
  BY <1>1
<1>11. QED
  BY <1>2, <1>3, <1>4, <1>5, <1>6, <1>7, <1>8, <1>9, <1>10, <1>1, OneTouched

\* A failure during a recovery is dropped.
LEMMA HostFailureIgnored == ASSUME HostInv, NEW g \in Groups, NEW k \in Controllers, owner[g] = k, Weakens(g), faults' \in Nat,
           k \in recovering, ignored' = ignored \cup {k},
           UNCHANGED <<server, recovering, restarts, proc>>,
           UNCHANGED <<op, current, built, stopped, host, workers, owner, started, excused>> PROVE HostInv'
<1>1. /\ owner[g] = k /\ k <= built
      /\ runner' \in [Groups -> {"none", "starting", "up", "gone"}]
      /\ thread' \in [Groups -> [Threads -> ThreadStates]]
      /\ \A o \in Groups : o # g => runner'[o] = runner[o] /\ thread'[o] = thread[o]
      /\ faults' \in Nat
      /\ Weakens(g) /\ ignored' = ignored \cup {k} /\ UNCHANGED <<server, recovering, restarts, proc>>
      /\ UNCHANGED <<op, current, built, stopped, host, workers, owner, started, excused>>
  BY HostNames DEF Weakens, HostInv, HostTyped, Owned, Unmade, IdleProcess
<1>2. HostTyped'
  BY HostNames, <1>1, HostAssumption DEF HostInv, HostTyped, Stages, Processes, ThreadStates
<1>3. Owned'
  <2>1. GroupsOwned'
    BY HostNames, <1>1 DEF HostInv, HostTyped, Owned, GroupsOwned
  <2>2. HandsOwned'
    BY HostNames, <1>1 DEF HostInv, HostTyped, Owned, GroupsOwned, HandsOwned
  <2>3. Unmade'
    BY HostNames, <1>1 DEF HostInv, HostTyped, Owned, HandsOwned, Unmade
  <2>4. QED
    BY <2>1, <2>2, <2>3 DEF Owned
<1>4. RecoveriesStep'
  BY HostNames, <1>1 DEF HostInv, HostTyped, RecoveriesStep
<1>5. ServerSteps'
  BY HostNames, <1>1 DEF HostInv, HostTyped, ServerSteps, ServerFree, At
<1>6. InHand'
  BY HostNames, <1>1 DEF HostInv, HostTyped, InHand, IdleProcess
<1>7. ASSUME NEW c \in Controllers, c # k PROVE SameFor(c) /\ StillServing(c)
  <2>1. SameFor(c)
    BY <1>7, HostNames, <1>1 DEF HostInv, HostTyped, SameFor, Drives, Owned, HandsOwned,
       RecoveriesStep, ServerSteps
  <2>2. StillServing(c)
    BY <1>7, HostNames, <1>1 DEF HostInv, HostTyped, StillServing, ServerFree, At, ServerSteps,
       RecoveriesStep
  <2>3. QED
    BY <2>1, <2>2
<1>8. ASSUME NEW c \in Controllers, c = k, c \notin excused' PROVE Tended(c)'
  <2>1. Tended(c)
    BY <1>1, <1>8 DEF HostInv
  <2>2. \A p \in {Server, c} : proc'[p] = proc[p] \/ (~(proc[p].at \notin {"idle", "wait"}) /\ ~(proc'[p].at \notin {"idle", "wait"}))
    BY HostNames, <1>1, <1>8 DEF Doing, HostInv, HostTyped
  <2>3. \A p \in {Server, c} : Drives(p, c)' => Drives(p, c) /\ proc'[p] = proc[p]
    BY <2>2 DEF Drives
  <2>4. \A p \in {Server, c} : Drives(p, c) => Drives(p, c)'
    BY <2>2 DEF Drives
  <2>5. ASSUME NEW p \in {Server, c}, Drives(p, c)' PROVE InStage(p, c)'
    <3>1. InStage(p, c) /\ proc'[p] = proc[p]
      BY <2>1, <2>3, <2>5 DEF Tended
    <3>2. proc[p].at = "runner" => \A t \in Threads : thread'[proc[p].h][t] = "none"
      <4>1. ASSUME proc[p].at = "runner" PROVE proc[p].h \in Groups
        BY HostNames, <4>1 DEF HostInv, InHand, HostTyped
      <4>2. QED
        BY <1>1, <3>1, <4>1 DEF InStage, Weakens
    <3>3. QED
      BY <1>1, <3>1, <3>2 DEF InStage
  <2>6. ASSUME NEW o \in Groups, owner[o] = c, Alive(o)' PROVE Held(o, c)'
    <3>1. Alive(o) /\ (ThreadsAlive(o)' => ThreadsAlive(o))
      BY <1>1, <2>6 DEF Weakens, Alive, ThreadsAlive
    <3>2. Held(o, c)
      BY <2>1, <2>6, <3>1 DEF Tended
    <3>3. \A p \in {Server, c} : proc[p].at \in Closing => proc'[p] = proc[p]
      BY <2>2 DEF Closing, Untold, Told
    <3>4. QED
      BY <1>1, <3>1, <3>2, <3>3 DEF Held
  <2>7. QED
    BY <1>1, <2>1, <2>3, <2>4, <2>5, <2>6 DEF Tended
<1>9. ASSUME NEW c \in Controllers, c = k, c \notin excused', c \notin ignored' PROVE Serving(c)'
  BY <1>1, <1>9
<1>10. excused \subseteq excused' /\ ignored \subseteq ignored'
  BY <1>1
<1>11. QED
  BY <1>2, <1>3, <1>4, <1>5, <1>6, <1>7, <1>8, <1>9, <1>10, <1>1, OneTouched

\* A failure the policy has a restart for begins a recovery.
LEMMA HostFailureRetried == ASSUME HostInv, NEW g \in Groups, NEW k \in Controllers, owner[g] = k, Weakens(g), faults' \in Nat,
           k \notin recovering, restarts[k] < Attempts, restarts' = [restarts EXCEPT ![k] = restarts[k] + 1],
           proc' = [proc EXCEPT ![k] = Doing("wait", k, 0, 0)], recovering' = recovering \cup {k},
           UNCHANGED <<server, ignored>>,
           UNCHANGED <<op, current, built, stopped, host, workers, owner, started, excused>> PROVE HostInv'
<1>1. /\ owner[g] = k /\ k <= built
      /\ runner' \in [Groups -> {"none", "starting", "up", "gone"}]
      /\ thread' \in [Groups -> [Threads -> ThreadStates]]
      /\ \A o \in Groups : o # g => runner'[o] = runner[o] /\ thread'[o] = thread[o]
      /\ faults' \in Nat
      /\ Weakens(g) /\ proc[k].at = "idle" /\ recovering' = recovering \cup {k}
      /\ restarts[k] < Attempts /\ restarts' = [restarts EXCEPT ![k] = restarts[k] + 1]
      /\ proc' = [proc EXCEPT ![k] = Doing("wait", k, 0, 0)] /\ UNCHANGED <<server, ignored>>
      /\ UNCHANGED <<op, current, built, stopped, host, workers, owner, started, excused>>
  BY HostNames DEF Weakens, HostInv, HostTyped, Owned, Unmade, RecoveriesStep, IdleProcess
<1>2. HostTyped'
  BY HostNames, <1>1, HostAssumption DEF HostInv, HostTyped, Stages, Processes, ThreadStates
<1>3. Owned'
  <2>1. GroupsOwned'
    BY HostNames, <1>1 DEF HostInv, HostTyped, Owned, GroupsOwned
  <2>2. HandsOwned'
    BY HostNames, <1>1 DEF HostInv, HostTyped, Owned, GroupsOwned, HandsOwned
  <2>3. Unmade'
    <3>1. ASSUME NEW o \in Groups, owner[o] = 0 PROVE runner'[o] = runner[o] /\ thread'[o] = thread[o]
      BY HostNames, <1>1, <3>1
    <3>2. UNCHANGED <<owner, started, built>>
      BY <1>1
    <3>3. QED
      BY <3>1, <3>2 DEF HostInv, Owned, Unmade
  <2>4. QED
    BY <2>1, <2>2, <2>3 DEF Owned
<1>4. RecoveriesStep'
  BY HostNames, <1>1 DEF HostInv, HostTyped, RecoveriesStep
<1>5. ServerSteps'
  BY HostNames, <1>1 DEF HostInv, HostTyped, ServerSteps, ServerFree, At
<1>6. InHand'
  BY HostNames, <1>1 DEF HostInv, HostTyped, InHand, IdleProcess
<1>7. ASSUME NEW c \in Controllers, c # k PROVE SameFor(c) /\ StillServing(c)
  <2>1. SameFor(c)
    BY <1>7, HostNames, <1>1 DEF HostInv, HostTyped, SameFor, Drives, Owned, HandsOwned,
       RecoveriesStep, ServerSteps
  <2>2. StillServing(c)
    BY <1>7, HostNames, <1>1 DEF HostInv, HostTyped, StillServing, ServerFree, At, ServerSteps,
       RecoveriesStep
  <2>3. QED
    BY <2>1, <2>2
<1>8. ASSUME NEW c \in Controllers, c = k, c \notin excused' PROVE Tended(c)'
  <2>1. Tended(c)
    BY <1>1, <1>8 DEF HostInv
  <2>2. \A p \in {Server, c} : proc'[p] = proc[p] \/ (~(proc[p].at \notin {"idle", "wait"}) /\ ~(proc'[p].at \notin {"idle", "wait"}))
    BY HostNames, <1>1, <1>8 DEF Doing, HostInv, HostTyped
  <2>3. \A p \in {Server, c} : Drives(p, c)' => Drives(p, c) /\ proc'[p] = proc[p]
    BY <2>2 DEF Drives
  <2>4. \A p \in {Server, c} : Drives(p, c) => Drives(p, c)'
    BY <2>2 DEF Drives
  <2>5. ASSUME NEW p \in {Server, c}, Drives(p, c)' PROVE InStage(p, c)'
    <3>1. InStage(p, c) /\ proc'[p] = proc[p]
      BY <2>1, <2>3, <2>5 DEF Tended
    <3>2. proc[p].at = "runner" => \A t \in Threads : thread'[proc[p].h][t] = "none"
      <4>1. ASSUME proc[p].at = "runner" PROVE proc[p].h \in Groups
        BY HostNames, <4>1 DEF HostInv, InHand, HostTyped
      <4>2. QED
        BY <1>1, <3>1, <4>1 DEF InStage, Weakens
    <3>3. QED
      BY <1>1, <3>1, <3>2 DEF InStage
  <2>6. ASSUME NEW o \in Groups, owner[o] = c, Alive(o)' PROVE Held(o, c)'
    <3>1. Alive(o) /\ (ThreadsAlive(o)' => ThreadsAlive(o))
      BY <1>1, <2>6 DEF Weakens, Alive, ThreadsAlive
    <3>2. Held(o, c)
      BY <2>1, <2>6, <3>1 DEF Tended
    <3>3. \A p \in {Server, c} : proc[p].at \in Closing => proc'[p] = proc[p]
      BY <2>2 DEF Closing, Untold, Told
    <3>4. QED
      BY <1>1, <3>1, <3>2, <3>3 DEF Held
  <2>7. QED
    BY <1>1, <2>1, <2>3, <2>4, <2>5, <2>6 DEF Tended
<1>9. ASSUME NEW c \in Controllers, c = k, c \notin excused', c \notin ignored' PROVE Serving(c)'
  BY HostNames, <1>1, <1>9 DEF Serving, Drives, HostInv, HostTyped
<1>10. excused \subseteq excused' /\ ignored \subseteq ignored'
  BY <1>1
<1>11. QED
  BY <1>2, <1>3, <1>4, <1>5, <1>6, <1>7, <1>8, <1>9, <1>10, <1>1, OneTouched

\* A failure without a restart left is reported.
LEMMA HostFailureReported == ASSUME HostInv, NEW g \in Groups, NEW k \in Controllers, owner[g] = k, Weakens(g), faults' \in Nat,
           k \notin recovering, restarts[k] = Attempts, server' = "failed",
           UNCHANGED <<recovering, restarts, proc, ignored>>,
           UNCHANGED <<op, current, built, stopped, host, workers, owner, started, excused>> PROVE HostInv'
<1>1. /\ owner[g] = k /\ k <= built
      /\ runner' \in [Groups -> {"none", "starting", "up", "gone"}]
      /\ thread' \in [Groups -> [Threads -> ThreadStates]]
      /\ \A o \in Groups : o # g => runner'[o] = runner[o] /\ thread'[o] = thread[o]
      /\ faults' \in Nat
      /\ Weakens(g) /\ k \notin recovering /\ restarts[k] = Attempts /\ Attempts # 0
      /\ server' = "failed" /\ UNCHANGED <<recovering, restarts, proc, ignored>>
      /\ UNCHANGED <<op, current, built, stopped, host, workers, owner, started, excused>>
  BY HostNames, HostAssumption DEF Weakens, HostInv, HostTyped, Owned, Unmade, IdleProcess
<1>2. HostTyped'
  BY HostNames, <1>1, HostAssumption DEF HostInv, HostTyped, Stages, Processes, ThreadStates
<1>3. Owned'
  <2>1. GroupsOwned'
    BY HostNames, <1>1 DEF HostInv, HostTyped, Owned, GroupsOwned
  <2>2. HandsOwned'
    BY HostNames, <1>1 DEF HostInv, HostTyped, Owned, GroupsOwned, HandsOwned
  <2>3. Unmade'
    BY HostNames, <1>1 DEF HostInv, HostTyped, Owned, HandsOwned, Unmade
  <2>4. QED
    BY <2>1, <2>2, <2>3 DEF Owned
<1>4. RecoveriesStep'
  BY HostNames, <1>1 DEF HostInv, HostTyped, RecoveriesStep
<1>5. ServerSteps'
  BY HostNames, <1>1 DEF HostInv, HostTyped, ServerSteps, ServerFree, At
<1>6. InHand'
  BY HostNames, <1>1 DEF HostInv, HostTyped, InHand, IdleProcess
<1>7. ASSUME NEW c \in Controllers, c # k PROVE SameFor(c) /\ StillServing(c)
  <2>1. SameFor(c)
    BY <1>7, HostNames, <1>1 DEF HostInv, HostTyped, SameFor, Drives, Owned, HandsOwned,
       RecoveriesStep, ServerSteps
  <2>2. StillServing(c)
    BY <1>7, HostNames, <1>1 DEF HostInv, HostTyped, StillServing, ServerFree, At, ServerSteps,
       RecoveriesStep
  <2>3. QED
    BY <2>1, <2>2
<1>8. ASSUME NEW c \in Controllers, c = k, c \notin excused' PROVE Tended(c)'
  <2>1. Tended(c)
    BY <1>1, <1>8 DEF HostInv
  <2>2. \A p \in {Server, c} : proc'[p] = proc[p] \/ (~(proc[p].at \notin {"idle", "wait"}) /\ ~(proc'[p].at \notin {"idle", "wait"}))
    BY HostNames, <1>1, <1>8 DEF Doing, HostInv, HostTyped
  <2>3. \A p \in {Server, c} : Drives(p, c)' => Drives(p, c) /\ proc'[p] = proc[p]
    BY <2>2 DEF Drives
  <2>4. \A p \in {Server, c} : Drives(p, c) => Drives(p, c)'
    BY <2>2 DEF Drives
  <2>5. ASSUME NEW p \in {Server, c}, Drives(p, c)' PROVE InStage(p, c)'
    <3>1. InStage(p, c) /\ proc'[p] = proc[p]
      BY <2>1, <2>3, <2>5 DEF Tended
    <3>2. proc[p].at = "runner" => \A t \in Threads : thread'[proc[p].h][t] = "none"
      <4>1. ASSUME proc[p].at = "runner" PROVE proc[p].h \in Groups
        BY HostNames, <4>1 DEF HostInv, InHand, HostTyped
      <4>2. QED
        BY <1>1, <3>1, <4>1 DEF InStage, Weakens
    <3>3. QED
      BY <1>1, <3>1, <3>2 DEF InStage
  <2>6. ASSUME NEW o \in Groups, owner[o] = c, Alive(o)' PROVE Held(o, c)'
    <3>1. Alive(o) /\ (ThreadsAlive(o)' => ThreadsAlive(o))
      BY <1>1, <2>6 DEF Weakens, Alive, ThreadsAlive
    <3>2. Held(o, c)
      BY <2>1, <2>6, <3>1 DEF Tended
    <3>3. \A p \in {Server, c} : proc[p].at \in Closing => proc'[p] = proc[p]
      BY <2>2 DEF Closing, Untold, Told
    <3>4. QED
      BY <1>1, <3>1, <3>2, <3>3 DEF Held
  <2>7. QED
    BY <1>1, <2>1, <2>3, <2>4, <2>5, <2>6 DEF Tended
<1>9. ASSUME NEW c \in Controllers, c = k, c \notin excused', c \notin ignored' PROVE Serving(c)'
  <2>1. Serving(c) /\ restarts[c] # 0
    BY <1>1, <1>9 DEF HostInv
  <2>2. ~(Drives(Server, c) /\ proc[Server].at \in Opening)
    BY <1>1, <1>9, <2>1 DEF Serving
  <2>3. ~Drives(c, c)
    BY HostNames, <1>1, <1>9 DEF HostInv, RecoveriesStep, Drives
  <2>4. QED
    BY <1>1, <2>2, <2>3 DEF Serving, Drives, Opening
<1>10. excused \subseteq excused' /\ ignored \subseteq ignored'
  BY <1>1
<1>11. QED
  BY <1>2, <1>3, <1>4, <1>5, <1>6, <1>7, <1>8, <1>9, <1>10, <1>1, OneTouched

\* handleFailure ignores, retries or reports.
LEMMA HostFailure ==
    ASSUME HostInv, NEW g \in Groups, owner[g] \in Controllers, Weakens(g), HandleFailure(owner[g]), faults' \in Nat,
           UNCHANGED <<op, current, built, stopped, host, workers, owner, started, excused>>
    PROVE  HostInv'
<1>1. PICK k \in Controllers : owner[g] = k
  OBVIOUS
<1>2. HandleFailure(k)
  BY <1>1
<1>3. CASE k \in recovering
  BY <1>1, <1>2, <1>3, HostFailureIgnored DEF HandleFailure
<1>4. CASE k \notin recovering /\ restarts[k] < Attempts
  BY <1>1, <1>2, <1>4, HostFailureRetried DEF HandleFailure, RecoverNext
<1>5. CASE k \notin recovering /\ ~(restarts[k] < Attempts)
  <2>1. restarts[k] = Attempts
    BY <1>5, HostAssumption DEF HostInv, HostTyped
  <2>2. proc[k] = IdleProcess
    BY HostNames, <1>5 DEF HostInv, RecoveriesStep, InHand
  <2>3. UNCHANGED <<proc, recovering, restarts, ignored>> /\ server' = "failed"
    <3>1. proc' = [proc EXCEPT ![k] = IdleProcess] /\ recovering' = recovering \ {k} /\ UNCHANGED <<restarts, ignored>> /\ server' = "failed"
      BY <1>2, <1>5 DEF HandleFailure, RecoverNext
    <3>2. QED
      BY HostNames, <1>5, <2>2, <3>1 DEF HostInv, HostTyped
  <2>4. QED
    BY <1>1, <1>5, <2>1, <2>3, HostFailureReported
<1>6. QED
  BY <1>3, <1>4, <1>5

\* A group with a member was made by a controller.
LEMMA MembersOwned ==
    ASSUME HostInv, NEW g \in Groups, runner[g] # "none" \/ \E t \in Threads : thread[g][t] # "none"
    PROVE  owner[g] \in Controllers
BY DEF HostInv, HostTyped, Owned, Unmade

\* A runner that comes up changes nothing else.
LEMMA HostRunnerReady == ASSUME HostInv, NEW g \in Groups, RunnerReady(g) PROVE HostInv'
<1>1. /\ runner[g] = "starting" /\ runner' = [runner EXCEPT ![g] = "up"]
      /\ UNCHANGED <<server, op, current, built, faults, stopped, host, workers, recovering, restarts, proc,
                     owner,
                     thread, started, excused, ignored>>
  BY DEF RunnerReady, controllerVars
<1>2. Weakens(g) /\ faults' \in Nat
  BY <1>1 DEF Weakens, Alive, ThreadsAlive, HostInv, HostTyped
<1>3. PICK k \in Controllers : owner[g] = k
  BY <1>1, MembersOwned
<1>4. QED
  BY <1>1, <1>2, <1>3, HostQuiet

\* A thread that exits when told is no news.
LEMMA HostThreadExits == ASSUME HostInv, NEW g \in Groups, NEW t \in Threads, ThreadExits(g, t) PROVE HostInv'
<1>1. /\ thread[g][t] = "stopping" /\ thread' = [thread EXCEPT ![g][t] = "stopped"]
      /\ UNCHANGED <<server, op, current, built, faults, stopped, host, workers, recovering, restarts, proc,
                     owner,
                     runner, started, excused, ignored>>
  BY DEF ThreadExits, controllerVars
<1>2. Weakens(g) /\ faults' \in Nat
  BY <1>1 DEF Weakens, Alive, ThreadsAlive, ThreadStates, HostInv, HostTyped
<1>3. \A s \in Threads : thread[g][s] = "ready" => thread'[g][s] = "ready"
  BY <1>1 DEF HostInv, HostTyped
<1>4. PICK k \in Controllers : owner[g] = k
  BY <1>1, MembersOwned
<1>5. QED
  BY <1>1, <1>2, <1>3, <1>4, HostQuiet

\* The controller hears of a runner that fails.
LEMMA HostRunnerFails == ASSUME HostInv, NEW g \in Groups, RunnerFails(g) PROVE HostInv'
<1>1. /\ runner[g] \in {"starting", "up"} /\ runner' = [runner EXCEPT ![g] = "gone"]
      /\ HandleFailure(owner[g]) /\ faults' = faults + 1
      /\ UNCHANGED <<op, current, built, stopped, host, workers, owner, thread, started, excused>>
  BY DEF RunnerFails, Fault
<1>2. Weakens(g) /\ faults' \in Nat
  BY <1>1 DEF Weakens, Alive, ThreadsAlive, HostInv, HostTyped
<1>3. owner[g] \in Controllers
  BY <1>1, MembersOwned
<1>4. QED
  BY <1>1, <1>2, <1>3, HostFailure

\* The controller hears of a thread that fails once it was ready.
LEMMA HostThreadFails == ASSUME HostInv, NEW g \in Groups, NEW t \in Threads, ThreadFails(g, t) PROVE HostInv'
<1>1. /\ thread[g][t] \in {"starting", "ready", "stopping"} /\ thread' = [thread EXCEPT ![g][t] = "failed"]
      /\ faults' = faults + 1
      /\ UNCHANGED <<op, current, built, stopped, host, workers, owner, runner, started, excused>>
  BY DEF ThreadFails, Fault
<1>2. Weakens(g) /\ faults' \in Nat
  BY <1>1 DEF Weakens, Alive, ThreadsAlive, ThreadStates, HostInv, HostTyped
<1>3. owner[g] \in Controllers
  BY <1>1, MembersOwned
<1>4. CASE thread[g][t] = "starting"
  <2>1. UNCHANGED <<restarts, proc, recovering, server, ignored>>
    BY <1>4 DEF ThreadFails
  <2>2. \A s \in Threads : thread[g][s] = "ready" => thread'[g][s] = "ready"
    BY <1>1, <1>4 DEF HostInv, HostTyped
  <2>3. PICK k \in Controllers : owner[g] = k
    BY <1>3
  <2>4. QED
    BY <1>1, <1>2, <2>1, <2>2, <2>3, HostQuiet
<1>5. CASE thread[g][t] # "starting"
  <2>1. HandleFailure(owner[g])
    BY <1>5 DEF ThreadFails
  <2>2. QED
    BY <1>1, <1>2, <1>3, <2>1, HostFailure
<1>6. QED
  BY <1>4, <1>5

\* A thread that is ready has started.
LEMMA HostThreadReady == ASSUME HostInv, NEW g \in Groups, NEW t \in Threads, ThreadReady(g, t) PROVE HostInv'
<1>1. /\ owner[g] \in Controllers /\ thread[g][t] = "starting"
      /\ thread' = [thread EXCEPT ![g][t] = "ready"]
      /\ started' = [started EXCEPT ![g] = started[g] \cup {t}]
      /\ UNCHANGED proc
      /\ UNCHANGED <<server, op, current, built, faults, stopped, host, workers, recovering, restarts, owner,
                     runner, excused, ignored>>
  <2>1. owner[g] \in Controllers
    BY MembersOwned DEF ThreadReady
  <2>2. QED
    BY <2>1 DEF ThreadReady, controllerVars
<1>2. HostTyped'
  BY HostNames, <1>1, HostAssumption DEF HostInv, HostTyped, Stages, Processes, ThreadStates
<1>3. Owned'
  <2>1. GroupsOwned'
    BY HostNames, <1>1 DEF HostInv, HostTyped, Owned, GroupsOwned
  <2>2. HandsOwned'
    BY HostNames, <1>1 DEF HostInv, HostTyped, Owned, GroupsOwned, HandsOwned
  <2>3. Unmade'
    BY HostNames, <1>1 DEF HostInv, HostTyped, Owned, HandsOwned, Unmade
  <2>4. QED
    BY <2>1, <2>2, <2>3 DEF Owned
<1>4. RecoveriesStep'
  BY HostNames, <1>1 DEF HostInv, HostTyped, RecoveriesStep
<1>5. ServerSteps'
  BY HostNames, <1>1 DEF HostInv, HostTyped, ServerSteps, ServerFree, At
<1>6. InHand'
  BY HostNames, <1>1 DEF HostInv, HostTyped, InHand, IdleProcess
<1>7. ASSUME NEW c \in Controllers, c # owner[g] PROVE SameFor(c) /\ StillServing(c)
  <2>1. SameFor(c)
    BY <1>7, HostNames, <1>1 DEF HostInv, HostTyped, SameFor, Drives, Owned, HandsOwned,
       RecoveriesStep, ServerSteps
  <2>2. StillServing(c)
    BY <1>7, HostNames, <1>1 DEF HostInv, HostTyped, StillServing, ServerFree, At, ServerSteps,
       RecoveriesStep
  <2>3. QED
    BY <2>1, <2>2
<1>8. ASSUME NEW c \in Controllers, c = owner[g], c \notin excused' PROVE Tended(c)'
  <2>1. Tended(c)
    BY <1>1, <1>8 DEF HostInv
  <2>2. \A p \in Processes : proc[p].at = "runner" /\ proc[p].h = g => \E s \in Threads : thread[proc[p].h][s] # "none"
    BY <1>1
  <2>3. ASSUME NEW p \in {Server, c}, Drives(p, c) PROVE InStage(p, c)'
    <3>1. InStage(p, c)
      BY <2>1, <2>3 DEF Tended
    <3>2. proc[p].at = "runner" => proc[p].h # g
      BY <1>1, <3>1 DEF InStage
    <3>3. proc[p].at = "runner" => proc[p].h \in Groups
      BY HostNames DEF HostInv, InHand, HostTyped
    <3>4. QED
      BY <1>1, <3>1, <3>2, <3>3 DEF InStage, HostInv, HostTyped
  <2>4. \A o \in Groups : (ThreadsAlive(o)' <=> ThreadsAlive(o)) /\ (Alive(o)' <=> Alive(o))
    BY <1>1 DEF ThreadsAlive, Alive, HostInv, HostTyped
  <2>5. QED
    BY <1>1, <2>1, <2>3, <2>4 DEF Tended, Held, Drives
<1>9. ASSUME NEW c \in Controllers, c = owner[g], c \notin excused', c \notin ignored' PROVE Serving(c)'
  <2>1. Serving(c)
    BY <1>1, <1>9 DEF HostInv
  <2>2. \A o \in Groups, s \in Threads : thread[o][s] = "ready" => thread'[o][s] = "ready"
    BY <1>1 DEF HostInv, HostTyped
  <2>3. \A o \in Groups : AllReady(o) => AllReady(o)'
    BY <1>1, <2>2 DEF AllReady, HostInv, HostTyped
  <2>4. \A p \in {Server, c} : proc[p].at \in {"threads", "telling"} => proc[p].w \in Groups
    BY HostNames DEF HostInv, InHand, HostTyped
  <2>5. workers[c] # 0 => workers[c] \in Groups
    BY DEF HostInv, HostTyped
  <2>6. QED
    BY <1>1, <2>1, <2>2, <2>3, <2>4, <2>5 DEF Serving, Drives, ServerFree, At
<1>10. excused \subseteq excused' /\ ignored \subseteq ignored'
  BY <1>1
<1>11. QED
  BY <1>2, <1>3, <1>4, <1>5, <1>6, <1>7, <1>8, <1>9, <1>10, <1>1, OneTouched

\* The invariant holds at first.
LEMMA HostBegins == HostInit => HostInv
<1> SUFFICES ASSUME HostInit PROVE HostInv
  OBVIOUS
<1>1. HostTyped
  BY HostNames, HostAssumption DEF HostInit, HostTyped, IdleProcess, Stages, ThreadStates
<1>2. \A p \in Processes : proc[p] = IdleProcess /\ proc[p].at = "idle" /\ proc[p].on = 0 /\ proc[p].h = 0 /\ proc[p].w = 0
  BY DEF HostInit, IdleProcess
<1>3. Owned
  BY <1>2 DEF HostInit, Owned, GroupsOwned, HandsOwned, Unmade
<1>4. RecoveriesStep /\ ServerSteps /\ InHand
  BY HostNames, <1>2 DEF HostInit, RecoveriesStep, ServerSteps, InHand, ServerFree, At
<1>5. \A c \in Controllers : Tended(c) /\ Serving(c)
  BY HostNames, <1>2 DEF HostInit, Tended, Serving, Drives, Alive, ServerFree
<1>6. QED
  BY <1>1, <1>3, <1>4, <1>5 DEF HostInv

\* And every step keeps it.
LEMMA HostSteps == HostInv /\ [HostNext]_hostVars => HostInv'
<1> SUFFICES ASSUME HostInv, [HostNext]_hostVars PROVE HostInv'
  OBVIOUS
<1>1. CASE Start \/ Reload \/ Stop \/ BringUpEnds \/ CleanUp \/ BringUpFails
  BY <1>1, HostStart, HostReload, HostStop, HostBringUpEnds, HostCleanUp, HostBringUpFails
<1>2. ASSUME NEW kind \in {"reload", "reloadRuntime", "stop"}, Begin(kind) PROVE HostInv'
  BY <1>2, HostBegin, HostBeginEmpty
<1>3. ASSUME NEW kind \in {"reload", "stop"}, ProxyStopFails(kind) PROVE HostInv'
  BY <1>3, HostProxyStopFails
<1>4. ASSUME NEW p \in Processes,
             StopThreads(p) \/ StartRunner(p) \/ StartThreads(p) \/ ThreadsStarted(p) \/ StartFails(p)
      PROVE  HostInv'
  BY <1>4, HostStopThreads, HostStartRunner, HostStartThreads, HostThreadsStarted, HostStartFails
<1>5. ASSUME NEW c \in Controllers, WaitEnds(c) \/ RecoveryStarts(c) \/ RecoveryFails(c) \/ RecoveryEnds(c)
      PROVE  HostInv'
  BY <1>5, HostWaitGivesUp, HostWaitRestarts, HostRecoveryStarts, HostRecoveryFails, HostRecoveryEnds
<1>6. ASSUME NEW g \in Groups, RunnerReady(g) \/ RunnerFails(g) PROVE HostInv'
  BY <1>6, HostRunnerReady, HostRunnerFails
<1>7. ASSUME NEW g \in Groups, NEW t \in Threads, ThreadReady(g, t) \/ ThreadFails(g, t) \/ ThreadExits(g, t)
      PROVE  HostInv'
  BY <1>7, HostThreadReady, HostThreadFails, HostThreadExits
<1>8. CASE UNCHANGED hostVars
  <2>1. HostTyped' /\ Owned' /\ RecoveriesStep' /\ ServerSteps' /\ InHand'
    BY <1>8 DEF hostVars, HostInv, HostTyped, Owned, GroupsOwned, HandsOwned, Unmade, RecoveriesStep,
       ServerSteps, InHand,
                ServerFree, At
  <2>2. \A c \in Controllers : SameFor(c) /\ StillServing(c)
    BY <1>8 DEF hostVars, SameFor, StillServing, ServerFree, At
  <2>3. excused \subseteq excused' /\ ignored \subseteq ignored'
    BY <1>8 DEF hostVars
  <2>4. QED
    BY <2>1, <2>2, <2>3, OneTouched
<1>9. QED
  BY <1>1, <1>2, <1>3, <1>4, <1>5, <1>6, <1>7, <1>8 DEF HostNext

\* What the invariant means between two operations of the server.
LEMMA HostMeans == HostInv => HostSound
<1> SUFFICES ASSUME HostInv PROVE HostSound
  OBVIOUS
<1>1. HostTypeOK
  BY DEF HostInv, HostTyped, RecoveriesStep, HostTypeOK
<1>2. NoStrayGroup
  <2> SUFFICES ASSUME ServerFree, NEW g \in Groups, Alive(g), owner[g] \notin excused
               PROVE  owner[g] = current /\ (g = host[current] \/ current \in recovering)
    BY DEF NoStrayGroup
  <2>1. PICK c \in Controllers : owner[g] = c
    <3>1. runner[g] # "none" \/ \E t \in Threads : thread[g][t] # "none"
      BY DEF Alive
    <3>2. QED
      BY <3>1, MembersOwned
  <2>2. Tended(c) /\ Held(g, c) /\ ~Drives(Server, c)
    BY HostNames, <2>1 DEF HostInv, Tended, Drives, ServerFree, At
  <2>3. CASE g = host[c]
    BY HostNames, <2>1, <2>2, <2>3 DEF Tended
  <2>4. CASE Drives(c, c)
    BY HostNames, <2>1, <2>2, <2>4 DEF Tended, Drives, HostInv, RecoveriesStep
  <2>5. QED
    BY <2>2, <2>3, <2>4 DEF Held, Drives, Closing, Untold, Told
<1>3. RunningIsServing
  <2> SUFFICES ASSUME ServerFree, server = "running", current \notin recovering \cup ignored \cup excused
               PROVE  workers[current] # 0 /\ \A t \in Threads : thread[workers[current]][t] = "ready"
    BY DEF RunningIsServing
  <2>1. PICK c \in Controllers : c = current
    BY DEF HostInv, ServerSteps, HostTyped
  <2>2. Serving(c)
    BY <2>1 DEF HostInv
  <2>3. QED
    BY <2>1, <2>2 DEF Serving
<1>4. QED
  BY <1>1, <1>2, <1>3 DEF HostSound

\* HostController and RuntimeController (host/controller.ts, runtime.ts):
\* whatever operations are asked for, whenever members of a group fail and
\* however recoveries overlap with them, a server between operations has
\* no stray runner or thread and serves with all its threads when it says
\* running, save the controllers the history variables name; a controller
\* has one recovery and never more restarts than the policy allows.
THEOREM HostRunsWhatItSays == HostSpec => []HostSound
<1>1. HostSpec => []HostInv
  BY HostBegins, HostSteps, PTL DEF HostSpec
<1>2. QED
  BY <1>1, HostMeans, PTL

HIDE DEF Process, Doing

-----------------------------------------------------------------------------
(* The dev session.                                                        *)

\* The session's workers and events, and where the supervisor may be.
Kinds == {"watcher", "runtime"}
Changes == {"runtime-changed", "plugin-changed"}
Worker == [kind : Kinds, state : {"starting", "up", "failed", "gone"}, seen : Nat, loaded : Nat,
           rebuilt : Seq(Changes), rev : Nat]
Event == [type : Changes \cup {"ready", "config-invalidated"}, rev : Nat]
Replacing == {"replaceRuntime", "replaceSignal", "replaceWatcher"}
Loading == {"startRuntime", "reload"}
Early == {"starting", "signal", "failing"}

Workers == 0..Len(svc)

Handling ==
    [at : {"idle", "stopRuntime"} \cup Replacing \cup Loading \cup Early, on : Workers, prev : Workers]
Commanding == [at : Early \cup {"running", "final", "ended", "crashed"}, on : Workers \ {0}, prev : {0}]
StopCall == [at : {"idle", "waiting", "closing", "done"}, watcher : Workers, runtime : Workers, signal : {0, 1}]

USE DEF Handling, Commanding, StopCall

\* Fields name workers, 0 for none; only watchers rebuild.
DevTyped ==
    /\ disk \in Nat /\ revision \in Nat /\ svcFaults \in Nat /\ edits \in Nat
    /\ svc \in Seq(Worker) /\ queue \in Seq(Event)
    /\ main \in Commanding
    /\ handler \in Handling
    /\ handler.at \in Loading \cup Early => handler.on # 0
    /\ handler.at = "idle" => handler = Nobody
    /\ stopper \in [{"signal", "finally"} -> StopCall]
    /\ refs \in [watcher : Workers, runtime : Workers, signal : {0, 1}]
    /\ halted \in BOOLEAN /\ verdict \in {"open", "rejected", "resolved"}
    /\ lost \in [watchers : SUBSET Workers, signal : {0, 1}]
    /\ \A s \in DOMAIN svc : svc[s].kind = "runtime" => svc[s].rebuilt = <<>>

\* A watcher that is up is in the supervisor's field, in the hands of the
\* handler, of the first start or of a stop, or lost; and a runtime
\* likewise.
WatcherHeld(s) ==
    \/ s = refs.watcher \/ s \in lost.watchers
    \/ handler.at \in Replacing /\ s = handler.prev
    \/ handler.at = "failing" /\ s = handler.on
    \/ main.at = "failing" /\ s = main.on
    \/ \E k \in DOMAIN stopper : stopper[k].at = "closing" /\ s = stopper[k].watcher

RuntimeHeld(s) ==
    \/ s = refs.runtime
    \/ handler.at \in {"stopRuntime", "replaceRuntime"} /\ s = handler.on
    \/ \E k \in DOMAIN stopper : stopper[k].at = "closing" /\ s = stopper[k].runtime

InHands(s) == IF svc[s].kind = "watcher" THEN WatcherHeld(s) ELSE RuntimeHeld(s)

\* Every worker that is up is in hand, and of each kind there is one, but
\* for those lost.
AllHeld == \A s \in DOMAIN svc : Up(s) => InHands(s)
Alone ==
    \A s, t \in DOMAIN svc :
        svc[s].kind = svc[t].kind /\ Up(s) /\ Up(t) /\ {s, t} \cap lost.watchers = {} => s = t

\* What the fields hold while the handler is at work.
RefsFollow ==
    /\ handler.at \in Replacing => refs.watcher = 0 /\ refs.runtime = 0
    /\ handler.at = "stopRuntime" => refs.runtime = 0
    /\ handler.at = "failing" => refs.watcher # handler.on
    /\ main.at = "failing" => refs.watcher # main.on
    /\ refs.watcher # 0 => svc[refs.watcher].kind = "watcher"
    /\ refs.runtime # 0 => svc[refs.runtime].kind = "runtime"
    /\ handler.at \in Loading \cup {"stopRuntime", "replaceRuntime"} /\ handler.on # 0 => svc[handler.on].kind = "runtime"
    /\ handler.at \in Early /\ handler.on # 0 => svc[handler.on].kind = "watcher"
    /\ svc[main.on].kind = "watcher"

\* Until a stop begins nothing is taken; when none waits any more all has
\* been taken, and the handler is idle for good.
Swept == handler = Nobody /\ refs.watcher = 0 /\ refs.runtime = 0

Stopping ==
    /\ ~halted => \A k \in DOMAIN stopper : stopper[k] = NoStop
    /\ halted => \E k \in DOMAIN stopper : stopper[k].at # "idle"
    /\ \A k \in DOMAIN stopper : stopper[k].at = "idle" => stopper[k] = NoStop
    /\ halted /\ (\A k \in DOMAIN stopper : stopper[k].at # "waiting") => Swept /\ refs.signal <= lost.signal
    /\ \A k \in DOMAIN stopper : stopper[k].at = "closing" => Swept
    /\ main.at = "ended" => halted

\* The watchers of the config files are those in the field and in the
\* hands of a stop; the first start has none, and a running session has
\* one but while it is replaced.
InClosing(k) == IF stopper[k].at = "closing" THEN stopper[k].signal ELSE 0

Signals ==
    /\ signals = refs.signal + InClosing("signal") + InClosing("finally")
    /\ handler.at \in {"replaceWatcher"} \cup Early => refs.signal = 0
    /\ main.at \in Early =>
        /\ refs.signal = 0 /\ signals = 0
        /\ \A i \in DOMAIN queue : queue[i].type # "config-invalidated"
        /\ handler.at \notin Replacing \cup Early
    /\ ~halted /\ main.at = "running" /\ handler.at \notin {"replaceWatcher"} \cup Early => refs.signal = 1

\* A ready event comes after the i-th.
ReadyAfter(i) == \E j \in DOMAIN queue : j > i /\ queue[j].type = "ready"

\* The session follows the watcher w: what may make its events seem stale
\* is before a ready event, there is a runtime or will be, and what is on
\* disk is loaded, is being loaded, or is still to be announced or
\* handled.
Following(w) ==
    /\ Up(w)
    /\ svc[w].state = "starting" =>
         (main.at = "starting" /\ main.on = w) \/ (handler.at = "starting" /\ handler.on = w)
    /\ svc[w].state = "up" =>
        /\ revision <= svc[w].rev \/ ReadyAfter(0)
        /\ \A i \in DOMAIN queue : queue[i].rev <= svc[w].rev \/ ReadyAfter(i)
        /\ refs.runtime # 0 \/ handler.at = "stopRuntime" \/ ReadyAfter(0)
        /\ \/ svc[w].rebuilt # <<>> \/ ReadyAfter(0)
           \/ \E i \in DOMAIN queue : queue[i].type \in Changes /\ queue[i].rev = svc[w].rev
           \/ handler.at = "stopRuntime"
           \/ handler.at \in Loading /\ handler.on = refs.runtime /\ svc[handler.on].seen = disk
           \/ handler.at \notin Loading /\ refs.runtime # 0 /\ svc[refs.runtime].loaded = disk

Follows ==
    /\ verdict = "open" => lost.watchers = {}
    /\ ~halted /\ verdict = "open" /\ refs.watcher # 0 => Following(refs.watcher)

DevInv ==
    /\ DevTyped
    /\ IF main.at = "crashed" THEN \A s \in DOMAIN svc : ~Up(s)
       ELSE AllHeld /\ Alone /\ RefsFollow /\ Stopping /\ Signals /\ Follows

-----------------------------------------------------------------------------
\* What the types say of single workers and events.
LEMMA DevFields ==
    ASSUME DevTyped
    PROVE  /\ DOMAIN svc = 1..Len(svc) /\ Len(svc) \in Nat /\ Workers = DOMAIN svc \cup {0} /\ 0 \notin DOMAIN svc
           /\ \A s \in DOMAIN svc :
                /\ svc[s] \in Worker /\ svc[s].kind \in Kinds /\ svc[s].state \in {"starting", "up", "failed", "gone"}
                /\ svc[s].seen \in Nat /\ svc[s].loaded \in Nat /\ svc[s].rev \in Nat
                /\ svc[s].rebuilt \in Seq(Changes)
                /\ svc[s].kind = "runtime" => svc[s].rebuilt = <<>>
           /\ \A i \in DOMAIN queue : queue[i] \in Event /\ queue[i].rev \in Nat /\ i \in Nat /\ i > 0
           /\ \A i \in DOMAIN queue : queue[i].type \in Changes \cup {"ready", "config-invalidated"}
<1>1. svc \in Seq(Worker) /\ queue \in Seq(Event)
  BY DEF DevTyped
<1>2. DOMAIN svc = 1..Len(svc) /\ Len(svc) \in Nat /\ \A s \in DOMAIN svc : svc[s] \in Worker
  BY <1>1
<1>3. \A i \in DOMAIN queue : queue[i] \in Event /\ i \in Nat /\ i > 0
  BY <1>1
<1>4. \A w \in Worker : /\ w.kind \in Kinds /\ w.state \in {"starting", "up", "failed", "gone"}
                        /\ w.seen \in Nat /\ w.loaded \in Nat /\ w.rev \in Nat /\ w.rebuilt \in Seq(Changes)
  BY DEF Worker
<1>5. \A e \in Event : e.rev \in Nat /\ e.type \in Changes \cup {"ready", "config-invalidated"}
  BY DEF Event
<1>6. \A s \in DOMAIN svc : svc[s].kind = "runtime" => svc[s].rebuilt = <<>>
  BY DEF DevTyped
<1>. QED  BY <1>2, <1>3, <1>4, <1>5, <1>6 DEF Workers

\* Stopping workers changes their states and nothing else.
LEMMA GoneWorkers ==
    ASSUME DevTyped, NEW ids
    PROVE  /\ WithGone(ids) \in Seq(Worker) /\ Len(WithGone(ids)) = Len(svc)
           /\ DOMAIN WithGone(ids) = DOMAIN svc
           /\ \A s \in DOMAIN svc :
                WithGone(ids)[s] = IF s \in ids THEN [svc[s] EXCEPT !.state = "gone"] ELSE svc[s]
<1>1. DOMAIN svc = 1..Len(svc) /\ Len(svc) \in Nat /\ \A s \in DOMAIN svc : svc[s] \in Worker
  BY DEF DevTyped
<1>2. WithGone(ids) \in [1..Len(svc) -> Worker]
  BY <1>1 DEF WithGone, Worker
<1>3. WithGone(ids) \in Seq(Worker) /\ Len(WithGone(ids)) = Len(svc)
  BY <1>1, <1>2
<1>. QED  BY <1>1, <1>3 DEF WithGone

\* A new worker has the next number; the others keep theirs.
LEMMA MadeWorker ==
    ASSUME NEW q \in Seq(Worker), NEW w \in Worker
    PROVE  /\ Append(q, w) \in Seq(Worker) /\ Len(Append(q, w)) = Len(q) + 1
           /\ DOMAIN Append(q, w) = DOMAIN q \cup {Len(q) + 1} /\ Len(q) + 1 \notin DOMAIN q
           /\ \A s \in DOMAIN q : Append(q, w)[s] = q[s]
           /\ Append(q, w)[Len(q) + 1] = w
OBVIOUS

\* A change of one worker leaves the others alone.
LEMMA PutWorker ==
    ASSUME NEW q \in Seq(Worker), NEW s \in DOMAIN q, NEW w \in Worker
    PROVE  LET p == [q EXCEPT ![s] = w]
           IN  /\ p \in Seq(Worker) /\ Len(p) = Len(q) /\ DOMAIN p = DOMAIN q
               /\ p[s] = w /\ \A r \in DOMAIN q \ {s} : p[r] = q[r]
<1> DEFINE p == [q EXCEPT ![s] = w]
<1>1. DOMAIN q = 1..Len(q) /\ Len(q) \in Nat /\ q \in [1..Len(q) -> Worker]
  OBVIOUS
<1>2. p \in [1..Len(q) -> Worker]
  BY <1>1
<1>3. p \in Seq(Worker) /\ Len(p) = Len(q)
  BY <1>1, <1>2
<1>. QED  BY <1>1, <1>3

\* A new event is the last of the queue.
LEMMA EventAdded ==
    ASSUME NEW q \in Seq(Event), NEW e \in Event
    PROVE  /\ Append(q, e) \in Seq(Event)
           /\ DOMAIN Append(q, e) = DOMAIN q \cup {Len(q) + 1}
           /\ \A i \in DOMAIN q : Append(q, e)[i] = q[i] /\ i < Len(q) + 1 /\ i > 0
           /\ Append(q, e)[Len(q) + 1] = e /\ Len(q) + 1 > 0
OBVIOUS

\* The first event is taken; the others move up.
LEMMA EventTaken ==
    ASSUME NEW q \in Seq(Event), q # <<>>
    PROVE  /\ Head(q) \in Event /\ Head(q) = q[1] /\ 1 \in DOMAIN q
           /\ Tail(q) \in Seq(Event)
           /\ \A i \in DOMAIN Tail(q) : i + 1 \in DOMAIN q /\ Tail(q)[i] = q[i + 1] /\ i > 0
           /\ \A i \in DOMAIN q : i = 1 \/ (i - 1 \in DOMAIN Tail(q) /\ i > 1 /\ Tail(q)[i - 1] = q[i])
OBVIOUS

-----------------------------------------------------------------------------
\* A session begins with its first watcher starting.
LEMMA DevStarts == DevInit => DevInv
<1> SUFFICES ASSUME DevInit PROVE DevInv
  OBVIOUS
<1>1. svc \in Seq(Worker) /\ Len(svc) = 1 /\ DOMAIN svc = {1} /\ Workers = {0, 1}
      /\ svc[1] = [kind |-> "watcher", state |-> "starting", seen |-> 0, loaded |-> 0, rebuilt |-> <<>>, rev |-> 0]
  BY DEF DevInit, Worker, Kinds, Changes, Workers
<1>2. DevTyped
  <2>1. main = [at |-> "starting", on |-> 1, prev |-> 0]
    BY DEF DevInit, Nobody
  <2>4. main \in Commanding
    BY <1>1, <2>1 DEF Early
  <2>5. handler \in Handling
    BY <1>1 DEF DevInit, Nobody
  <2>2. stopper \in [{"signal", "finally"} -> StopCall]
    BY <1>1 DEF DevInit, NoStop
  <2>3. queue \in Seq(Event)
    BY DEF DevInit
  <2>6. lost \in [watchers : SUBSET Workers, signal : {0, 1}]
    BY DEF DevInit
  <2>7. handler = Nobody /\ handler.at \notin Loading \cup Early
    BY DEF DevInit, Nobody, Early, Loading
  <2>8. refs \in [watcher : Workers, runtime : Workers, signal : {0, 1}]
    BY <1>1 DEF DevInit
  <2>9. \A s \in DOMAIN svc : svc[s].kind = "runtime" => svc[s].rebuilt = <<>>
    BY <1>1
  <2>10. disk \in Nat /\ revision \in Nat /\ svcFaults \in Nat /\ edits \in Nat /\ halted \in BOOLEAN
         /\ verdict \in {"open", "rejected", "resolved"}
    BY DEF DevInit
  <2>. QED  BY <1>1, <2>2, <2>3, <2>4, <2>5, <2>6, <2>7, <2>8, <2>9, <2>10 DEF DevTyped
<1>3. AllHeld /\ Alone
  BY <1>1 DEF DevInit, AllHeld, Alone, InHands, WatcherHeld
<1>4. RefsFollow /\ Stopping /\ Signals /\ Follows
  BY <1>1 DEF DevInit, RefsFollow, Stopping, Signals, Follows, Following, InClosing, Nobody, NoStop, Early, Replacing, Loading, Up
<1>. QED  BY <1>2, <1>3, <1>4 DEF DevInv, DevInit, Nobody

\* Only a runtime fails to load; the one in the field is the one being
\* loaded, or has answered.
Answering ==
    /\ \A s \in DOMAIN svc : svc[s].kind = "watcher" => svc[s].state # "failed"
    /\ main.at # "crashed" =>
        /\ handler.at \in Loading => handler.on = refs.runtime
        /\ ~halted /\ verdict = "open" /\ refs.runtime # 0 /\ handler.at # "startRuntime" =>
             svc[refs.runtime].state \in {"up", "failed"}

\* The invariant says what a session promises.
LEMMA DevMeans == DevInv /\ Answering => DevSessionSound
<1> SUFFICES ASSUME DevInv, Answering PROVE DevSessionSound
  OBVIOUS
<1>. USE DEF DevInv
<1>1. QuietIsFresh
  <2> SUFFICES ASSUME AtRest, refs.watcher # 0, svc[refs.watcher].rebuilt = <<>>
               PROVE  /\ refs.runtime # 0 /\ svc[refs.runtime].loaded = disk
                      /\ svc[refs.runtime].state \in {"up", "failed"}
    BY DEF QuietIsFresh
  <2>1. Following(refs.watcher)
    BY DEF AtRest, Follows
  <2>2. handler.at = "idle" /\ main.at = "running" /\ queue = <<>> /\ DOMAIN queue = {}
    BY DEF AtRest, Nobody
  <2>3. svc[refs.watcher].state = "up"
    <3>1. svc[refs.watcher] \in Worker /\ refs.watcher \in DOMAIN svc
      BY DEF DevTyped, Workers
    <3>2. svc[refs.watcher].kind = "watcher"
      BY DEF AtRest, RefsFollow
    <3>. QED  BY <2>1, <2>2, <3>1, <3>2 DEF Following, Worker, Up, Answering
  <2>4. refs.runtime # 0 /\ svc[refs.runtime].loaded = disk
    BY <2>1, <2>2, <2>3 DEF Following, ReadyAfter, Loading
  <2>. QED  BY <2>2, <2>4 DEF Answering, AtRest
<1>2. BrokenConfigIsWatched
  BY DEF BrokenConfigIsWatched, AtRest, Signals, Nobody, Early
<1>3. OneOfEach
  <2> SUFFICES ASSUME NEW kind \in {"watcher", "runtime"}
               PROVE  Cardinality({s \in DOMAIN svc : svc[s].kind = kind /\ Up(s) /\ s \notin lost.watchers}) <= 1
    BY DEF OneOfEach
  <2> DEFINE S == {s \in DOMAIN svc : svc[s].kind = kind /\ Up(s) /\ s \notin lost.watchers}
  <2>1. \A s, t \in S : s = t
    BY DEF Alone
  <2>2. S = {} \/ \E s : S = {s}
    BY <2>1
  <2>3. Cardinality({}) = 0 /\ \A s : Cardinality({s}) = 1
    BY FS_EmptySet, FS_Singleton
  <2>4. CASE S = {}
    BY <2>3, <2>4
  <2>5. CASE \E s : S = {s}
    <3>1. PICK s : S = {s}
      BY <2>5
    <3>2. Cardinality(S) = 1
      BY <2>3, <3>1
    <3>. QED  BY <3>2
  <2>. QED  BY <2>2, <2>4, <2>5
<1>4. EndedLeavesNothing
  <2> SUFFICES ASSUME main.at = "ended", handler = Nobody,
                      \A k \in DOMAIN stopper : stopper[k].at \in {"idle", "done"}
               PROVE  /\ \A s \in DOMAIN svc : Up(s) => s \in lost.watchers
                      /\ signals <= lost.signal
    BY DEF EndedLeavesNothing
  <2>1. Swept /\ refs.signal <= lost.signal
    BY DEF Stopping
  <2>2. signals = refs.signal
    BY DEF Signals, InClosing, DevTyped
  <2>3. \A s \in DOMAIN svc : s # 0
    BY DEF DevTyped
  <2>. QED  BY <2>1, <2>2, <2>3 DEF AllHeld, InHands, WatcherHeld, RuntimeHeld, Swept, Nobody, Replacing
<1>. QED  BY <1>1, <1>2, <1>3, <1>4 DEF DevSessionSound

-----------------------------------------------------------------------------
\* A watcher that is ready begins its revisions anew, and says so last in
\* the queue.
LEMMA DevWatcherReady == ASSUME DevInv, main.at # "crashed", NEW s \in DOMAIN svc, WatcherReady(s) PROVE DevInv'
<1>. USE DEF DevInv
<1> DEFINE w == [svc[s] EXCEPT !.state = "up", !.rev = 1]
           e == [type |-> "ready", rev |-> 1]
<1>0. DevTyped /\ svc[s] \in Worker
  BY DevFields
<1>1. svc' = [svc EXCEPT ![s] = w] /\ w \in Worker
  BY <1>0 DEF WatcherReady, Worker
<1>2. /\ svc' \in Seq(Worker) /\ Len(svc') = Len(svc) /\ DOMAIN svc' = DOMAIN svc /\ Workers' = Workers
      /\ svc'[s] = w /\ \A r \in DOMAIN svc \ {s} : svc'[r] = svc[r]
  BY <1>1, PutWorker DEF DevTyped, Workers
<1>3. w.state = "up" /\ w.rev = 1 /\ w.kind = svc[s].kind /\ w.rebuilt = svc[s].rebuilt /\ w.loaded = svc[s].loaded
      /\ w.seen = svc[s].seen /\ svc[s].kind = "watcher" /\ svc[s].state = "starting"
  BY DEF WatcherReady, DevTyped, Worker
<1> HIDE DEF w
<1>4. e \in Event
  BY DEF Event
<1>5. /\ queue' = Append(queue, e) /\ queue' \in Seq(Event)
      /\ DOMAIN queue' = DOMAIN queue \cup {Len(queue) + 1}
      /\ \A i \in DOMAIN queue : queue'[i] = queue[i] /\ i < Len(queue) + 1 /\ i > 0
      /\ queue'[Len(queue) + 1] = e /\ Len(queue) + 1 > 0
  BY <1>4, EventAdded DEF WatcherReady, DevTyped
<1>. USE DEF WatcherReady
<1>6. DevTyped'
  BY <1>2, <1>3, <1>5 DEF DevTyped
<1>7. AllHeld'
  BY <1>2, <1>3 DEF AllHeld, InHands, WatcherHeld, RuntimeHeld, Up
<1>8. Alone'
  BY <1>2, <1>3 DEF Alone, Up
<1>9. RefsFollow'
  BY <1>2, <1>3 DEF RefsFollow, DevTyped, Workers
<1>10. Stopping'
  BY DEF Stopping, Swept
<1>11. Signals'
  BY <1>5 DEF Signals, InClosing
<1>12. Follows'
  <2>1. SUFFICES ASSUME ~halted, verdict = "open", refs.watcher # 0 PROVE Following(refs.watcher)'
    BY DEF Follows
  <2>2. refs.watcher \in DOMAIN svc
    BY <2>1 DEF DevTyped, Workers
  <2>3. Following(refs.watcher)
    BY <2>1 DEF Follows
  <2>4. CASE refs.watcher = s
    BY <1>2, <1>3, <1>5, <2>4 DEF Following, ReadyAfter, Up
  <2>5. refs.watcher = s
    BY <1>3, <2>1, <2>2, <2>3 DEF Following, Alone, Follows, Up, RefsFollow
  <2>. QED  BY <2>4, <2>5
<1>. QED  BY <1>6, <1>7, <1>8, <1>9, <1>10, <1>11, <1>12

\* The watcher announces a rebuild: the last event carries its revision.
LEMMA DevAnnounce == ASSUME DevInv, main.at # "crashed", NEW s \in DOMAIN svc, Announce(s) PROVE DevInv'
<1>. USE DEF DevInv
<1> DEFINE w == [svc[s] EXCEPT !.rebuilt = Tail(@), !.rev = @ + 1]
           e == [type |-> Head(svc[s].rebuilt), rev |-> svc[s].rev + 1]
<1>1. svc[s] \in Worker /\ svc[s].rebuilt \in Seq(Changes) /\ svc[s].rebuilt # <<>> /\ svc[s].rev \in Nat
  BY DevFields DEF Announce
<1>2. Head(svc[s].rebuilt) \in Changes /\ Tail(svc[s].rebuilt) \in Seq(Changes)
  BY <1>1
<1>3. svc' = [svc EXCEPT ![s] = w] /\ w \in Worker /\ e \in Event
  <2>1. svc[s].rev + 1 \in Nat
    BY <1>1
  <2>2. w \in Worker
    BY <1>1, <1>2, <2>1 DEF Worker
  <2>3. e \in Event
    BY <1>2, <2>1 DEF Event
  <2>. QED  BY <2>2, <2>3 DEF Announce
<1>4. /\ svc' \in Seq(Worker) /\ Len(svc') = Len(svc) /\ DOMAIN svc' = DOMAIN svc /\ Workers' = Workers
      /\ svc'[s] = w /\ \A r \in DOMAIN svc \ {s} : svc'[r] = svc[r]
  BY <1>3, PutWorker DEF DevTyped, Workers
<1>5. w.state = "up" /\ w.rev = svc[s].rev + 1 /\ w.kind = svc[s].kind /\ w.loaded = svc[s].loaded
      /\ w.seen = svc[s].seen /\ svc[s].kind = "watcher" /\ svc[s].state = "up"
  BY <1>1 DEF Announce, DevTyped, Worker, Kinds
<1>6. e.type \in Changes /\ e.rev = svc[s].rev + 1
  BY <1>2
<1> HIDE DEF w, e
<1>7. /\ queue' = Append(queue, e) /\ queue' \in Seq(Event)
      /\ DOMAIN queue' = DOMAIN queue \cup {Len(queue) + 1}
      /\ \A i \in DOMAIN queue : queue'[i] = queue[i] /\ i < Len(queue) + 1 /\ i > 0
      /\ queue'[Len(queue) + 1] = e /\ Len(queue) + 1 > 0
  BY <1>3, EventAdded DEF Announce, DevTyped, e
<1>. USE DEF Announce
<1>8. DevTyped'
  BY <1>4, <1>5, <1>7 DEF DevTyped
<1>9. AllHeld'
  BY <1>4, <1>5 DEF AllHeld, InHands, WatcherHeld, RuntimeHeld, Up
<1>10. Alone'
  BY <1>4, <1>5 DEF Alone, Up
<1>11. RefsFollow'
  BY SMTT(30), <1>4, <1>5 DEF RefsFollow, DevTyped, Workers
<1>12. Stopping'
  BY DEF Stopping, Swept
<1>13. Signals'
  BY <1>6, <1>7 DEF Signals, InClosing, Changes
<1>14. Follows'
  <2>1. SUFFICES ASSUME ~halted, verdict = "open", refs.watcher # 0 PROVE Following(refs.watcher)'
    BY DEF Follows
  <2>2. refs.watcher \in DOMAIN svc
    BY <2>1 DEF DevTyped, Workers
  <2>3. Following(refs.watcher)
    BY <2>1 DEF Follows
  <2>4. refs.watcher = s
    BY <1>5, <2>1, <2>2, <2>3 DEF Following, Alone, Follows, Up, RefsFollow
  <2>5. /\ \A i \in DOMAIN queue : queue[i] \in Event /\ queue[i].rev \in Nat
        /\ revision \in Nat
    BY DevFields DEF DevTyped
  <2>6. \A i : ReadyAfter(i) => ReadyAfter(i)'
    BY <1>7 DEF ReadyAfter
  <2>7. refs.runtime # 0 => svc'[refs.runtime].loaded = svc[refs.runtime].loaded
    BY SMTT(30), <1>4, <1>5 DEF DevTyped, Workers
  <2>. QED  BY SMTT(30), <1>1, <1>4, <1>5, <1>6, <1>7, <2>3, <2>4, <2>5, <2>6 DEF Following, Up
<1>. QED  BY <1>8, <1>9, <1>10, <1>11, <1>12, <1>13, <1>14

\* Only the session's watcher rebuilds, and it has then something to
\* announce.
LEMMA DevRebuild ==
    ASSUME DevInv, main.at # "crashed", NEW s \in DOMAIN svc, NEW type \in Changes, Rebuild(s, type)
    PROVE  DevInv'
<1>. USE DEF DevInv
<1> DEFINE w == [svc[s] EXCEPT !.rebuilt = Append(@, type)]
<1>1. svc[s] \in Worker /\ svc[s].rebuilt \in Seq(Changes)
  BY DevFields
<1>2. Append(svc[s].rebuilt, type) \in Seq(Changes) /\ Append(svc[s].rebuilt, type) # <<>>
  BY <1>1
<1>3. svc' = [svc EXCEPT ![s] = w] /\ w \in Worker
  BY <1>1, <1>2 DEF Rebuild, DevTyped, Worker
<1>4. /\ svc' \in Seq(Worker) /\ Len(svc') = Len(svc) /\ DOMAIN svc' = DOMAIN svc /\ Workers' = Workers
      /\ svc'[s] = w /\ \A r \in DOMAIN svc \ {s} : svc'[r] = svc[r]
  BY <1>3, PutWorker DEF DevTyped, Workers
<1>5. w.state = "up" /\ w.rev = svc[s].rev /\ w.kind = svc[s].kind /\ w.loaded = svc[s].loaded /\ w.rebuilt # <<>>
      /\ w.seen = svc[s].seen /\ svc[s].kind = "watcher" /\ svc[s].state = "up"
  BY <1>1, <1>2 DEF Rebuild, DevTyped, Worker
<1> HIDE DEF w
<1>. USE DEF Rebuild
<1>8. DevTyped'
  BY <1>4, <1>5 DEF DevTyped
<1>9. AllHeld'
  BY <1>4, <1>5 DEF AllHeld, InHands, WatcherHeld, RuntimeHeld, Up
<1>10. Alone'
  BY <1>4, <1>5 DEF Alone, Up
<1>11. RefsFollow'
  BY <1>4, <1>5 DEF RefsFollow, DevTyped, Workers
<1>12. Stopping'
  BY DEF Stopping, Swept
<1>13. Signals'
  BY DEF Signals, InClosing
<1>14. Follows'
  <2>1. SUFFICES ASSUME ~halted, verdict = "open", refs.watcher # 0 PROVE Following(refs.watcher)'
    BY DEF Follows
  <2>2. refs.watcher \in DOMAIN svc
    BY <2>1 DEF DevTyped, Workers
  <2>3. Following(refs.watcher)
    BY <2>1 DEF Follows
  <2>4. refs.watcher = s
    BY <1>5, <2>1, <2>2, <2>3 DEF Following, Alone, Follows, Up, RefsFollow
  <2>. QED  BY ZenonT(30), <1>1, <1>4, <1>5, <2>3, <2>4 DEF Following, Up, ReadyAfter
<1>. QED  BY <1>8, <1>9, <1>10, <1>11, <1>12, <1>13, <1>14

\* A change of the config files comes only after the first start.
LEMMA DevConfigEdited == ASSUME DevInv, main.at # "crashed", ConfigEdited PROVE DevInv'
<1>. USE DEF DevInv
<1> DEFINE e == [type |-> "config-invalidated", rev |-> 0]
<1>1. e \in Event
  BY DEF Event
<1>2. \/ UNCHANGED queue
      \/ /\ ~halted /\ queue' = Append(queue, e) /\ queue' \in Seq(Event)
         /\ DOMAIN queue' = DOMAIN queue \cup {Len(queue) + 1}
         /\ \A i \in DOMAIN queue : queue'[i] = queue[i] /\ i < Len(queue) + 1 /\ i > 0
         /\ queue'[Len(queue) + 1] = e /\ Len(queue) + 1 > 0
  BY <1>1, EventAdded DEF ConfigEdited, DevTyped
<1>. USE DEF ConfigEdited
<1>3. DevTyped'
  BY <1>2 DEF DevTyped, Workers
<1>4. AllHeld' /\ Alone'
  BY DEF AllHeld, InHands, WatcherHeld, RuntimeHeld, Up, Alone
<1>5. RefsFollow' /\ Stopping'
  BY DEF RefsFollow, Stopping, Swept
<1>6. Signals'
  BY <1>2 DEF Signals, InClosing
<1>7. Follows'
  <2>1. SUFFICES ASSUME ~halted, verdict = "open", refs.watcher # 0 PROVE Following(refs.watcher)'
    BY DEF Follows
  <2>2. refs.watcher \in DOMAIN svc /\ svc[refs.watcher].rev \in Nat
    BY <2>1, DevFields DEF DevTyped
  <2>3. Following(refs.watcher)
    BY <2>1 DEF Follows
  <2>4. \A i : ReadyAfter(i) => ReadyAfter(i)'
    BY <1>2 DEF ReadyAfter
  <2>. QED  BY <1>2, <2>2, <2>3, <2>4 DEF Following, Up
<1>. QED  BY <1>3, <1>4, <1>5, <1>6, <1>7

-----------------------------------------------------------------------------
\* A crash closes the session unless the worker was being stopped, and
\* such a worker is in no field.
LEMMA DevCrashes == ASSUME DevInv, main.at # "crashed", NEW s \in DOMAIN svc, ServiceCrashes(s) PROVE DevInv'
<1>. USE DEF DevInv
<1>1. /\ svc' \in Seq(Worker) /\ Len(svc') = Len(svc) /\ DOMAIN svc' = DOMAIN svc /\ Workers' = Workers
      /\ \A r \in DOMAIN svc : svc'[r] = IF r = s THEN [svc[r] EXCEPT !.state = "gone"] ELSE svc[r]
  BY GoneWorkers DEF ServiceCrashes, Workers
<1>2. \A r \in DOMAIN svc : /\ svc'[r].state = IF r = s THEN "gone" ELSE svc[r].state
                            /\ svc'[r].kind = svc[r].kind /\ svc'[r].rebuilt = svc[r].rebuilt /\ svc'[r].rev = svc[r].rev
                            /\ svc'[r].seen = svc[r].seen /\ svc'[r].loaded = svc[r].loaded
  BY <1>1, DevFields DEF Worker
<1>3. verdict' \in {"open", "rejected", "resolved"} /\ (verdict' = "open" => verdict = "open" /\ BeingStopped(s))
  BY DEF ServiceCrashes, Reject, DevTyped
<1>4. svcFaults' \in Nat /\ UNCHANGED <<disk, queue, main, handler, stopper, refs, revision, halted, signals, edits, lost>>
  BY DEF ServiceCrashes, ServiceFault, DevTyped
<1>5. DevTyped'
  BY <1>1, <1>2, <1>3, <1>4 DEF DevTyped
<1>6. AllHeld'
  BY <1>1, <1>2, <1>4 DEF AllHeld, InHands, WatcherHeld, RuntimeHeld, Up
<1>7. Alone'
  BY <1>1, <1>2, <1>4 DEF Alone, Up
<1>8. RefsFollow'
  <2>1. {refs.watcher, refs.runtime, handler.on} \subseteq DOMAIN svc \cup {0} /\ main.on \in DOMAIN svc
    BY DevFields DEF DevTyped
  <2>. QED  BY <1>1, <1>2, <1>4, <2>1 DEF RefsFollow
<1>9. Stopping' /\ Signals'
  BY <1>4 DEF Stopping, Swept, Signals, InClosing
<1>10. Follows'
  <2>1. SUFFICES ASSUME ~halted, verdict' = "open", refs.watcher # 0 PROVE Following(refs.watcher)'
    BY <1>3, <1>4 DEF Follows
  <2>2. {refs.watcher, refs.runtime, handler.on} \subseteq DOMAIN svc \cup {0} /\ refs.watcher \in DOMAIN svc
    BY <2>1, DevFields DEF DevTyped
  <2>3. Following(refs.watcher)
    BY <1>3, <2>1 DEF Follows
  <2>4. refs.watcher # s
    <3>1. BeingStopped(s) /\ \A k \in DOMAIN stopper : stopper[k].at # "closing"
      BY <1>3, <2>1 DEF Stopping, NoStop
    <3>. QED  BY <3>1, <2>1, <2>2 DEF BeingStopped, RefsFollow, Replacing, Loading, Early
  <2>. QED  BY <1>1, <1>2, <1>4, <2>2, <2>3, <2>4 DEF Following, Up, ReadyAfter, Loading
<1>. QED  BY <1>4, <1>5, <1>6, <1>7, <1>8, <1>9, <1>10

\* The first watcher has answered.
LEMMA DevMainStarted ==
    ASSUME DevInv, main.at # "crashed", WatcherStarted(main), main' = [main EXCEPT !.at = "signal"], UNCHANGED handler
    PROVE  DevInv'
<1>. USE DEF DevInv, WatcherStarted
<1>1. main \in Commanding
  BY DEF DevTyped
<1>2. main' \in Commanding /\ main'.at = "signal" /\ main'.on = main.on /\ main.at = "starting"
  BY <1>1 DEF Early
<1>3. refs.signal = 0 /\ UNCHANGED <<signals, refs>>
  BY DEF Signals, DevTyped, Early
<1>4. DevTyped'
  BY <1>2, <1>3 DEF DevTyped, Workers, Early, Loading
<1>5. AllHeld' /\ Alone'
  BY <1>2, <1>3 DEF AllHeld, InHands, WatcherHeld, RuntimeHeld, Up, Alone, Replacing
<1>6. RefsFollow'
  BY <1>2, <1>3 DEF RefsFollow, Early, Replacing, Loading
<1>7. Stopping'
  BY <1>2, <1>3 DEF Stopping, Swept, Nobody
<1>8. Signals'
  BY <1>2, <1>3 DEF Signals, InClosing, Early, Replacing
<1>9. Follows'
  BY <1>2, <1>3 DEF Follows, Following, Up, ReadyAfter, Loading
<1>. QED  BY <1>2, <1>4, <1>5, <1>6, <1>7, <1>8, <1>9

\* The first watcher has refused: it is to be stopped.
LEMMA DevMainStartFails ==
    ASSUME DevInv, main.at # "crashed", WatcherStartFails(main), main' = [main EXCEPT !.at = "failing"], UNCHANGED handler
    PROVE  DevInv'
<1>. USE DEF DevInv, WatcherStartFails
<1>1. main \in Commanding
  BY DEF DevTyped
<1>2. main' \in Commanding /\ main'.at = "failing" /\ main'.on = main.on /\ main.at = "starting"
  BY <1>1 DEF Early
<1>3. /\ refs' \in [watcher : Workers, runtime : Workers, signal : {0, 1}]
      /\ refs'.watcher = IF refs.watcher = main.on THEN 0 ELSE refs.watcher
      /\ refs'.runtime = refs.runtime /\ refs'.signal = refs.signal
      /\ svcFaults' \in Nat /\ main.on # 0
  <2>1. refs \in [watcher : Workers, runtime : Workers, signal : {0, 1}] /\ 0 \in Workers
    BY DevFields DEF DevTyped
  <2>2. svcFaults' \in Nat
    BY DEF DevTyped, ServiceFault
  <2>3. main.on # 0
    BY <1>2 DEF DevTyped, Early
  <2>. QED  BY <2>1, <2>2, <2>3
<1>4. DevTyped'
  BY <1>2, <1>3 DEF DevTyped, Workers, Early, Loading
<1>5. AllHeld' /\ Alone'
  BY <1>2, <1>3 DEF AllHeld, InHands, WatcherHeld, RuntimeHeld, Up, Alone, Replacing
<1>6. RefsFollow'
  BY <1>2, <1>3, DevFields DEF RefsFollow, DevTyped, Early, Replacing, Loading
<1>7. Stopping'
  BY <1>2, <1>3 DEF Stopping, Swept, Nobody
<1>8. Signals'
  BY <1>2, <1>3 DEF Signals, InClosing, Early, Replacing
<1>9. Follows'
  BY <1>2, <1>3 DEF Follows, Following, Up, ReadyAfter, Loading
<1>. QED  BY <1>2, <1>4, <1>5, <1>6, <1>7, <1>8, <1>9

\* The watcher that refused is gone.
LEMMA DevMainUnstarted ==
    ASSUME DevInv, main.at # "crashed", FailedWatcherStopped(main), main' = [main EXCEPT !.at = "final"], UNCHANGED handler
    PROVE  DevInv'
<1>. USE DEF DevInv
<1>1. main \in Commanding
  BY DEF DevTyped
<1>2. main' \in Commanding /\ main'.at = "final" /\ main'.on = main.on /\ main.at = "failing"
  BY <1>1 DEF Early, FailedWatcherStopped
<1>3. /\ svc' \in Seq(Worker) /\ Len(svc') = Len(svc) /\ DOMAIN svc' = DOMAIN svc /\ Workers' = Workers
      /\ \A r \in DOMAIN svc : svc'[r] = IF r = main.on THEN [svc[r] EXCEPT !.state = "gone"] ELSE svc[r]
  BY GoneWorkers DEF FailedWatcherStopped, Workers
<1>4. \A r \in DOMAIN svc : /\ svc'[r].state = IF r = main.on THEN "gone" ELSE svc[r].state
                            /\ svc'[r].kind = svc[r].kind /\ svc'[r].rebuilt = svc[r].rebuilt /\ svc'[r].rev = svc[r].rev
                            /\ svc'[r].seen = svc[r].seen /\ svc'[r].loaded = svc[r].loaded
  BY <1>3, DevFields DEF Worker
<1>5. UNCHANGED <<disk, queue, stopper, refs, revision, halted, verdict, signals, edits, svcFaults, lost>>
  BY DEF FailedWatcherStopped
<1>6. DevTyped'
  BY <1>2, <1>3, <1>4, <1>5 DEF DevTyped
<1>7. AllHeld' /\ Alone'
  BY <1>2, <1>3, <1>4, <1>5 DEF AllHeld, InHands, WatcherHeld, RuntimeHeld, Up, Alone, Replacing
<1>8. RefsFollow'
  <2>1. {refs.watcher, refs.runtime, handler.on} \subseteq DOMAIN svc \cup {0} /\ main.on \in DOMAIN svc
    BY DevFields DEF DevTyped
  <2>. QED  BY <1>2, <1>3, <1>4, <1>5, <2>1 DEF RefsFollow, Early, Replacing, Loading
<1>9. Stopping'
  BY <1>2, <1>5 DEF Stopping, Swept, Nobody
<1>10. Signals'
  BY <1>2, <1>5 DEF Signals, InClosing, Early, Replacing
<1>11. Follows'
  <2>1. SUFFICES ASSUME ~halted, verdict = "open", refs.watcher # 0 PROVE Following(refs.watcher)'
    BY <1>5 DEF Follows
  <2>2. {refs.watcher, refs.runtime, handler.on} \subseteq DOMAIN svc \cup {0} /\ refs.watcher \in DOMAIN svc
    BY <2>1, DevFields DEF DevTyped
  <2>3. Following(refs.watcher) /\ refs.watcher # main.on
    BY <1>2, <2>1 DEF Follows, RefsFollow
  <2>. QED  BY <1>2, <1>3, <1>4, <1>5, <2>2, <2>3 DEF Following, Up, ReadyAfter, Loading
<1>. QED  BY <1>2, <1>5, <1>6, <1>7, <1>8, <1>9, <1>10, <1>11

\* The config files are watched from now on; a stop that was over does not
\* know of it.
LEMMA DevMainWatches ==
    ASSUME DevInv, main.at # "crashed", SignalReady(main), main' = [main EXCEPT !.at = "running"], UNCHANGED handler
    PROVE  DevInv'
<1>. USE DEF DevInv, SignalReady
<1>1. main \in Commanding
  BY DEF DevTyped
<1>2. main' \in Commanding /\ main'.at = "running" /\ main'.on = main.on /\ main.at = "signal"
  BY <1>1, DevFields DEF Early, Nobody
<1>3. /\ refs' \in [watcher : Workers, runtime : Workers, signal : {0, 1}] /\ refs.signal = 0
      /\ refs'.watcher = refs.watcher /\ refs'.runtime = refs.runtime /\ refs'.signal = 1
  BY <1>2 DEF DevTyped, Signals, Early
<1>4. /\ lost' \in [watchers : SUBSET Workers, signal : {0, 1}] /\ lost'.watchers = lost.watchers
      /\ lost'.signal = lost.signal \/ lost'.signal = 1
      /\ (\E k \in DOMAIN stopper : stopper[k].at \in {"closing", "done"}) => lost'.signal = 1
  BY DEF DevTyped
<1>5. DevTyped'
  BY <1>2, <1>3, <1>4 DEF DevTyped, Workers, Early, Loading
<1>6. AllHeld' /\ Alone'
  BY <1>2, <1>3, <1>4 DEF AllHeld, InHands, WatcherHeld, RuntimeHeld, Up, Alone, Replacing
<1>7. RefsFollow'
  BY <1>2, <1>3 DEF RefsFollow, Early, Replacing, Loading
<1>8. Stopping'
  BY <1>2, <1>3, <1>4 DEF Stopping, Swept, Nobody, DevTyped
<1>9. Signals'
  BY <1>2, <1>3 DEF Signals, InClosing, Early, Replacing, DevTyped
<1>10. Follows'
  BY <1>2, <1>3, <1>4 DEF Follows, Following, Up, ReadyAfter, Loading
<1>. QED  BY <1>2, <1>5, <1>6, <1>7, <1>8, <1>9, <1>10

\* A later watcher has answered.
LEMMA DevHandlerStarted ==
    ASSUME DevInv, main.at # "crashed", WatcherStarted(handler), handler' = [handler EXCEPT !.at = "signal"], UNCHANGED main
    PROVE  DevInv'
<1>. USE DEF DevInv, WatcherStarted
<1>1. handler \in Handling
  BY DEF DevTyped
<1>2. handler' \in Handling /\ handler'.at = "signal" /\ handler'.on = handler.on /\ handler.at = "starting"
  BY <1>1 DEF Early
<1>3. refs.signal = 0 /\ UNCHANGED <<signals, refs>>
  BY DEF Signals, DevTyped, Early
<1>4. DevTyped'
  BY <1>2, <1>3 DEF DevTyped, Workers, Early, Loading
<1>5. AllHeld' /\ Alone'
  BY <1>2, <1>3 DEF AllHeld, InHands, WatcherHeld, RuntimeHeld, Up, Alone, Replacing
<1>6. RefsFollow'
  BY <1>2, <1>3 DEF RefsFollow, Early, Replacing, Loading
<1>7. Stopping'
  BY <1>2, <1>3 DEF Stopping, Swept, Nobody
<1>8. Signals'
  BY <1>2, <1>3 DEF Signals, InClosing, Early, Replacing
<1>9. Follows'
  BY <1>2, <1>3 DEF Follows, Following, Up, ReadyAfter, Loading
<1>. QED  BY <1>2, <1>4, <1>5, <1>6, <1>7, <1>8, <1>9

\* A later watcher has refused: it is to be stopped.
LEMMA DevHandlerStartFails ==
    ASSUME DevInv, main.at # "crashed", WatcherStartFails(handler), handler' = [handler EXCEPT !.at = "failing"], UNCHANGED main
    PROVE  DevInv'
<1>. USE DEF DevInv, WatcherStartFails
<1>1. handler \in Handling
  BY DEF DevTyped
<1>2. handler' \in Handling /\ handler'.at = "failing" /\ handler'.on = handler.on /\ handler.at = "starting"
  BY <1>1 DEF Early
<1>3. /\ refs' \in [watcher : Workers, runtime : Workers, signal : {0, 1}]
      /\ refs'.watcher = IF refs.watcher = handler.on THEN 0 ELSE refs.watcher
      /\ refs'.runtime = refs.runtime /\ refs'.signal = refs.signal
      /\ svcFaults' \in Nat /\ handler.on # 0
  <2>1. refs \in [watcher : Workers, runtime : Workers, signal : {0, 1}] /\ 0 \in Workers
    BY DevFields DEF DevTyped
  <2>2. svcFaults' \in Nat
    BY DEF DevTyped, ServiceFault
  <2>3. handler.on # 0
    BY <1>2 DEF DevTyped, Early
  <2>. QED  BY <2>1, <2>2, <2>3
<1>4. DevTyped'
  BY <1>2, <1>3 DEF DevTyped, Workers, Early, Loading
<1>5. AllHeld' /\ Alone'
  BY <1>2, <1>3 DEF AllHeld, InHands, WatcherHeld, RuntimeHeld, Up, Alone, Replacing
<1>6. RefsFollow'
  BY <1>2, <1>3, DevFields DEF RefsFollow, DevTyped, Early, Replacing, Loading
<1>7. Stopping'
  BY <1>2, <1>3 DEF Stopping, Swept, Nobody
<1>8. Signals'
  BY <1>2, <1>3 DEF Signals, InClosing, Early, Replacing
<1>9. Follows'
  BY <1>2, <1>3 DEF Follows, Following, Up, ReadyAfter, Loading
<1>. QED  BY <1>2, <1>4, <1>5, <1>6, <1>7, <1>8, <1>9

\* The watcher that refused is gone, and the config files are watched for
\* a better one.
LEMMA DevHandlerUnstarted ==
    ASSUME DevInv, main.at # "crashed", FailedWatcherStopped(handler), handler' = [handler EXCEPT !.at = "signal"], UNCHANGED main
    PROVE  DevInv'
<1>. USE DEF DevInv
<1>1. handler \in Handling
  BY DEF DevTyped
<1>2. handler' \in Handling /\ handler'.at = "signal" /\ handler'.on = handler.on /\ handler.at = "failing"
  BY <1>1 DEF Early, FailedWatcherStopped
<1>3. /\ svc' \in Seq(Worker) /\ Len(svc') = Len(svc) /\ DOMAIN svc' = DOMAIN svc /\ Workers' = Workers
      /\ \A r \in DOMAIN svc : svc'[r] = IF r = handler.on THEN [svc[r] EXCEPT !.state = "gone"] ELSE svc[r]
  BY GoneWorkers DEF FailedWatcherStopped, Workers
<1>4. \A r \in DOMAIN svc : /\ svc'[r].state = IF r = handler.on THEN "gone" ELSE svc[r].state
                            /\ svc'[r].kind = svc[r].kind /\ svc'[r].rebuilt = svc[r].rebuilt /\ svc'[r].rev = svc[r].rev
                            /\ svc'[r].seen = svc[r].seen /\ svc'[r].loaded = svc[r].loaded
  BY <1>3, DevFields DEF Worker
<1>5. UNCHANGED <<disk, queue, stopper, refs, revision, halted, verdict, signals, edits, svcFaults, lost>>
  BY DEF FailedWatcherStopped
<1>6. DevTyped'
  BY <1>2, <1>3, <1>4, <1>5 DEF DevTyped, Early, Loading
<1>7. AllHeld' /\ Alone'
  BY <1>2, <1>3, <1>4, <1>5 DEF AllHeld, InHands, WatcherHeld, RuntimeHeld, Up, Alone, Replacing
<1>8. RefsFollow'
  <2>1. {refs.watcher, refs.runtime, handler.on} \subseteq DOMAIN svc \cup {0} /\ main.on \in DOMAIN svc
    BY DevFields DEF DevTyped
  <2>. QED  BY <1>2, <1>3, <1>4, <1>5, <2>1 DEF RefsFollow, Early, Replacing, Loading
<1>9. Stopping'
  BY <1>2, <1>5 DEF Stopping, Swept, Nobody
<1>10. Signals'
  BY <1>2, <1>5 DEF Signals, InClosing, Early, Replacing
<1>11. Follows'
  <2>1. SUFFICES ASSUME ~halted, verdict = "open", refs.watcher # 0 PROVE Following(refs.watcher)'
    BY <1>5 DEF Follows
  <2>2. {refs.watcher, refs.runtime, handler.on} \subseteq DOMAIN svc \cup {0} /\ refs.watcher \in DOMAIN svc
    BY <2>1, DevFields DEF DevTyped
  <2>3. Following(refs.watcher) /\ refs.watcher # handler.on
    BY <1>2, <2>1 DEF Follows, RefsFollow
  <2>. QED  BY <1>2, <1>3, <1>4, <1>5, <2>2, <2>3 DEF Following, Up, ReadyAfter, Loading
<1>. QED  BY <1>2, <1>5, <1>6, <1>7, <1>8, <1>9, <1>10, <1>11

\* The config files are watched again.
LEMMA DevHandlerWatches ==
    ASSUME DevInv, main.at # "crashed", SignalReady(handler), handler' = Nobody, UNCHANGED main
    PROVE  DevInv'
<1>. USE DEF DevInv, SignalReady
<1>1. handler \in Handling
  BY DEF DevTyped
<1>2. handler' \in Handling /\ handler'.at = "idle" /\ handler' = Nobody /\ handler.at = "signal"
  BY <1>1, DevFields DEF Early, Nobody
<1>3. /\ refs' \in [watcher : Workers, runtime : Workers, signal : {0, 1}] /\ refs.signal = 0
      /\ refs'.watcher = refs.watcher /\ refs'.runtime = refs.runtime /\ refs'.signal = 1
  BY <1>2 DEF DevTyped, Signals, Early
<1>4. /\ lost' \in [watchers : SUBSET Workers, signal : {0, 1}] /\ lost'.watchers = lost.watchers
      /\ lost'.signal = lost.signal \/ lost'.signal = 1
      /\ (\E k \in DOMAIN stopper : stopper[k].at \in {"closing", "done"}) => lost'.signal = 1
  BY DEF DevTyped
<1>5. DevTyped'
  BY <1>2, <1>3, <1>4 DEF DevTyped, Workers, Early, Loading
<1>6. AllHeld' /\ Alone'
  BY <1>2, <1>3, <1>4 DEF AllHeld, InHands, WatcherHeld, RuntimeHeld, Up, Alone, Replacing
<1>7. RefsFollow'
  BY <1>2, <1>3 DEF RefsFollow, Early, Replacing, Loading
<1>8. Stopping'
  BY <1>2, <1>3, <1>4 DEF Stopping, Swept, Nobody, DevTyped
<1>9. Signals'
  BY <1>2, <1>3 DEF Signals, InClosing, Early, Replacing, DevTyped
<1>10. Follows'
  BY <1>2, <1>3, <1>4 DEF Follows, Following, Up, ReadyAfter, Loading
<1>. QED  BY <1>2, <1>5, <1>6, <1>7, <1>8, <1>9, <1>10

-----------------------------------------------------------------------------
\* An event is taken when the handler is idle; what is ready behind it
\* stays ready behind the others.
LEMMA EventHandled ==
    ASSUME DevInv, main.at # "crashed", TakeEvent
    PROVE  /\ handler = Nobody /\ handler.at = "idle" /\ Head(queue) \in Event /\ queue' \in Seq(Event)
           /\ AcceptManifest(Head(queue)) \in Nat
           /\ \A i \in DOMAIN queue' : i + 1 \in DOMAIN queue /\ queue'[i] = queue[i + 1]
           /\ \A i : ReadyAfter(i + 1) /\ i \in Nat => ReadyAfter(i)'
           /\ main.at \in Early => Head(queue).type # "config-invalidated"
           /\ main.at \in Early => \A i \in DOMAIN queue' : queue'[i].type # "config-invalidated"
<1>. USE DEF DevInv
<1>1. queue # <<>> /\ queue \in Seq(Event) /\ queue' = Tail(queue) /\ handler = Nobody
  BY DEF TakeEvent, DevTyped
<1>2. /\ Head(queue) \in Event /\ Head(queue) = queue[1] /\ 1 \in DOMAIN queue /\ queue' \in Seq(Event)
      /\ \A i \in DOMAIN queue' : i + 1 \in DOMAIN queue /\ queue'[i] = queue[i + 1] /\ i > 0
      /\ \A i \in DOMAIN queue : i = 1 \/ (i - 1 \in DOMAIN queue' /\ i > 1 /\ queue'[i - 1] = queue[i])
  BY <1>1, EventTaken
<1>3. ASSUME NEW i \in Nat, ReadyAfter(i + 1) PROVE ReadyAfter(i)'
  <2>1. PICK j \in DOMAIN queue : j > i + 1 /\ queue[j].type = "ready"
    BY <1>3 DEF ReadyAfter
  <2>2. j - 1 \in DOMAIN queue' /\ queue'[j - 1] = queue[j] /\ j \in Nat
    BY <1>1, <1>2, <2>1
  <2>. QED  BY <2>1, <2>2 DEF ReadyAfter
<1>4. AcceptManifest(Head(queue)) \in Nat
  BY <1>2 DEF AcceptManifest, DevTyped, Event
<1>. QED  BY <1>1, <1>2, <1>3, <1>4 DEF Nobody, Signals

\* An event is dropped only when a later one makes up for it, or none is
\* needed.
LEMMA DevEventDropped ==
    ASSUME DevInv, main.at # "crashed", TakeEvent, UNCHANGED <<svc, handler, refs>>,
           LET e == Head(queue) IN
             /\ halted \/ (e.type = "runtime-changed" /\ (Stale(e) \/ refs.runtime = 0))
                       \/ (e.type = "plugin-changed" /\ Stale(e))
             /\ revision' = IF halted THEN revision ELSE AcceptManifest(e)
    PROVE  DevInv'
<1>. USE DEF DevInv
<1> DEFINE e == Head(queue)
<1>1. /\ handler = Nobody /\ handler.at = "idle" /\ e \in Event /\ queue' \in Seq(Event)
      /\ AcceptManifest(e) \in Nat
      /\ \A i \in DOMAIN queue' : i + 1 \in DOMAIN queue /\ queue'[i] = queue[i + 1]
      /\ \A i : ReadyAfter(i + 1) /\ i \in Nat => ReadyAfter(i)'
      /\ main.at \in Early => \A i \in DOMAIN queue' : queue'[i].type # "config-invalidated"
  BY EventHandled
<1>2. UNCHANGED <<disk, main, stopper, halted, verdict, signals, edits, svcFaults, lost>>
  BY DEF TakeEvent
<1>3. DevTyped'
  BY <1>1, <1>2 DEF DevTyped, Workers
<1>4. AllHeld' /\ Alone'
  BY <1>2 DEF AllHeld, InHands, WatcherHeld, RuntimeHeld, Up, Alone
<1>5. RefsFollow' /\ Stopping'
  BY <1>2 DEF RefsFollow, Stopping, Swept
<1>6. Signals'
  BY <1>1, <1>2 DEF Signals, InClosing
<1>7. Follows'
  <2>1. SUFFICES ASSUME ~halted, verdict = "open", refs.watcher # 0 PROVE Following(refs.watcher)'
    BY <1>2 DEF Follows
  <2> DEFINE w == refs.watcher
  <2>2. w \in DOMAIN svc /\ svc[w].rev \in Nat /\ queue # <<>> /\ queue \in Seq(Event) /\ queue' = Tail(queue)
    BY <2>1, DevFields DEF DevTyped, TakeEvent
  <2>3. Following(w)
    BY <2>1 DEF Follows
  <2>4. e.type \in Changes /\ (Stale(e) \/ refs.runtime = 0) /\ revision' = AcceptManifest(e) /\ e = queue[1]
    BY <2>1, <2>2, EventTaken DEF Changes
  <2>5. ReadyAfter(0) => ReadyAfter(1)
    <3> SUFFICES ASSUME ReadyAfter(0) PROVE ReadyAfter(1)
      OBVIOUS
    <3>1. PICK j \in DOMAIN queue : j > 0 /\ queue[j].type = "ready"
      BY DEF ReadyAfter
    <3>2. j # 1 /\ j \in Nat
      BY <2>2, <2>4, <3>1 DEF Changes
    <3>. QED  BY <3>1, <3>2 DEF ReadyAfter
  <2>6. ReadyAfter(0) => ReadyAfter(0)'
    BY <1>1, <2>5
  <2>7. \A i \in DOMAIN queue' : queue[i + 1].rev <= svc[w].rev \/ ReadyAfter(i + 1) => queue'[i].rev <= svc[w].rev \/ ReadyAfter(i)'
    BY <1>1, <2>2
  <2>8. svc[w].state = "up" => revision' <= svc[w].rev \/ ReadyAfter(0)'
    <3>1. svc[w].state = "up" => queue[1].rev <= svc[w].rev \/ ReadyAfter(1)
      BY <2>2, <2>3, EventTaken DEF Following
    <3>. QED  BY <1>1, <2>3, <2>4, <2>6, <3>1 DEF Following, AcceptManifest
  <2>9. svc[w].state = "up" /\ ~ReadyAfter(0)' => ~Stale(e) \/ e.rev # svc[w].rev
    <3> SUFFICES ASSUME svc[w].state = "up", ~ReadyAfter(0)', e.rev = svc[w].rev PROVE ~Stale(e)
      OBVIOUS
    <3>1. revision <= svc[w].rev
      BY <2>3, <2>6 DEF Following
    <3>. QED  BY <1>1, <2>2, <3>1 DEF Stale, AcceptManifest, DevTyped
  <2>10. svc[w].state = "up" /\ ~ReadyAfter(0)' => refs.runtime # 0
    BY <1>1, <2>3, <2>6 DEF Following
  <2>11. \A i \in DOMAIN queue : i = 1 \/ (i - 1 \in DOMAIN queue' /\ queue'[i - 1] = queue[i])
    BY <2>2, EventTaken
  <2>12. svc[w].state = "up" => \/ svc[w].rebuilt # <<>> \/ ReadyAfter(0)'
                                \/ \E i \in DOMAIN queue' : queue'[i].type \in Changes /\ queue'[i].rev = svc[w].rev
                                \/ refs.runtime # 0 /\ svc[refs.runtime].loaded = disk
    BY <1>1, <2>3, <2>4, <2>6, <2>9, <2>10, <2>11 DEF Following, Loading
  <2>13. svc[w].state = "up" => \A i \in DOMAIN queue' : queue'[i].rev <= svc[w].rev \/ ReadyAfter(i)'
    BY <1>1, <2>3, <2>7 DEF Following
  <2>. QED  BY <1>1, <1>2, <2>3, <2>8, <2>10, <2>12, <2>13 DEF Following, Up, Loading
<1>. QED  BY <1>2, <1>3, <1>4, <1>5, <1>6, <1>7

\* An event that is acted on leaves the rest of the queue in order.
LEMMA EventInOrder ==
    ASSUME DevInv, main.at # "crashed", TakeEvent, ~halted, verdict = "open", refs.watcher # 0,
           svc[refs.watcher].state = "up", revision' = AcceptManifest(Head(queue))
    PROVE  LET w == refs.watcher
           IN  /\ revision' <= svc[w].rev \/ ReadyAfter(0)'
               /\ \A i \in DOMAIN queue' : queue'[i].rev <= svc[w].rev \/ ReadyAfter(i)'
               /\ refs.runtime # 0 \/ Head(queue).type = "ready" \/ ReadyAfter(0)'
<1>. USE DEF DevInv
<1> DEFINE e == Head(queue)
           w == refs.watcher
<1>1. /\ handler.at = "idle" /\ e \in Event
      /\ \A i \in DOMAIN queue' : i + 1 \in DOMAIN queue /\ queue'[i] = queue[i + 1] /\ i \in Nat
      /\ \A i : ReadyAfter(i + 1) /\ i \in Nat => ReadyAfter(i)'
  BY EventHandled
<1>2. queue # <<>> /\ queue \in Seq(Event) /\ e = queue[1] /\ 1 \in DOMAIN queue /\ svc[w].rev \in Nat
  BY DevFields, EventTaken DEF TakeEvent, DevTyped
<1>3. Following(w)
  BY DEF Follows
<1>4. e.type # "ready" /\ ReadyAfter(0) => ReadyAfter(1)
  <2> SUFFICES ASSUME e.type # "ready", ReadyAfter(0) PROVE ReadyAfter(1)
    OBVIOUS
  <2>1. PICK j \in DOMAIN queue : j > 0 /\ queue[j].type = "ready"
    BY DEF ReadyAfter
  <2>2. j # 1 /\ j \in Nat
    BY <1>2, <2>1
  <2>. QED  BY <2>1, <2>2 DEF ReadyAfter
<1>5. e.rev <= svc[w].rev \/ ReadyAfter(0)'
  BY <1>1, <1>2, <1>3 DEF Following
<1>6. e.type # "ready" => revision <= svc[w].rev \/ ReadyAfter(0)'
  BY <1>1, <1>3, <1>4 DEF Following
<1>7. revision' <= svc[w].rev \/ ReadyAfter(0)'
  BY <1>5, <1>6 DEF AcceptManifest
<1>8. \A i \in DOMAIN queue' : queue'[i].rev <= svc[w].rev \/ ReadyAfter(i)'
  BY <1>1, <1>3 DEF Following
<1>9. refs.runtime # 0 \/ e.type = "ready" \/ ReadyAfter(0)'
  BY <1>1, <1>3, <1>4 DEF Following
<1>. QED  BY <1>7, <1>8, <1>9

\* The runtime reloads what is on disk now.
LEMMA DevReloads ==
    ASSUME DevInv, main.at # "crashed", TakeEvent, ~halted, refs.runtime # 0, Head(queue).type = "runtime-changed",
           revision' = AcceptManifest(Head(queue)),
           handler' = [Nobody EXCEPT !.at = "reload", !.on = refs.runtime],
           svc' = [svc EXCEPT ![refs.runtime].seen = disk], UNCHANGED refs
    PROVE  DevInv'
<1>. USE DEF DevInv
<1> DEFINE r == refs.runtime
           x == [svc[r] EXCEPT !.seen = disk]
<1>1. /\ handler = Nobody /\ handler.at = "idle" /\ queue' \in Seq(Event) /\ AcceptManifest(Head(queue)) \in Nat
      /\ main.at \in Early => \A i \in DOMAIN queue' : queue'[i].type # "config-invalidated"
  BY EventHandled
<1>2. UNCHANGED <<disk, main, stopper, halted, verdict, signals, edits, svcFaults, lost>>
  BY DEF TakeEvent
<1>3. r \in DOMAIN svc /\ svc[r] \in Worker /\ svc[r].kind = "runtime" /\ disk \in Nat
  BY DevFields DEF DevTyped, RefsFollow
<1>4. svc' = [svc EXCEPT ![r] = x] /\ x \in Worker
  BY <1>3 DEF Worker
<1>5. /\ svc' \in Seq(Worker) /\ Len(svc') = Len(svc) /\ DOMAIN svc' = DOMAIN svc /\ Workers' = Workers
      /\ svc'[r] = x /\ \A s \in DOMAIN svc \ {r} : svc'[s] = svc[s]
  BY <1>3, <1>4, PutWorker DEF DevTyped, Workers
<1>6. x.state = svc[r].state /\ x.rev = svc[r].rev /\ x.kind = svc[r].kind /\ x.loaded = svc[r].loaded
      /\ x.seen = disk /\ x.rebuilt = svc[r].rebuilt
  BY <1>3 DEF Worker
<1> HIDE DEF x
<1>7. handler' = [at |-> "reload", on |-> r, prev |-> 0] /\ handler' \in Handling
  BY <1>5, DevFields DEF Nobody, DevTyped, Loading
<1>8. DevTyped'
  BY <1>1, <1>2, <1>3, <1>5, <1>6, <1>7, DevFields DEF DevTyped
<1>9. AllHeld' /\ Alone'
  BY SMTT(30), <1>1, <1>2, <1>5, <1>6, <1>7 DEF AllHeld, InHands, WatcherHeld, RuntimeHeld, Up, Alone, Replacing
<1>10. RefsFollow'
  <2>1. {refs.watcher, refs.runtime, handler.on} \subseteq DOMAIN svc \cup {0} /\ main.on \in DOMAIN svc
    BY DevFields DEF DevTyped
  <2>. QED  BY <1>2, <1>3, <1>5, <1>6, <1>7, <2>1 DEF RefsFollow, Replacing, Loading, Early
<1>11. Stopping'
  BY <1>1, <1>2 DEF Stopping, Swept, NoStop
<1>12. Signals'
  BY <1>1, <1>2, <1>7 DEF Signals, InClosing, Early, Replacing
<1>13. Follows'
  <2>1. SUFFICES ASSUME verdict = "open", refs.watcher # 0 PROVE Following(refs.watcher)'
    BY <1>2 DEF Follows
  <2>2. refs.watcher \in DOMAIN svc /\ refs.watcher # r
    BY <1>3, <2>1, DevFields DEF DevTyped, RefsFollow
  <2>3. Following(refs.watcher)
    BY <2>1 DEF Follows
  <2>4. svc[refs.watcher].state = "up" =>
          /\ revision' <= svc[refs.watcher].rev \/ ReadyAfter(0)'
          /\ \A i \in DOMAIN queue' : queue'[i].rev <= svc[refs.watcher].rev \/ ReadyAfter(i)'
    BY <2>1, EventInOrder
  <2>. QED  BY <1>1, <1>2, <1>5, <1>6, <1>7, <2>2, <2>3, <2>4 DEF Following, Up, Loading
<1>. QED  BY <1>2, <1>8, <1>9, <1>10, <1>11, <1>12, <1>13

\* The runtime is to be stopped, for a new one to load what is on disk.
LEMMA DevRestarts ==
    ASSUME DevInv, main.at # "crashed", TakeEvent, ~halted, Head(queue).type # "config-invalidated",
           revision' = AcceptManifest(Head(queue)),
           handler' = [Nobody EXCEPT !.at = "stopRuntime", !.on = refs.runtime],
           refs' = [refs EXCEPT !.runtime = 0], UNCHANGED svc
    PROVE  DevInv'
<1>. USE DEF DevInv
<1>1. /\ handler = Nobody /\ handler.at = "idle" /\ queue' \in Seq(Event) /\ AcceptManifest(Head(queue)) \in Nat
      /\ main.at \in Early => \A i \in DOMAIN queue' : queue'[i].type # "config-invalidated"
  BY EventHandled
<1>2. UNCHANGED <<disk, main, stopper, halted, verdict, signals, edits, svcFaults, lost>>
  BY DEF TakeEvent
<1>3. refs' \in [watcher : Workers, runtime : Workers, signal : {0, 1}] /\ refs'.watcher = refs.watcher /\ refs'.runtime = 0 /\ refs'.signal = refs.signal
  BY DevFields DEF DevTyped
<1>4. handler' = [at |-> "stopRuntime", on |-> refs.runtime, prev |-> 0] /\ handler' \in Handling
  BY DevFields DEF Nobody, DevTyped
<1>5. DevTyped'
  BY <1>1, <1>2, <1>3, <1>4 DEF DevTyped, Workers, Loading, Early
<1>6. AllHeld' /\ Alone'
  BY <1>1, <1>2, <1>3, <1>4 DEF AllHeld, InHands, WatcherHeld, RuntimeHeld, Up, Alone, Replacing
<1>7. RefsFollow'
  BY <1>2, <1>3, <1>4 DEF RefsFollow, Replacing, Loading, Early
<1>8. Stopping'
  BY <1>1, <1>2 DEF Stopping, Swept, NoStop
<1>9. Signals'
  BY <1>1, <1>2, <1>3, <1>4 DEF Signals, InClosing, Early, Replacing
<1>10. Follows'
  <2>1. SUFFICES ASSUME verdict = "open", refs.watcher # 0 PROVE Following(refs.watcher)'
    BY <1>2, <1>3 DEF Follows
  <2>2. Following(refs.watcher)
    BY <2>1 DEF Follows
  <2>3. svc[refs.watcher].state = "up" =>
          /\ revision' <= svc[refs.watcher].rev \/ ReadyAfter(0)'
          /\ \A i \in DOMAIN queue' : queue'[i].rev <= svc[refs.watcher].rev \/ ReadyAfter(i)'
    BY <2>1, EventInOrder
  <2>. QED  BY <1>1, <1>2, <1>3, <1>4, <2>2, <2>3 DEF Following, Up
<1>. QED  BY <1>2, <1>5, <1>6, <1>7, <1>8, <1>9, <1>10

\* Both services are to be replaced and are in no field meanwhile.
LEMMA DevReplaces ==
    ASSUME DevInv, main.at # "crashed", TakeEvent, ~halted, Head(queue).type = "config-invalidated",
           handler' = [at |-> "replaceRuntime", on |-> refs.runtime, prev |-> refs.watcher],
           refs' = [refs EXCEPT !.runtime = 0, !.watcher = 0], UNCHANGED <<svc, revision>>
    PROVE  DevInv'
<1>. USE DEF DevInv
<1>1. /\ handler = Nobody /\ handler.at = "idle" /\ queue' \in Seq(Event)
      /\ main.at \notin Early
  BY EventHandled
<1>2. UNCHANGED <<disk, main, stopper, halted, verdict, signals, edits, svcFaults, lost>>
  BY DEF TakeEvent
<1>3. refs' \in [watcher : Workers, runtime : Workers, signal : {0, 1}] /\ refs'.watcher = 0 /\ refs'.runtime = 0 /\ refs'.signal = refs.signal
  BY DevFields DEF DevTyped
<1>4. handler' \in Handling
  BY DevFields DEF DevTyped, Replacing
<1>5. DevTyped'
  BY <1>1, <1>2, <1>3, <1>4 DEF DevTyped, Workers, Loading, Early
<1>6. AllHeld' /\ Alone'
  BY <1>1, <1>2, <1>3, <1>4 DEF AllHeld, InHands, WatcherHeld, RuntimeHeld, Up, Alone, Replacing
<1>7. RefsFollow'
  BY <1>1, <1>2, <1>3, <1>4 DEF RefsFollow, Replacing, Loading, Early
<1>8. Stopping'
  BY <1>1, <1>2 DEF Stopping, Swept, NoStop
<1>9. Signals'
  BY <1>1, <1>2, <1>3, <1>4 DEF Signals, InClosing, Early, Replacing
<1>10. Follows'
  BY <1>2, <1>3 DEF Follows
<1>. QED  BY <1>2, <1>5, <1>6, <1>7, <1>8, <1>9, <1>10

\* The four ways to handle an event.
LEMMA DevTakeEvent == ASSUME DevInv, main.at # "crashed", TakeEvent PROVE DevInv'
<1> DEFINE e == Head(queue)
<1>1. CASE /\ halted \/ (e.type = "runtime-changed" /\ (Stale(e) \/ refs.runtime = 0))
                     \/ (e.type = "plugin-changed" /\ Stale(e))
           /\ revision' = IF halted THEN revision ELSE AcceptManifest(e)
           /\ UNCHANGED <<svc, handler, refs>>
  BY <1>1, DevEventDropped
<1>2. CASE /\ ~halted /\ e.type = "runtime-changed" /\ ~Stale(e) /\ refs.runtime # 0
           /\ revision' = AcceptManifest(e)
           /\ handler' = [Nobody EXCEPT !.at = "reload", !.on = refs.runtime]
           /\ svc' = [svc EXCEPT ![refs.runtime].seen = disk]
           /\ UNCHANGED refs
  BY <1>2, DevReloads
<1>3. CASE /\ ~halted /\ (e.type = "ready" \/ (e.type = "plugin-changed" /\ ~Stale(e)))
           /\ revision' = AcceptManifest(e)
           /\ handler' = [Nobody EXCEPT !.at = "stopRuntime", !.on = refs.runtime]
           /\ refs' = [refs EXCEPT !.runtime = 0]
           /\ UNCHANGED svc
  BY <1>3, DevRestarts
<1>4. CASE /\ ~halted /\ e.type = "config-invalidated"
           /\ handler' = [at |-> "replaceRuntime", on |-> refs.runtime, prev |-> refs.watcher]
           /\ refs' = [refs EXCEPT !.runtime = 0, !.watcher = 0]
           /\ UNCHANGED <<svc, revision>>
  BY <1>4, DevReplaces
<1>. QED  BY <1>1, <1>2, <1>3, <1>4 DEF TakeEvent

-----------------------------------------------------------------------------
\* The step leaves the workers as they were, but for those in ids, which
\* are gone.
SameFields(r) ==
    /\ svc'[r].kind = svc[r].kind /\ svc'[r].rebuilt = svc[r].rebuilt /\ svc'[r].rev = svc[r].rev
    /\ svc'[r].seen = svc[r].seen /\ svc'[r].loaded = svc[r].loaded

Lessened(ids) ==
    /\ svc' \in Seq(Worker) /\ DOMAIN svc' = DOMAIN svc /\ Workers' = Workers
    /\ \A r \in DOMAIN svc : SameFields(r) /\ svc'[r].state = IF r \in ids THEN "gone" ELSE svc[r].state

\* The same, and a new worker has been made.
Succeeded(ids, kind, new) ==
    /\ svc' \in Seq(Worker) /\ DOMAIN svc' = DOMAIN svc \cup {new} /\ new \notin DOMAIN svc /\ new # 0
    /\ Workers' = Workers \cup {new}
    /\ \A r \in DOMAIN svc : SameFields(r) /\ svc'[r].state = IF r \in ids THEN "gone" ELSE svc[r].state
    /\ svc'[new].kind = kind /\ svc'[new].state = "starting" /\ svc'[new].seen = disk /\ svc'[new].rebuilt = <<>>

\* Workers that are stopped are gone.
LEMMA WorkersLessened == ASSUME DevTyped, NEW ids, svc' = WithGone(ids) PROVE Lessened(ids)
<1>1. /\ svc' \in Seq(Worker) /\ Len(svc') = Len(svc) /\ DOMAIN svc' = DOMAIN svc
      /\ \A r \in DOMAIN svc : svc'[r] = IF r \in ids THEN [svc[r] EXCEPT !.state = "gone"] ELSE svc[r]
  BY GoneWorkers
<1>2. ASSUME NEW r \in DOMAIN svc PROVE SameFields(r) /\ svc'[r].state = IF r \in ids THEN "gone" ELSE svc[r].state
  <2>1. svc[r] \in Worker
    BY DevFields
  <2>. QED  BY <1>1, <2>1 DEF Worker, SameFields
<1>. QED  BY <1>1, <1>2 DEF Lessened, Workers

\* A worker made after others were stopped.
LEMMA WorkerSucceeded ==
    ASSUME DevTyped, NEW ids, NEW kind \in Kinds, svc' = Append(WithGone(ids), Service(kind))
    PROVE  Succeeded(ids, kind, NewService)
<1> DEFINE old == WithGone(ids)
           x == Service(kind)
           new == Len(svc) + 1
<1>1. /\ old \in Seq(Worker) /\ Len(old) = Len(svc) /\ DOMAIN old = DOMAIN svc
      /\ \A r \in DOMAIN svc : old[r] = IF r \in ids THEN [svc[r] EXCEPT !.state = "gone"] ELSE svc[r]
  BY GoneWorkers
<1>2. x \in Worker /\ x.kind = kind /\ x.state = "starting" /\ x.seen = disk /\ x.rebuilt = <<>>
  BY DEF Service, Worker, DevTyped
<1>3. svc' = Append(old, x)
  OBVIOUS
<1> HIDE DEF old, x
<1>4. /\ svc' \in Seq(Worker) /\ Len(svc') = new /\ DOMAIN svc' = DOMAIN svc \cup {new} /\ new \notin DOMAIN svc
      /\ \A r \in DOMAIN svc : svc'[r] = old[r]
      /\ svc'[new] = x
  BY <1>1, <1>2, <1>3, MadeWorker
<1>5. ASSUME NEW r \in DOMAIN svc PROVE SameFields(r) /\ svc'[r].state = IF r \in ids THEN "gone" ELSE svc[r].state
  <2>1. svc[r] \in Worker
    BY DevFields
  <2>. QED  BY ZenonT(30), <1>1, <1>4, <2>1 DEF Worker, SameFields
<1>6. Workers' = Workers \cup {new} /\ new # 0
  BY <1>4, DevFields DEF Workers
<1>. QED  BY <1>2, <1>4, <1>5, <1>6 DEF Succeeded, NewService

-----------------------------------------------------------------------------
\* The new runtime is the only one.
LEMMA DevRuntimeMade ==
    ASSUME DevInv, main.at # "crashed", handler.at = "stopRuntime",
           Succeeded({handler.on}, "runtime", NewService),
           refs' = [refs EXCEPT !.runtime = NewService],
           handler' = [Nobody EXCEPT !.at = "startRuntime", !.on = NewService],
           UNCHANGED <<disk, queue, main, stopper, revision, halted, signals, edits, lost, svcFaults, verdict>>
    PROVE  DevInv'
<1>. USE DEF DevInv
<1> DEFINE new == NewService
<1> HIDE DEF new
<1>1. Succeeded({handler.on}, "runtime", new)
  BY DEF new
<1>2. svc'[new].kind = "runtime" /\ svc'[new].state = "starting" /\ svc'[new].seen = disk /\ svc'[new].rebuilt = <<>>
  BY <1>1 DEF Succeeded
<1>3. /\ svc' \in Seq(Worker) /\ DOMAIN svc' = DOMAIN svc \cup {new} /\ new \notin DOMAIN svc
      /\ Workers' = Workers \cup {new} /\ new # 0
  BY <1>1 DEF Succeeded
<1>4. \A r \in DOMAIN svc : /\ svc'[r].state # "gone" => svc[r].state # "gone" /\ r \notin {handler.on}
                            /\ svc'[r].state = svc[r].state \/ r \in {handler.on}
                            /\ svc'[r].kind = svc[r].kind /\ svc'[r].rebuilt = svc[r].rebuilt /\ svc'[r].rev = svc[r].rev
                            /\ svc'[r].seen = svc[r].seen /\ svc'[r].loaded = svc[r].loaded
  BY <1>1 DEF Succeeded, SameFields
<1>5. /\ refs' \in [watcher : Workers', runtime : Workers', signal : {0, 1}]
      /\ refs'.watcher = refs.watcher /\ refs'.runtime = new /\ refs'.signal = refs.signal
  BY <1>3 DEF DevTyped, new
<1>6. handler' = [at |-> "startRuntime", on |-> new, prev |-> 0] /\ handler' \in Handling'
  BY <1>3, DevFields DEF Nobody, new, Loading
<1>7. DevTyped'
  <2>1. \A s \in DOMAIN svc' : svc'[s].kind = "runtime" => svc'[s].rebuilt = <<>>
    <3>1. \A r \in DOMAIN svc : svc[r].kind = "runtime" => svc[r].rebuilt = <<>>
      BY DevFields
    <3>. QED  BY <1>2, <1>3, <1>4, <3>1
  <2>2. main' \in Commanding'
    BY <1>3 DEF DevTyped
  <2>3. stopper' \in [{"signal", "finally"} -> StopCall']
    BY <1>3 DEF DevTyped
  <2>. QED  BY <1>3, <1>5, <1>6, <2>1, <2>2, <2>3 DEF DevTyped
<1>8. \A k \in DOMAIN stopper : stopper[k].at # "closing"
  BY DEF Stopping, Swept, Nobody
<1>9. \A s \in DOMAIN svc : svc[s].kind = "runtime" /\ Up(s) => s = handler.on
  <2>1. \A s \in DOMAIN svc : s # 0
    BY DevFields
  <2>. QED  BY <1>8, <2>1 DEF AllHeld, InHands, RuntimeHeld, RefsFollow
<1>10. AllHeld'
  <2>1. ASSUME NEW s \in DOMAIN svc, Up(s)' PROVE InHands(s)'
    <3>1. InHands(s) /\ svc'[s].kind = svc[s].kind /\ svc[s].kind \in Kinds /\ s # handler.on
      BY <1>4, <2>1, DevFields DEF AllHeld, Up
    <3>2. svc[s].kind = "watcher"
      BY <1>4, <1>9, <2>1, <3>1 DEF Kinds, Up
    <3>. QED  BY <1>5, <1>6, <1>8, <3>1, <3>2 DEF InHands, WatcherHeld, Replacing
  <2>2. ASSUME NEW s \in DOMAIN svc', s = new PROVE InHands(s)'
    BY <1>2, <1>5, <2>2 DEF InHands, RuntimeHeld
  <2>. QED  BY <1>3, <2>1, <2>2 DEF AllHeld
<1>11. Alone'
  BY <1>2, <1>3, <1>4, <1>9 DEF Alone, Up
<1>12. RefsFollow'
  <2>1. refs.watcher \in DOMAIN svc \cup {0} /\ main.on \in DOMAIN svc /\ handler.on \in DOMAIN svc \cup {0}
    BY DevFields DEF DevTyped
  <2>. QED  BY <1>2, <1>3, <1>4, <1>5, <1>6, <2>1 DEF RefsFollow, Replacing, Loading, Early
<1>13. Stopping'
  BY <1>8 DEF Stopping, Swept, Nobody
<1>14. Signals'
  BY <1>5, <1>6 DEF Signals, InClosing, Early, Replacing
<1>15. Follows'
  <2>1. SUFFICES ASSUME ~halted, verdict = "open", refs.watcher # 0 PROVE Following(refs.watcher)'
    BY <1>5 DEF Follows
  <2>2. refs.watcher \in DOMAIN svc /\ refs.watcher # handler.on
    BY <2>1, DevFields DEF DevTyped, RefsFollow
  <2>3. Following(refs.watcher)
    BY <2>1 DEF Follows
  <2>. QED  BY <1>2, <1>3, <1>4, <1>5, <1>6, <2>2, <2>3 DEF Following, Up, Loading, ReadyAfter
<1>. QED  BY <1>7, <1>10, <1>11, <1>12, <1>13, <1>14, <1>15

\* A runtime that does not stop in time closes the session.
LEMMA DevRuntimeStuck ==
    ASSUME DevInv, main.at # "crashed", handler.at = "stopRuntime", ServiceFault,
           Lessened({handler.on}), handler' = Nobody, Reject,
           UNCHANGED <<disk, queue, main, stopper, refs, revision, halted, signals, edits, lost>>
    PROVE  DevInv'
<1>. USE DEF DevInv
<1>1. /\ svc' \in Seq(Worker) /\ DOMAIN svc' = DOMAIN svc /\ Workers' = Workers
      /\ \A r \in DOMAIN svc : SameFields(r) /\ svc'[r].state = IF r \in {handler.on} THEN "gone" ELSE svc[r].state
  BY DEF Lessened
<1>2. \A r \in DOMAIN svc : /\ svc'[r].state # "gone" => svc[r].state # "gone" /\ r \notin {handler.on}
                            /\ svc'[r].state = svc[r].state \/ r \in {handler.on}
                            /\ svc'[r].kind = svc[r].kind /\ svc'[r].rebuilt = svc[r].rebuilt /\ svc'[r].rev = svc[r].rev
                            /\ svc'[r].seen = svc[r].seen /\ svc'[r].loaded = svc[r].loaded
  BY <1>1 DEF SameFields
<1>3. handler' \in Handling /\ handler'.at = "idle" /\ svcFaults' \in Nat
      /\ verdict' \in {"open", "rejected", "resolved"} /\ verdict' # "open"
  BY DevFields DEF Nobody, Reject, ServiceFault, DevTyped
<1>4. DevTyped'
  <2>1. \A r \in DOMAIN svc : svc[r].kind = "runtime" => svc[r].rebuilt = <<>>
    BY DevFields
  <2>2. \A r \in DOMAIN svc' : svc'[r].kind = "runtime" => svc'[r].rebuilt = <<>>
    BY <1>1, <1>2, <2>1
  <2>. QED  BY <1>1, <1>2, <1>3, <2>2 DEF DevTyped, Loading, Early
<1>5. AllHeld' /\ Alone'
  BY <1>1, <1>2, <1>3 DEF AllHeld, InHands, WatcherHeld, RuntimeHeld, Up, Alone, Replacing
<1>6. RefsFollow'
  <2>1. {refs.watcher, refs.runtime} \subseteq DOMAIN svc \cup {0} /\ main.on \in DOMAIN svc
    BY DevFields DEF DevTyped
  <2>. QED  BY <1>1, <1>2, <1>3, <2>1 DEF RefsFollow, Replacing, Loading, Early
<1>7. Stopping'
  BY <1>3 DEF Stopping, Swept, Nobody
<1>8. Signals'
  BY <1>3 DEF Signals, InClosing, Early, Replacing
<1>9. Follows'
  BY <1>3 DEF Follows
<1>. QED  BY <1>4, <1>5, <1>6, <1>7, <1>8, <1>9

\* The two ways a runtime's stop may end.
LEMMA DevRuntimeStopped == ASSUME DevInv, main.at # "crashed", RuntimeStopped PROVE DevInv'
<1>1. handler.at = "stopRuntime" /\ UNCHANGED <<disk, queue, main, stopper, revision, halted, signals, edits, lost>>
  BY DEF RuntimeStopped
<1>2. CASE /\ svc' = Append(WithGone({handler.on}), Service("runtime"))
           /\ refs' = [refs EXCEPT !.runtime = NewService]
           /\ handler' = [Nobody EXCEPT !.at = "startRuntime", !.on = NewService]
           /\ UNCHANGED <<svcFaults, verdict>>
  <2>1. Succeeded({handler.on}, "runtime", NewService)
    BY <1>2, WorkerSucceeded DEF DevInv, Kinds
  <2>. QED  BY <1>1, <1>2, <2>1, DevRuntimeMade
<1>3. CASE /\ ServiceFault /\ svc' = WithGone({handler.on}) /\ handler' = Nobody /\ Reject /\ UNCHANGED refs
  <2>1. Lessened({handler.on})
    BY <1>3, WorkersLessened DEF DevInv
  <2>. QED  BY <1>1, <1>3, <2>1, DevRuntimeStuck
<1>. QED  BY <1>2, <1>3 DEF RuntimeStopped

\* A runtime has loaded, or tried to load, what was on disk when asked, or something is still
\* to be announced.
LEMMA DevRuntimeAnswers ==
    ASSUME DevInv, main.at # "crashed", NEW st \in {"up", "failed"}, handler.at \in Loading, RuntimeAnswers(st)
    PROVE  DevInv'
<1>. USE DEF DevInv
<1> DEFINE r == handler.on
<1>1. PICK v \in svc[r].seen..disk : svc' = [svc EXCEPT ![r].state = st, ![r].loaded = v]
  BY DEF RuntimeAnswers
<1> DEFINE x == [svc[r] EXCEPT !.state = st, !.loaded = v]
<1>2. r \in DOMAIN svc /\ svc[r] \in Worker /\ svc[r].kind = "runtime" /\ v \in Nat /\ disk \in Nat /\ svc[r].seen \in Nat
  <2>1. handler.at \in Loading /\ handler.on # 0 /\ handler.on \in Workers /\ disk \in Nat
    BY DEF RuntimeAnswers, DevTyped, Loading
  <2>2. r \in DOMAIN svc /\ svc[r] \in Worker /\ svc[r].seen \in Nat
    BY <2>1, DevFields
  <2>3. svc[r].kind = "runtime"
    BY <2>1 DEF RefsFollow
  <2>. QED  BY <1>1, <2>1, <2>2, <2>3
<1>3. svc' = [svc EXCEPT ![r] = x] /\ x \in Worker
  BY <1>1, <1>2 DEF Worker
<1>4. /\ svc' \in Seq(Worker) /\ Len(svc') = Len(svc) /\ DOMAIN svc' = DOMAIN svc /\ Workers' = Workers
      /\ svc'[r] = x /\ \A s \in DOMAIN svc \ {r} : svc'[s] = svc[s]
  BY <1>2, <1>3, PutWorker DEF DevTyped, Workers
<1>5. x.state = st /\ x.rev = svc[r].rev /\ x.kind = svc[r].kind /\ x.loaded = v
      /\ x.seen = svc[r].seen /\ x.rebuilt = svc[r].rebuilt /\ Up(r)
  BY <1>2 DEF Worker, RuntimeAnswers
<1> HIDE DEF x
<1>6. handler' = Nobody /\ handler'.at = "idle" /\ handler' \in Handling /\ handler.at \in Loading
      /\ UNCHANGED <<disk, queue, main, stopper, refs, revision, halted, verdict, signals, edits, svcFaults, lost>>
  BY DevFields DEF RuntimeAnswers, Nobody, Loading
<1>7. DevTyped'
  <2>1. \A s \in DOMAIN svc : svc[s].kind = "runtime" => svc[s].rebuilt = <<>>
    BY DevFields
  <2>2. \A s \in DOMAIN svc' : svc'[s].kind = "runtime" => svc'[s].rebuilt = <<>>
    BY <1>2, <1>4, <1>5, <2>1
  <2>. QED  BY <1>4, <1>6, <2>2 DEF DevTyped, Loading, Early
<1>8. AllHeld' /\ Alone'
  BY <1>2, <1>4, <1>5, <1>6 DEF AllHeld, InHands, WatcherHeld, RuntimeHeld, Up, Alone, Replacing, Loading
<1>9. RefsFollow'
  <2>1. {refs.watcher, refs.runtime} \subseteq DOMAIN svc \cup {0} /\ main.on \in DOMAIN svc
    BY DevFields DEF DevTyped
  <2>. QED  BY <1>2, <1>4, <1>5, <1>6, <2>1 DEF RefsFollow, Replacing, Loading, Early
<1>10. Stopping'
  BY <1>6 DEF Stopping, Swept, Nobody
<1>11. Signals'
  BY <1>6 DEF Signals, InClosing, Early, Replacing, Loading
<1>12. Follows'
  <2>1. SUFFICES ASSUME ~halted, verdict = "open", refs.watcher # 0 PROVE Following(refs.watcher)'
    BY <1>6 DEF Follows
  <2>2. refs.watcher \in DOMAIN svc /\ refs.watcher # r /\ refs.runtime \in DOMAIN svc \cup {0}
    BY <1>2, <2>1, DevFields DEF DevTyped, RefsFollow
  <2>3. Following(refs.watcher)
    BY <2>1 DEF Follows
  <2>4. svc[r].seen = disk => v = disk
    BY <1>1, <1>2
  <2>. QED  BY <1>2, <1>4, <1>5, <1>6, <2>2, <2>3, <2>4 DEF Following, Up, Loading, ReadyAfter
<1>. QED  BY <1>6, <1>7, <1>8, <1>9, <1>10, <1>11, <1>12

\* A request to the runtime that throws closes the session.
LEMMA DevRuntimeRefuses == ASSUME DevInv, main.at # "crashed", RuntimeRefuses PROVE DevInv'
<1>. USE DEF DevInv
<1>1. handler' = Nobody /\ handler' \in Handling /\ handler'.at = "idle" /\ svcFaults' \in Nat /\ handler.at \in Loading
      /\ verdict' \in {"open", "rejected", "resolved"} /\ verdict' # "open"
      /\ UNCHANGED <<svc, disk, queue, main, stopper, refs, revision, halted, signals, edits, lost>>
  BY DevFields DEF Nobody, Reject, ServiceFault, DevTyped, RuntimeRefuses, Loading
<1>2. DevTyped'
  BY <1>1 DEF DevTyped, Loading, Early, Workers
<1>3. AllHeld' /\ Alone'
  BY <1>1 DEF AllHeld, InHands, WatcherHeld, RuntimeHeld, Up, Alone, Replacing, Loading
<1>4. RefsFollow'
  BY <1>1 DEF RefsFollow, Replacing, Loading, Early
<1>5. Stopping'
  BY <1>1 DEF Stopping, Swept, Nobody
<1>6. Signals'
  BY <1>1 DEF Signals, InClosing, Early, Replacing, Loading
<1>7. Follows'
  BY <1>1 DEF Follows
<1>. QED  BY <1>1, <1>2, <1>3, <1>4, <1>5, <1>6, <1>7

\* The runtime is stopped for a replacement; when it does not stop in time
\* the watcher is lost.
LEMMA DevReplaceRuntime == ASSUME DevInv, main.at # "crashed", ReplaceRuntime PROVE DevInv'
<1>. USE DEF DevInv
<1>0. Lessened({handler.on}) /\ handler.at = "replaceRuntime"
      /\ UNCHANGED <<disk, queue, main, stopper, refs, revision, halted, signals, edits>>
  BY WorkersLessened DEF ReplaceRuntime
<1>1. /\ svc' \in Seq(Worker) /\ DOMAIN svc' = DOMAIN svc /\ Workers' = Workers
      /\ \A r \in DOMAIN svc : SameFields(r) /\ svc'[r].state = IF r \in {handler.on} THEN "gone" ELSE svc[r].state
  BY <1>0 DEF Lessened
<1>2. \A r \in DOMAIN svc : /\ svc'[r].state # "gone" => svc[r].state # "gone" /\ r \notin {handler.on}
                            /\ svc'[r].state = svc[r].state \/ r \in {handler.on}
                            /\ svc'[r].kind = svc[r].kind /\ svc'[r].rebuilt = svc[r].rebuilt /\ svc'[r].rev = svc[r].rev
                            /\ svc'[r].seen = svc[r].seen /\ svc'[r].loaded = svc[r].loaded
  BY <1>1 DEF SameFields
<1>3. /\ handler' \in Handling /\ svcFaults' \in Nat
      /\ lost' \in [watchers : SUBSET Workers, signal : {0, 1}] /\ lost'.signal = lost.signal
      /\ \/ handler'.at = "replaceSignal" /\ handler'.prev = handler.prev /\ verdict' = verdict /\ lost' = lost
         \/ /\ handler' = Nobody /\ handler'.at = "idle" /\ lost'.watchers = lost.watchers \cup {handler.prev}
            /\ verdict' \in {"rejected", "resolved"}
  <2>1. handler \in Handling /\ lost \in [watchers : SUBSET Workers, signal : {0, 1}] /\ svcFaults \in Nat
    BY DEF DevTyped
  <2>2. CASE handler' = [handler EXCEPT !.at = "replaceSignal"] /\ UNCHANGED <<verdict, svcFaults, lost>>
    BY <2>1, <2>2 DEF Replacing, Handling
  <2>3. CASE /\ handler' = Nobody /\ Reject /\ lost' = [lost EXCEPT !.watchers = @ \cup {handler.prev}] /\ ServiceFault
    BY <2>1, <2>3, DevFields DEF Nobody, Reject, ServiceFault, DevTyped
  <2>. QED  BY <2>2, <2>3 DEF ReplaceRuntime
<1>4. DevTyped'
  <2>1. \A r \in DOMAIN svc : svc[r].kind = "runtime" => svc[r].rebuilt = <<>>
    BY DevFields
  <2>2. \A r \in DOMAIN svc' : svc'[r].kind = "runtime" => svc'[r].rebuilt = <<>>
    BY <1>1, <1>2, <2>1
  <2>. QED  BY <1>0, <1>1, <1>2, <1>3, <2>2 DEF DevTyped, Loading, Early
<1>5. AllHeld' /\ Alone'
  BY <1>0, <1>1, <1>2, <1>3 DEF AllHeld, InHands, WatcherHeld, RuntimeHeld, Up, Alone, Replacing
<1>6. RefsFollow'
  <2>1. {refs.watcher, refs.runtime} \subseteq DOMAIN svc \cup {0} /\ main.on \in DOMAIN svc
    BY DevFields DEF DevTyped
  <2>. QED  BY <1>0, <1>1, <1>2, <1>3, <2>1 DEF RefsFollow, Replacing, Loading, Early
<1>7. Stopping'
  BY <1>0, <1>3 DEF Stopping, Swept, Nobody
<1>8. Signals'
  BY <1>0, <1>3 DEF Signals, InClosing, Early, Replacing
<1>9. Follows'
  BY <1>0, <1>3 DEF Follows, RefsFollow, Replacing
<1>. QED  BY <1>0, <1>4, <1>5, <1>6, <1>7, <1>8, <1>9

\* The watcher of the config files is closed for a replacement.
LEMMA DevReplaceSignal == ASSUME DevInv, main.at # "crashed", ReplaceSignal PROVE DevInv'
<1>. USE DEF DevInv
<1>1. handler' \in Handling /\ handler'.at = "replaceWatcher" /\ handler'.prev = handler.prev /\ handler.at = "replaceSignal"
      /\ UNCHANGED <<svc, disk, queue, main, stopper, revision, halted, verdict, edits, svcFaults, lost>>
  BY DEF ReplaceSignal, DevTyped, Replacing
<1>2. refs' \in [watcher : Workers, runtime : Workers, signal : {0, 1}] /\ refs'.watcher = refs.watcher /\ refs'.runtime = refs.runtime /\ refs'.signal = 0
      /\ signals' = signals - refs.signal /\ refs.signal \in {0, 1} /\ main.at \notin Early
  BY <1>1 DEF ReplaceSignal, DevTyped, Signals, InClosing, Replacing
<1>3. DevTyped'
  BY <1>1, <1>2 DEF DevTyped, Loading, Early, Workers
<1>4. AllHeld' /\ Alone'
  BY <1>1, <1>2 DEF AllHeld, InHands, WatcherHeld, RuntimeHeld, Up, Alone, Replacing
<1>5. RefsFollow'
  BY <1>1, <1>2 DEF RefsFollow, Replacing, Loading, Early
<1>6. Stopping'
  BY <1>1, <1>2 DEF Stopping, Swept, Nobody
<1>7. Signals'
  BY <1>1, <1>2 DEF Signals, InClosing, DevTyped
<1>8. Follows'
  BY <1>1, <1>2 DEF Follows, RefsFollow, Replacing
<1>. QED  BY <1>1, <1>3, <1>4, <1>5, <1>6, <1>7, <1>8

\* A session that is being stopped gets no new watcher.
LEMMA DevWatcherGivenUp ==
    ASSUME DevInv, main.at # "crashed", handler.at = "replaceWatcher", halted,
           Lessened({handler.prev}), handler' = Nobody,
           UNCHANGED <<disk, queue, main, stopper, refs, revision, halted, verdict, signals, edits, svcFaults, lost>>
    PROVE  DevInv'
<1>. USE DEF DevInv
<1>1. /\ svc' \in Seq(Worker) /\ DOMAIN svc' = DOMAIN svc /\ Workers' = Workers
      /\ \A r \in DOMAIN svc : SameFields(r) /\ svc'[r].state = IF r \in {handler.prev} THEN "gone" ELSE svc[r].state
  BY DEF Lessened
<1>2. \A r \in DOMAIN svc : /\ svc'[r].state # "gone" => svc[r].state # "gone" /\ r \notin {handler.prev}
                            /\ svc'[r].state = svc[r].state \/ r \in {handler.prev}
                            /\ svc'[r].kind = svc[r].kind /\ svc'[r].rebuilt = svc[r].rebuilt /\ svc'[r].rev = svc[r].rev
                            /\ svc'[r].seen = svc[r].seen /\ svc'[r].loaded = svc[r].loaded
  BY <1>1 DEF SameFields
<1>3. handler' \in Handling /\ handler'.at = "idle"
  BY DevFields DEF Nobody
<1>4. DevTyped'
  <2>1. \A r \in DOMAIN svc : svc[r].kind = "runtime" => svc[r].rebuilt = <<>>
    BY DevFields
  <2>2. \A r \in DOMAIN svc' : svc'[r].kind = "runtime" => svc'[r].rebuilt = <<>>
    BY <1>1, <1>2, <2>1
  <2>. QED  BY <1>1, <1>2, <1>3, <2>2 DEF DevTyped, Loading, Early
<1>5. AllHeld' /\ Alone'
  BY <1>1, <1>2, <1>3 DEF AllHeld, InHands, WatcherHeld, RuntimeHeld, Up, Alone, Replacing
<1>6. RefsFollow'
  <2>1. {refs.watcher, refs.runtime} \subseteq DOMAIN svc \cup {0} /\ main.on \in DOMAIN svc
    BY DevFields DEF DevTyped
  <2>. QED  BY <1>1, <1>2, <1>3, <2>1 DEF RefsFollow, Replacing, Loading, Early
<1>7. Stopping'
  BY <1>3 DEF Stopping, Swept, Nobody
<1>8. Signals'
  BY <1>3 DEF Signals, InClosing, Early, Replacing
<1>9. Follows'
  BY <1>3 DEF Follows
<1>. QED  BY <1>4, <1>5, <1>6, <1>7, <1>8, <1>9

\* The new watcher is the only one, and is about to say that it is ready.
LEMMA DevWatcherMade ==
    ASSUME DevInv, main.at # "crashed", handler.at = "replaceWatcher", ~halted,
           Succeeded({handler.prev}, "watcher", NewService),
           refs' = [refs EXCEPT !.watcher = NewService],
           handler' = [Nobody EXCEPT !.at = "starting", !.on = NewService],
           UNCHANGED <<disk, queue, main, stopper, revision, halted, verdict, signals, edits, svcFaults, lost>>
    PROVE  DevInv'
<1>. USE DEF DevInv
<1> DEFINE new == NewService
<1> HIDE DEF new
<1>1. Succeeded({handler.prev}, "watcher", new)
  BY DEF new
<1>2. svc'[new].kind = "watcher" /\ svc'[new].state = "starting" /\ svc'[new].seen = disk /\ svc'[new].rebuilt = <<>>
  BY <1>1 DEF Succeeded
<1>3. /\ svc' \in Seq(Worker) /\ DOMAIN svc' = DOMAIN svc \cup {new} /\ new \notin DOMAIN svc
      /\ Workers' = Workers \cup {new} /\ new # 0
  BY <1>1 DEF Succeeded
<1>4. \A r \in DOMAIN svc : /\ svc'[r].state # "gone" => svc[r].state # "gone" /\ r \notin {handler.prev}
                            /\ svc'[r].state = svc[r].state \/ r \in {handler.prev}
                            /\ svc'[r].kind = svc[r].kind /\ svc'[r].rebuilt = svc[r].rebuilt /\ svc'[r].rev = svc[r].rev
                            /\ svc'[r].seen = svc[r].seen /\ svc'[r].loaded = svc[r].loaded
  BY <1>1 DEF Succeeded, SameFields
<1>5. /\ refs' \in [watcher : Workers', runtime : Workers', signal : {0, 1}]
      /\ refs'.watcher = new /\ refs'.runtime = refs.runtime /\ refs'.signal = refs.signal
  BY <1>3 DEF DevTyped, new
<1>6. handler' = [at |-> "starting", on |-> new, prev |-> 0] /\ handler' \in Handling'
  BY <1>3, DevFields DEF Nobody, new, Early
<1>7. DevTyped'
  <2>1. \A s \in DOMAIN svc' : svc'[s].kind = "runtime" => svc'[s].rebuilt = <<>>
    <3>1. \A r \in DOMAIN svc : svc[r].kind = "runtime" => svc[r].rebuilt = <<>>
      BY DevFields
    <3>. QED  BY <1>2, <1>3, <1>4, <3>1
  <2>2. main' \in Commanding'
    BY <1>3 DEF DevTyped
  <2>3. stopper' \in [{"signal", "finally"} -> StopCall']
    BY <1>3 DEF DevTyped
  <2>. QED  BY <1>3, <1>5, <1>6, <2>1, <2>2, <2>3 DEF DevTyped
<1>8. (\A k \in DOMAIN stopper : stopper[k].at # "closing") /\ main.at \notin Early
  BY DEF Stopping, NoStop, Signals, Replacing
<1>9. \A s \in DOMAIN svc : svc[s].kind = "watcher" /\ Up(s) => s = handler.prev \/ s \in lost.watchers
  <2>1. \A s \in DOMAIN svc : s # 0
    BY DevFields
  <2>. QED  BY <1>8, <2>1 DEF AllHeld, InHands, WatcherHeld, RefsFollow, Replacing, Early
<1>10. AllHeld'
  BY <1>2, <1>3, <1>4, <1>5, <1>6, <1>8, <1>9 DEF AllHeld, InHands, WatcherHeld, RuntimeHeld, Up
<1>11. Alone'
  BY <1>2, <1>3, <1>4, <1>9 DEF Alone, Up
<1>12. RefsFollow'
  <2>1. refs.runtime \in DOMAIN svc \cup {0} /\ main.on \in DOMAIN svc
    BY DevFields DEF DevTyped
  <2>. QED  BY <1>2, <1>3, <1>4, <1>5, <1>6, <2>1 DEF RefsFollow, Replacing, Loading, Early
<1>13. Stopping'
  BY <1>8 DEF Stopping, Swept, NoStop
<1>14. Signals'
  BY <1>5, <1>6, <1>8 DEF Signals, InClosing, Early, Replacing
<1>15. Follows'
  BY <1>2, <1>3, <1>5, <1>6 DEF Following, Up, Follows
<1>. QED  BY <1>7, <1>10, <1>11, <1>12, <1>13, <1>14, <1>15

\* A replacement ends with a new watcher or none.
LEMMA DevReplaceWatcher == ASSUME DevInv, main.at # "crashed", ReplaceWatcher PROVE DevInv'
<1>1. handler.at = "replaceWatcher"
      /\ UNCHANGED <<disk, queue, main, stopper, revision, halted, verdict, signals, edits, svcFaults, lost>>
  BY DEF ReplaceWatcher
<1>2. CASE halted
  <2>1. svc' = WithGone({handler.prev}) /\ handler' = Nobody /\ UNCHANGED refs
    BY <1>2 DEF ReplaceWatcher
  <2>2. Lessened({handler.prev})
    BY <2>1, WorkersLessened DEF DevInv
  <2>. QED  BY <1>1, <1>2, <2>1, <2>2, DevWatcherGivenUp
<1>3. CASE ~halted
  <2>1. /\ svc' = Append(WithGone({handler.prev}), Service("watcher"))
        /\ refs' = [refs EXCEPT !.watcher = NewService]
        /\ handler' = [Nobody EXCEPT !.at = "starting", !.on = NewService]
    BY <1>3 DEF ReplaceWatcher
  <2>2. Succeeded({handler.prev}, "watcher", NewService)
    BY <2>1, WorkerSucceeded DEF DevInv, Kinds
  <2>. QED  BY <1>1, <1>3, <2>1, <2>2, DevWatcherMade
<1>. QED  BY <1>2, <1>3

-----------------------------------------------------------------------------
\* A stop waits for the handler, unless another has or will have taken
\* everything.
LEMMA DevStopBegins ==
    ASSUME DevInv, main.at # "crashed", NEW k \in {"signal", "finally"}, StopBegins(k),
           main' \in Commanding,
           main'.on = main.on, main'.at = main.at \/ (main'.at = "final" /\ main.at \notin Early \cup {"ended"}),
           UNCHANGED <<svc, disk, queue, handler, refs, revision, verdict, signals, edits, svcFaults, lost>>
    PROVE  DevInv'
<1>. USE DEF DevInv
<1>1. /\ stopper[k] = NoStop /\ halted' = TRUE /\ stopper \in [{"signal", "finally"} -> StopCall]
      /\ \/ halted /\ refs.watcher = 0 /\ refs.runtime = 0 /\ stopper' = [stopper EXCEPT ![k].at = "done"]
         \/ stopper' = [stopper EXCEPT ![k].at = "waiting"]
  BY DEF StopBegins, DevTyped
<1>2. /\ stopper' \in [{"signal", "finally"} -> StopCall] /\ DOMAIN stopper = {"signal", "finally"} /\ DOMAIN stopper' = DOMAIN stopper
      /\ stopper[k].at = "idle"
      /\ stopper'[k].at = "waiting" \/ (stopper'[k].at = "done" /\ halted)
      /\ \A j \in {"signal", "finally"} \ {k} : stopper'[j] = stopper[j]
  BY <1>1 DEF NoStop
<1>3. DevTyped'
  BY <1>1, <1>2 DEF DevTyped, Workers
<1>4. AllHeld' /\ Alone'
  BY <1>2 DEF AllHeld, InHands, WatcherHeld, RuntimeHeld, Up, Alone, Early
<1>5. RefsFollow'
  BY DEF RefsFollow
<1>6. Stopping'
  BY <1>1, <1>2 DEF Stopping, Swept, Early
<1>7. Signals'
  BY <1>1, <1>2 DEF Signals, InClosing, Early
<1>8. Follows'
  BY <1>1 DEF Follows
<1>. QED  BY <1>3, <1>4, <1>5, <1>6, <1>7, <1>8

\* A stop by the signal.
LEMMA DevSignalled == ASSUME DevInv, main.at # "crashed", Signalled PROVE DevInv'
<1>1. main \in Commanding
  BY DEF DevInv, DevTyped
<1>. QED  BY <1>1, DevStopBegins DEF Signalled, Workers

\* A stop in the finally.
LEMMA DevFinally == ASSUME DevInv, main.at # "crashed", Finally PROVE DevInv'
<1>1. main \in Commanding
  BY DEF DevInv, DevTyped
<1>2. main' \in Commanding /\ main'.on = main.on /\ main'.at = "final" /\ main.at \notin Early \cup {"ended"}
  BY <1>1 DEF Finally, Early
<1>. QED  BY <1>2, DevStopBegins DEF Finally

\* A stop takes what the fields hold.
LEMMA DevStopTakes == ASSUME DevInv, main.at # "crashed", NEW k \in {"signal", "finally"}, StopTakes(k) PROVE DevInv'
<1>. USE DEF DevInv
<1>1. refs \in [watcher : Workers, runtime : Workers, signal : {0, 1}] /\ stopper \in [{"signal", "finally"} -> StopCall]
      /\ 0 \in Workers
  BY DevFields DEF DevTyped
<1>2. /\ refs' \in [watcher : Workers, runtime : Workers, signal : {0, 1}]
      /\ refs'.watcher = 0 /\ refs'.runtime = 0 /\ refs'.signal = 0
  BY <1>1 DEF StopTakes
<1>3. /\ stopper' \in [{"signal", "finally"} -> StopCall] /\ DOMAIN stopper = {"signal", "finally"} /\ DOMAIN stopper' = DOMAIN stopper
      /\ stopper'[k].at = "closing" /\ stopper'[k].watcher = refs.watcher
      /\ stopper'[k].runtime = refs.runtime /\ stopper'[k].signal = refs.signal
      /\ \A j \in {"signal", "finally"} \ {k} : stopper'[j] = stopper[j]
  BY <1>1 DEF StopTakes
<1>4. stopper[k].at = "waiting" /\ handler = Nobody /\ handler.at = "idle"
      /\ UNCHANGED <<svc, disk, queue, main, handler, revision, halted, verdict, signals, edits, svcFaults, lost>>
  BY DEF StopTakes, Nobody
<1>5. halted
  BY <1>3, <1>4 DEF Stopping, NoStop
<1>6. DevTyped'
  BY <1>2, <1>3, <1>4 DEF DevTyped, Workers
<1>7. AllHeld'
  BY <1>2, <1>3, <1>4 DEF AllHeld, InHands, WatcherHeld, RuntimeHeld, Up, Replacing
<1>8. Alone'
  BY <1>4 DEF Alone, Up
<1>9. RefsFollow'
  BY <1>2, <1>4, DevFields DEF RefsFollow, DevTyped, Replacing, Early
<1>10. Stopping'
  <2>1. lost.signal \in {0, 1}
    BY DEF DevTyped
  <2>2. Swept' /\ refs'.signal <= lost'.signal
    BY <1>2, <1>4, <2>1 DEF Swept
  <2>3. \E j \in DOMAIN stopper' : stopper'[j].at # "idle"
    BY <1>3
  <2>4. \A j \in DOMAIN stopper' : stopper'[j].at = "idle" => stopper'[j] = NoStop
    BY <1>3 DEF Stopping
  <2>. QED  BY <1>4, <1>5, <2>2, <2>3, <2>4 DEF Stopping
<1>11. Signals'
  BY <1>1, <1>2, <1>3, <1>4, <1>5 DEF Signals, InClosing, StopCall
<1>12. Follows'
  BY <1>4, <1>5 DEF Follows
<1>. QED  BY <1>4, <1>6, <1>7, <1>8, <1>9, <1>10, <1>11, <1>12

\* What a stop took has been stopped, in time or by force.
LEMMA DevStopCloses ==
    ASSUME DevInv, main.at # "crashed", NEW k \in {"signal", "finally"}, stopper[k].at = "closing",
           Lessened({stopper[k].watcher, stopper[k].runtime}),
           signals' = signals - stopper[k].signal, stopper' = [stopper EXCEPT ![k].at = "done"],
           verdict' \in {"open", "rejected", "resolved"}, verdict' = "open" => verdict = "open", svcFaults' \in Nat,
           UNCHANGED <<disk, queue, main, handler, refs, revision, halted, edits, lost>>
    PROVE  DevInv'
<1>. USE DEF DevInv
<1> DEFINE ids == {stopper[k].watcher, stopper[k].runtime}
<1>1. /\ svc' \in Seq(Worker) /\ DOMAIN svc' = DOMAIN svc /\ Workers' = Workers
      /\ \A r \in DOMAIN svc : SameFields(r) /\ svc'[r].state = IF r \in ids THEN "gone" ELSE svc[r].state
  BY DEF Lessened
<1>2. \A r \in DOMAIN svc : /\ svc'[r].state # "gone" => svc[r].state # "gone" /\ r \notin ids
                            /\ svc'[r].state = svc[r].state \/ r \in ids
                            /\ svc'[r].kind = svc[r].kind /\ svc'[r].rebuilt = svc[r].rebuilt /\ svc'[r].rev = svc[r].rev
                            /\ svc'[r].seen = svc[r].seen /\ svc'[r].loaded = svc[r].loaded
  BY <1>1 DEF SameFields
<1>3. /\ stopper \in [{"signal", "finally"} -> StopCall] /\ DOMAIN stopper = {"signal", "finally"}
      /\ stopper' \in [{"signal", "finally"} -> StopCall] /\ DOMAIN stopper' = DOMAIN stopper
      /\ stopper'[k].at = "done" /\ stopper'[k] # NoStop
      /\ \A j \in {"signal", "finally"} \ {k} : stopper'[j] = stopper[j]
  BY DEF DevTyped, NoStop
<1>4. halted
  BY <1>3 DEF Stopping, NoStop
<1>5. DevTyped'
  <2>1. \A r \in DOMAIN svc : svc[r].kind = "runtime" => svc[r].rebuilt = <<>>
    BY DevFields
  <2>2. \A r \in DOMAIN svc' : svc'[r].kind = "runtime" => svc'[r].rebuilt = <<>>
    BY <1>1, <1>2, <2>1
  <2>. QED  BY <1>1, <1>3, <2>2 DEF DevTyped
<1>6. AllHeld'
  BY <1>1, <1>2, <1>3 DEF AllHeld, InHands, WatcherHeld, RuntimeHeld, Up
<1>7. Alone'
  BY <1>1, <1>2 DEF Alone, Up
<1>8. RefsFollow'
  <2>1. {refs.watcher, refs.runtime, handler.on} \subseteq DOMAIN svc \cup {0} /\ main.on \in DOMAIN svc
    BY DevFields DEF DevTyped
  <2>. QED  BY <1>1, <1>2, <2>1 DEF RefsFollow
<1>9. Stopping'
  BY <1>3, <1>4 DEF Stopping, Swept
<1>10. Signals'
  BY <1>3, <1>4 DEF Signals, InClosing, DevTyped, Early
<1>11. Follows'
  BY <1>4 DEF Follows
<1>. QED  BY <1>5, <1>6, <1>7, <1>8, <1>9, <1>10, <1>11

\* What the stop took has stopped.
LEMMA DevStopEnds == ASSUME DevInv, main.at # "crashed", NEW k \in {"signal", "finally"}, StopEnds(k) PROVE DevInv'
<1>1. Lessened({stopper[k].watcher, stopper[k].runtime})
  BY WorkersLessened DEF StopEnds, DevInv
<1>2. svcFaults \in Nat /\ verdict \in {"open", "rejected", "resolved"}
  BY DEF DevInv, DevTyped
<1>. QED  BY <1>1, <1>2, DevStopCloses DEF StopEnds

\* It has not stopped in time: the process ends, or the finally goes on.
LEMMA DevStopThrows == ASSUME DevInv, main.at # "crashed", NEW k \in {"signal", "finally"}, StopThrows(k) PROVE DevInv'
<1>. USE DEF DevInv
<1>1. svcFaults' \in Nat /\ verdict \in {"open", "rejected", "resolved"}
  BY DEF DevTyped, StopThrows, ServiceFault
<1>2. CASE k = "signal"
  <2>1. svc' = WithGone(DOMAIN svc) /\ main' = [main EXCEPT !.at = "crashed"] /\ stopper' = [stopper EXCEPT ![k].at = "done"]
        /\ UNCHANGED <<disk, queue, handler, refs, revision, halted, verdict, edits, lost>>
    BY <1>2 DEF StopThrows
  <2>2. Lessened(DOMAIN svc)
    BY <2>1, WorkersLessened
  <2>3. /\ svc' \in Seq(Worker) /\ DOMAIN svc' = DOMAIN svc /\ Workers' = Workers
        /\ \A r \in DOMAIN svc : svc'[r].state = "gone" /\ svc'[r].kind = svc[r].kind /\ svc'[r].rebuilt = svc[r].rebuilt
    BY <2>2 DEF Lessened, SameFields
  <2>4. main' \in Commanding /\ main'.at = "crashed"
    BY <2>1 DEF DevTyped
  <2>5. stopper' \in [{"signal", "finally"} -> StopCall]
    BY <2>1 DEF DevTyped
  <2>6. \A r \in DOMAIN svc' : svc'[r].kind = "runtime" => svc'[r].rebuilt = <<>>
    BY <2>3, DevFields
  <2> HIDE DEF DevInv
  <2>7. DevTyped
    BY DEF DevInv
  <2>8. DevTyped'
    BY <1>1, <2>1, <2>3, <2>4, <2>5, <2>6, <2>7 DEF DevTyped
  <2>. QED  BY <2>3, <2>4, <2>8 DEF DevInv, Up
<1>3. CASE k # "signal"
  <2>1. Lessened({stopper[k].watcher, stopper[k].runtime})
    BY <1>3, WorkersLessened DEF StopThrows
  <2> HIDE DEF DevInv
  <2>. QED  BY <1>1, <1>3, <2>1, DevStopCloses DEF StopThrows
<1>. QED  BY <1>2, <1>3

\* devCommand returns after its stop.
LEMMA DevRunEnds == ASSUME DevInv, main.at # "crashed", RunEnds PROVE DevInv'
<1>. USE DEF DevInv
<1>1. main' \in Commanding /\ main'.at = "ended" /\ main'.on = main.on /\ main.at = "final" /\ stopper["finally"].at = "done"
      /\ UNCHANGED <<svc, disk, queue, handler, stopper, refs, revision, halted, verdict, signals, edits, svcFaults, lost>>
  BY DEF RunEnds, DevTyped
<1>2. halted
  BY <1>1 DEF Stopping, DevTyped, NoStop
<1>3. DevTyped'
  BY <1>1 DEF DevTyped, Workers
<1>4. AllHeld' /\ Alone'
  BY <1>1 DEF AllHeld, InHands, WatcherHeld, RuntimeHeld, Up, Alone
<1>5. RefsFollow' /\ Stopping'
  BY <1>1, <1>2 DEF RefsFollow, Stopping, Swept
<1>6. Signals' /\ Follows'
  BY <1>1, <1>2 DEF Signals, InClosing, Early, Follows
<1>. QED  BY <1>1, <1>3, <1>4, <1>5, <1>6

\* Every step keeps the invariant.
LEMMA DevSteps == DevInv /\ [DevNext]_devVars => DevInv'
<1> SUFFICES ASSUME DevInv, [DevNext]_devVars PROVE DevInv'
  OBVIOUS
<1>1. CASE UNCHANGED devVars
  <2>1. UNCHANGED <<svc, disk, queue, main, handler, stopper, refs, revision, halted, verdict, signals, edits, svcFaults, lost>>
    BY <1>1 DEF devVars
  <2>2. DevTyped => DevTyped'
    BY <2>1 DEF DevTyped, Workers
  <2>3. (AllHeld => AllHeld') /\ (Alone => Alone')
    BY <2>1 DEF AllHeld, InHands, WatcherHeld, RuntimeHeld, Up, Alone
  <2>4. (RefsFollow => RefsFollow') /\ (Stopping => Stopping')
    BY <2>1 DEF RefsFollow, Stopping, Swept
  <2>5. (Signals => Signals') /\ (Follows => Follows')
    BY <2>1 DEF Signals, InClosing, Follows, Following, ReadyAfter, Up
  <2>6. (\A s \in DOMAIN svc : ~Up(s)) => (\A s \in DOMAIN svc : ~Up(s))'
    BY <2>1 DEF Up
  <2>. QED  BY <2>1, <2>2, <2>3, <2>4, <2>5, <2>6 DEF DevInv
<1>2. CASE DevNext
  <2>1. main.at # "crashed" /\ DOMAIN stopper = {"signal", "finally"}
    BY <1>2 DEF DevNext, DevInv, DevTyped
  <2>2. CASE \E s \in DOMAIN svc : WatcherReady(s) \/ Announce(s) \/ ServiceCrashes(s)
                                   \/ \E type \in {"runtime-changed", "plugin-changed"} : Rebuild(s, type)
    BY <2>1, <2>2, DevWatcherReady, DevAnnounce, DevCrashes, DevRebuild DEF Changes
  <2>3. CASE MainStarts
    BY <2>1, <2>3, DevMainStarted, DevMainStartFails, DevMainUnstarted, DevMainWatches DEF MainStarts
  <2>4. CASE HandlerStarts
    BY <2>1, <2>4, DevHandlerStarted, DevHandlerStartFails, DevHandlerUnstarted, DevHandlerWatches DEF HandlerStarts
  <2>5. CASE ConfigEdited \/ TakeEvent
    BY <2>1, <2>5, DevConfigEdited, DevTakeEvent
  <2>9. CASE RuntimeLoaded \/ ReloadFails
    BY <2>1, <2>9, DevRuntimeAnswers DEF RuntimeLoaded, ReloadFails, Loading
  <2>6. CASE RuntimeStopped \/ RuntimeRefuses \/ ReplaceRuntime \/ ReplaceSignal \/ ReplaceWatcher
    BY <2>1, <2>6, DevRuntimeStopped, DevRuntimeRefuses, DevReplaceRuntime, DevReplaceSignal,
       DevReplaceWatcher
  <2>7. CASE Signalled \/ Finally \/ RunEnds
    BY <2>1, <2>7, DevSignalled, DevFinally, DevRunEnds
  <2>8. CASE \E k \in DOMAIN stopper : StopTakes(k) \/ StopEnds(k) \/ StopThrows(k)
    BY <2>1, <2>8, DevStopTakes, DevStopEnds, DevStopThrows
  <2>. QED  BY <1>2, <2>2, <2>3, <2>4, <2>5, <2>6, <2>7, <2>8, <2>9 DEF DevNext
<1>. QED  BY <1>1, <1>2

\* A session begins without a runtime.
LEMMA AnsweringStarts == DevInit => Answering
  BY DEF DevInit, Answering, Nobody, Loading

\* Where only the states of workers, or their announcements, change.
LEMMA AnsweringStays ==
    ASSUME DevInv, Answering, main.at # "crashed", DOMAIN svc' = DOMAIN svc,
           \A r \in DOMAIN svc : svc'[r].kind = svc[r].kind /\ (svc'[r].state # svc[r].state => svc'[r].state # "failed"),
           halted => halted', verdict # "open" => verdict' # "open", refs'.runtime = refs.runtime,
           handler'.at \in Loading => handler'.on = refs.runtime,
           handler'.at # "startRuntime" /\ ~halted /\ verdict' = "open" /\ refs.runtime # 0 =>
               handler.at # "startRuntime" /\ svc'[refs.runtime].state = svc[refs.runtime].state
    PROVE  Answering'
  BY DEF Answering

\* A step of a worker.
LEMMA AnsweringWorks ==
    ASSUME DevInv, Answering, main.at # "crashed", NEW s \in DOMAIN svc,
           \/ WatcherReady(s) \/ Announce(s) \/ ServiceCrashes(s)
           \/ \E type \in Changes : Rebuild(s, type)
    PROVE  Answering'
<1>1. DevTyped /\ RefsFollow /\ Stopping /\ svc[s] \in Worker /\ 0 \notin DOMAIN svc
  BY DevFields DEF DevInv
<1>2. refs.runtime # 0 => svc[refs.runtime].kind = "runtime"
  BY <1>1 DEF RefsFollow
<1>3. CASE WatcherReady(s) \/ Announce(s) \/ \E type \in Changes : Rebuild(s, type)
  <2>1. /\ DOMAIN svc' = DOMAIN svc /\ UNCHANGED <<halted, verdict, refs, handler>>
        /\ \A r \in DOMAIN svc : /\ svc'[r].kind = svc[r].kind /\ (svc'[r].state # svc[r].state => svc'[r].state = "up")
                                 /\ svc[r].kind = "runtime" => svc'[r].state = svc[r].state
    <3>1. svc \in Seq(Worker)
      BY <1>1 DEF DevTyped
    <3>2. CASE WatcherReady(s)
      BY <1>1, <3>1, <3>2 DEF WatcherReady, Worker
    <3>3. CASE Announce(s)
      BY <1>1, <3>1, <3>3 DEF Announce, Worker
    <3>4. CASE \E type \in Changes : Rebuild(s, type)
      BY <1>1, <3>1, <3>4 DEF Rebuild, Worker
    <3>. QED  BY <1>3, <3>2, <3>3, <3>4
  <2>2. refs.runtime # 0 => refs.runtime \in DOMAIN svc
    BY <1>1, DevFields DEF DevTyped
  <2>. QED  BY <1>2, <2>1, <2>2, AnsweringStays DEF Answering
<1>4. CASE ServiceCrashes(s)
  <2>1. Lessened({s})
    BY <1>1, <1>4, WorkersLessened DEF ServiceCrashes
  <2>2. UNCHANGED <<halted, refs, handler>> /\ (verdict # "open" => verdict' # "open")
    BY <1>4 DEF ServiceCrashes, Reject
  <2>3. refs.runtime # 0 => refs.runtime \in DOMAIN svc
    BY <1>1, DevFields DEF DevTyped
  <2>4. s = refs.runtime => ~BeingStopped(s)
    BY <1>1, <1>2 DEF BeingStopped, RefsFollow, Replacing, Early, Stopping, Swept
  <2>5. s = refs.runtime => verdict' # "open"
    BY <1>4, <2>4 DEF ServiceCrashes, Reject
  <2>. QED  BY <2>1, <2>2, <2>3, <2>5, AnsweringStays DEF Lessened, SameFields, Answering
<1>. QED  BY <1>3, <1>4

\* A step of the first start, or of a start by the handler.
LEMMA AnsweringBegins ==
    ASSUME DevInv, Answering, main.at # "crashed", MainStarts \/ HandlerStarts
    PROVE  Answering'
<1>1. DevTyped /\ RefsFollow /\ 0 \notin DOMAIN svc
  BY DevFields DEF DevInv
<1>2. /\ refs.runtime # 0 => svc[refs.runtime].kind = "runtime" /\ refs.runtime \in DOMAIN svc
      /\ svc[main.on].kind = "watcher" /\ (handler.at = "failing" => svc[handler.on].kind = "watcher")
  BY <1>1, DevFields DEF RefsFollow, DevTyped, Early
<1>3. UNCHANGED <<halted, verdict>> /\ refs'.runtime = refs.runtime
  BY <1>1 DEF MainStarts, HandlerStarts, WatcherStarted, WatcherStartFails, FailedWatcherStopped, SignalReady, DevTyped
<1>4. handler' = handler \/ (handler.at \in Early /\ handler'.at \in Early \cup {"idle"})
  BY <1>1 DEF MainStarts, HandlerStarts, WatcherStarted, WatcherStartFails, FailedWatcherStopped, SignalReady, DevTyped,
      Handling, Early, Nobody
<1>5. CASE UNCHANGED svc
  BY <1>2, <1>3, <1>4, <1>5, AnsweringStays DEF Answering, Early, Loading
<1>6. ASSUME NEW s, svc' = WithGone({s}), s # refs.runtime \/ refs.runtime = 0 PROVE Answering'
  <2>1. Lessened({s})
    BY <1>1, <1>6, WorkersLessened
  <2>. QED  BY <1>2, <1>3, <1>4, <1>6, <2>1, AnsweringStays DEF Lessened, SameFields, Answering, Early, Loading
<1>7. CASE FailedWatcherStopped(main) \/ FailedWatcherStopped(handler)
  BY <1>2, <1>6, <1>7 DEF FailedWatcherStopped
<1>. QED  BY <1>5, <1>7 DEF MainStarts, HandlerStarts, WatcherStarted, WatcherStartFails, SignalReady

\* The runtime answers, or is replaced.
LEMMA AnsweringLoads ==
    ASSUME DevInv, Answering, main.at # "crashed",
           TakeEvent \/ RuntimeStopped \/ RuntimeLoaded \/ ReloadFails \/ RuntimeRefuses
    PROVE  Answering'
<1>1. DevTyped /\ RefsFollow /\ 0 \notin DOMAIN svc
  BY DevFields DEF DevInv
<1>2. refs.runtime # 0 => svc[refs.runtime].kind = "runtime" /\ refs.runtime \in DOMAIN svc /\ svc[refs.runtime] \in Worker
  BY <1>1, DevFields DEF RefsFollow, DevTyped
<1>3. main' = main
  BY DEF TakeEvent, RuntimeStopped, RuntimeLoaded, ReloadFails, RuntimeAnswers, RuntimeRefuses
<1>4. CASE TakeEvent
  <2>1. UNCHANGED <<halted, verdict>> /\ handler = Nobody
    BY <1>4 DEF TakeEvent
  <2>2. CASE UNCHANGED <<svc, handler, refs>>
    BY <2>1, <2>2, <1>2, AnsweringStays DEF Answering
  <2>3. CASE refs.runtime # 0 /\ handler' = [Nobody EXCEPT !.at = "reload", !.on = refs.runtime]
             /\ svc' = [svc EXCEPT ![refs.runtime].seen = disk] /\ UNCHANGED refs
    <3>1. /\ DOMAIN svc' = DOMAIN svc
          /\ \A r \in DOMAIN svc : svc'[r].kind = svc[r].kind /\ svc'[r].state = svc[r].state
      BY <1>2, <2>3, DevFields, <1>1 DEF Worker
    <3>2. handler'.at = "reload" /\ handler'.on = refs.runtime /\ handler.at = "idle"
      BY <2>1, <2>3 DEF Nobody
    <3>. QED  BY <1>2, <2>1, <2>3, <3>1, <3>2, AnsweringStays
  <2>4. CASE refs'.runtime = 0 /\ handler'.at \notin Loading /\ UNCHANGED svc
    BY <2>1, <2>4, <1>3 DEF Answering
  <2>5. /\ [refs EXCEPT !.runtime = 0].runtime = 0
        /\ [refs EXCEPT !.runtime = 0, !.watcher = 0].runtime = 0
    BY <1>1 DEF DevTyped
  <2>6. /\ [Nobody EXCEPT !.at = "stopRuntime", !.on = refs.runtime].at \notin Loading
        /\ [at |-> "replaceRuntime", on |-> refs.runtime, prev |-> refs.watcher].at \notin Loading
    BY DEF Nobody, Loading
  <2>. QED  BY <1>4, <2>2, <2>3, <2>4, <2>5, <2>6 DEF TakeEvent
<1>5. CASE RuntimeStopped
  <2>1. refs.runtime = 0
    BY <1>1, <1>5 DEF RuntimeStopped, RefsFollow
  <2>2. CASE svc' = Append(WithGone({handler.on}), Service("runtime")) /\ refs' = [refs EXCEPT !.runtime = NewService]
             /\ handler' = [Nobody EXCEPT !.at = "startRuntime", !.on = NewService]
    <3>1. Succeeded({handler.on}, "runtime", NewService)
      BY <1>1, <2>2, WorkerSucceeded DEF Kinds
    <3>2. refs'.runtime = NewService /\ handler'.on = NewService /\ handler'.at = "startRuntime"
      BY <1>1, <2>2 DEF DevTyped, Nobody
    <3>. QED  BY <3>1, <3>2 DEF Succeeded, SameFields, Answering
  <2>3. CASE svc' = WithGone({handler.on}) /\ handler' = Nobody /\ UNCHANGED refs
    <3>1. Lessened({handler.on})
      BY <1>1, <2>3, WorkersLessened
    <3>2. refs'.runtime = 0 /\ handler'.at \notin Loading
      BY <2>1, <2>3 DEF Nobody, Loading
    <3>3. \A w \in DOMAIN svc' : svc'[w].kind = "watcher" => svc'[w].state # "failed"
      BY <3>1 DEF Lessened, SameFields, Answering
    <3>. QED  BY <3>2, <3>3 DEF Answering
  <2>. QED  BY <1>5, <2>2, <2>3 DEF RuntimeStopped
<1>6. CASE RuntimeLoaded \/ ReloadFails
  <2>1. PICK st \in {"up", "failed"} : handler.at \in Loading /\ RuntimeAnswers(st)
    BY <1>6 DEF RuntimeLoaded, ReloadFails, Loading
  <2>2. handler.on = refs.runtime /\ refs.runtime # 0 /\ handler.on \in DOMAIN svc
    BY <1>1, <1>2, <2>1 DEF Answering, DevTyped
  <2>3. PICK v \in svc[handler.on].seen..disk : svc' = [svc EXCEPT ![handler.on].state = st, ![handler.on].loaded = v]
    BY <2>1 DEF RuntimeAnswers
  <2>4. /\ DOMAIN svc' = DOMAIN svc /\ svc'[handler.on].state = st
        /\ \A r \in DOMAIN svc : svc'[r].kind = svc[r].kind /\ (r # handler.on => svc'[r].state = svc[r].state)
    <3>1. svc \in Seq(Worker) /\ \A r \in DOMAIN svc : svc[r] \in Worker
      BY <1>1, DevFields DEF DevTyped
    <3>. QED  BY <2>2, <2>3, <3>1 DEF Worker
  <2>5. handler'.at = "idle" /\ UNCHANGED <<refs, halted, verdict>>
    BY <2>1 DEF RuntimeAnswers, Nobody
  <2>. QED  BY <1>2, <1>3, <2>1, <2>2, <2>4, <2>5 DEF Answering, Loading
<1>7. CASE RuntimeRefuses
  <2>1. UNCHANGED <<svc, refs, halted>> /\ handler'.at = "idle" /\ verdict' # "open"
    BY <1>7 DEF RuntimeRefuses, Reject, Nobody
  <2>. QED  BY <1>3, <2>1 DEF Answering, Loading
<1>. QED  BY <1>4, <1>5, <1>6, <1>7

\* The watcher is replaced, or all is stopped.
LEMMA AnsweringEnds ==
    ASSUME DevInv, Answering, main.at # "crashed",
           \/ ReplaceRuntime \/ ReplaceSignal \/ ReplaceWatcher \/ Signalled \/ Finally \/ RunEnds \/ ConfigEdited
           \/ \E k \in DOMAIN stopper : StopTakes(k) \/ StopEnds(k) \/ StopThrows(k)
    PROVE  Answering'
<1>1. DevTyped /\ RefsFollow /\ Stopping
  BY DEF DevInv
<1>2. CASE Signalled \/ Finally \/ RunEnds \/ ConfigEdited
  <2>1. UNCHANGED <<svc, refs, handler, verdict>> /\ (halted => halted')
    BY <1>2 DEF Signalled, Finally, RunEnds, ConfigEdited, StopBegins
  <2>. QED  BY <2>1 DEF Answering
<1>3. CASE ReplaceRuntime \/ ReplaceSignal \/ ReplaceWatcher
  <2>1. refs.runtime = 0 /\ refs'.runtime = 0 /\ handler'.at \notin Loading
    <3>1. refs.runtime = 0
      BY <1>1, <1>3 DEF ReplaceRuntime, ReplaceSignal, ReplaceWatcher, RefsFollow, Replacing
    <3>2. refs'.runtime = refs.runtime
      BY <1>1, <1>3 DEF ReplaceRuntime, ReplaceSignal, ReplaceWatcher, DevTyped
    <3>3. handler'.at \notin Loading
      <4>3. \/ handler' = Nobody \/ handler' = [handler EXCEPT !.at = "replaceSignal"]
            \/ handler' = [handler EXCEPT !.at = "replaceWatcher"]
            \/ handler' = [Nobody EXCEPT !.at = "starting", !.on = NewService]
        BY <1>3 DEF ReplaceRuntime, ReplaceSignal, ReplaceWatcher
      <4>5. handler \in Handling
        BY <1>1 DEF DevTyped
      <4>4. handler'.at \in {"idle", "replaceSignal", "replaceWatcher", "starting"}
        <5>1. CASE handler' = Nobody
          BY <5>1 DEF Nobody
        <5>2. CASE handler' = [handler EXCEPT !.at = "replaceSignal"]
          BY <4>5, <5>2 DEF Handling
        <5>3. CASE handler' = [handler EXCEPT !.at = "replaceWatcher"]
          BY <4>5, <5>3 DEF Handling
        <5>4. CASE handler' = [Nobody EXCEPT !.at = "starting", !.on = NewService]
          BY <5>4 DEF Nobody
        <5>. QED  BY <4>3, <5>1, <5>2, <5>3, <5>4
      <4>. QED  BY <4>4 DEF Loading
    <3>. QED  BY <3>1, <3>2, <3>3
  <2>2. UNCHANGED svc \/ \E s : svc' = WithGone({s}) \/ svc' = Append(WithGone({s}), Service("watcher"))
    BY <1>3 DEF ReplaceRuntime, ReplaceSignal, ReplaceWatcher
  <2>3. \A w \in DOMAIN svc' : svc'[w].kind = "watcher" => svc'[w].state # "failed"
    <3>1. CASE UNCHANGED svc
      BY <3>1 DEF Answering
    <3>2. ASSUME NEW s, svc' = WithGone({s}) PROVE \A w \in DOMAIN svc' : svc'[w].kind = "watcher" => svc'[w].state # "failed"
      <4>1. Lessened({s})
        BY <1>1, <3>2, WorkersLessened
      <4>. QED  BY <4>1 DEF Lessened, SameFields, Answering
    <3>3. ASSUME NEW s, svc' = Append(WithGone({s}), Service("watcher")) PROVE \A w \in DOMAIN svc' : svc'[w].kind = "watcher" => svc'[w].state # "failed"
      <4>1. Succeeded({s}, "watcher", NewService)
        BY <1>1, <3>3, WorkerSucceeded DEF Kinds
      <4>. QED  BY <4>1 DEF Succeeded, SameFields, Answering
    <3>. QED  BY <2>2, <3>1, <3>2, <3>3
  <2>. QED  BY <2>1, <2>3 DEF Answering
<1>4. ASSUME NEW k \in DOMAIN stopper, StopTakes(k) \/ StopEnds(k) \/ StopThrows(k) PROVE Answering'
  <2>1. CASE StopTakes(k)
    BY <2>1 DEF StopTakes, Answering, Nobody, Loading
  <2>2. CASE StopEnds(k) \/ StopThrows(k)
    <3>1. halted /\ halted' /\ handler' = handler /\ refs' = refs
      BY <1>1, <2>2 DEF StopEnds, StopThrows, Stopping, NoStop
    <3>2. \E ids : svc' = WithGone(ids)
      BY <2>2 DEF StopEnds, StopThrows
    <3>3. PICK ids : Lessened(ids)
      BY <1>1, <3>2, WorkersLessened
    <3>. QED  BY <3>1, <3>3 DEF Lessened, SameFields, Answering
  <2>. QED  BY <1>4, <2>1, <2>2
<1>. QED  BY <1>2, <1>3, <1>4

\* Every step keeps it.
LEMMA AnsweringSteps == DevInv /\ Answering /\ [DevNext]_devVars => Answering'
<1> SUFFICES ASSUME DevInv, Answering, [DevNext]_devVars PROVE Answering'
  OBVIOUS
<1>1. CASE UNCHANGED devVars
  BY <1>1 DEF devVars, Answering
<1>2. CASE DevNext
  BY <1>2, AnsweringWorks, AnsweringBegins, AnsweringLoads, AnsweringEnds DEF DevNext, Changes
<1>. QED  BY <1>1, <1>2

\* A dev session that has come to rest runs the code on disk or reports
\* that it could not load it, watches its config, never runs two watchers
\* or two runtimes, and leaves nothing behind when it ends, for any number
\* of rebuilds, config changes, services and faults.
THEOREM DevSessionsAreSound == DevSpec => []DevSessionSound
<1>1. DevSpec => [](DevInv /\ Answering)
  BY DevStarts, DevSteps, AnsweringStarts, AnsweringSteps, PTL DEF DevSpec
<1>. QED  BY <1>1, DevMeans, PTL

HIDE DEF Handling, Commanding, StopCall

-----------------------------------------------------------------------------
(* The dependency container.                                               *)

Item == [inj : Injectables \cup {0}, at : Containers \cup {0},
         state : {"none", "resolving", "live", "disposing", "disposed"}, held : BOOLEAN,
         wait : SUBSET Instances, uses : SUBSET Instances, byHand : BOOLEAN]
Phase == [phase : {"open", "settling", "disposing"}, todo : SUBSET Injectables, now : SUBSET Instances]
Made == {"live", "disposing", "disposed"}

\* An alias has a smaller number than what it is provided for.
ContTyped ==
    /\ item \in [Instances -> Item]
    /\ DOMAIN provisions = Containers
    /\ \A c \in Containers, i \in Injectables :
         provisions[c][i] \in {NoProvision, Value} \/ (provisions[c][i] \in Injectables /\ provisions[c][i] < i)
    /\ \A c \in Containers : DOMAIN provisions[c] = Injectables
    /\ DOMAIN edges = Containers
    /\ disposing \in [Containers -> BOOLEAN]
    /\ closing \in [Containers -> Phase]
    /\ \A m \in manual : m.at \in Containers /\ m.inj \in Injectables /\ m.hs \subseteq Instances
    /\ dropped \subseteq Instances
    /\ asked \subseteq Containers \X Injectables \X (Instances \cup {NoOne})

\* Whose dependencies must be kept: a resolution, or an instance held.
Counts(g) == item[g].state = "resolving" \/ item[g].held

\* What the state of an instance says of its other fields.
ItemOk(h) ==
    /\ item[h].state = "none" => item[h] = Blank
    /\ item[h].state # "none" => item[h].inj \in Injectables /\ item[h].at \in Containers
    /\ item[h].state = "resolving" => ~item[h].held
    /\ item[h].wait # {} => item[h].state = "resolving"
    /\ item[h].state = "live" /\ Tracked(item[h].inj) => item[h].held \/ h \in dropped
    /\ item[h].held /\ item[h].state = "disposed" => Transient(item[h].inj)
    /\ item[h].state = "disposing" => item[h].byHand \/ h \in closing[item[h].at].now

\* g waits for or uses h: h has a smaller number and, in g's own container, an
\* edge that keeps it until g is disposed.
LinkOk(g, h) ==
    /\ h \in item[g].wait => item[h].state = "resolving"
    /\ h \in item[g].uses => item[h].state \in Made
    /\ h \in item[g].wait \cup item[g].uses => item[h].inj < item[g].inj
    /\ Counts(g) /\ item[h].at = item[g].at =>
         /\ h \in item[g].wait \cup item[g].uses => <<item[h].inj, item[g].inj>> \in edges[item[g].at]
         /\ h \in item[g].uses => item[h].state = "live" \/ item[h].byHand

Items == \A h \in Instances : ItemOk(h)
Links == \A g, h \in Instances : LinkOk(g, h)

\* Two of a cached injectable in one container are the same, unless one was
\* dropped.
Once ==
    \A g, h \in Instances \ dropped :
        /\ {item[g].state, item[h].state} \subseteq {"resolving", "live"}
        /\ item[g].at = item[h].at /\ item[g].inj = item[h].inj /\ ~Transient(item[g].inj)
        => g = h

\* The manual disposals under way.
ByHand ==
    \A m \in manual : \A h \in m.hs :
        item[h].byHand /\ item[h].inj = m.inj /\ item[h].state \in {"disposing", "disposed"}

\* A container being disposed resolves nothing, and what it still holds is in
\* the order or being disposed.
PhaseOk(c) ==
    /\ disposing[c] <=> closing[c].phase # "open"
    /\ closing[c].phase # "disposing" => closing[c].todo = {} /\ closing[c].now = {}
    /\ \A h \in closing[c].now : /\ item[h].at = c /\ item[h].state \in {"disposing", "disposed"}
                                 /\ item[h].inj \notin closing[c].todo
    /\ closing[c].phase = "disposing" =>
         \A h \in Instances : item[h].at = c =>
            /\ item[h].state # "resolving"
            /\ item[h].held => item[h].inj \in closing[c].todo \/ h \in closing[c].now

Phases == \A c \in Containers : PhaseOk(c)

\* A request is made by a resolution in flight, for a smaller number.
Requests ==
    \A r \in asked : r[3] # NoOne => item[r[3]].state = "resolving" /\ r[2] < item[r[3]].inj

ContInv == ContTyped /\ Items /\ Links /\ Once /\ ByHand /\ Phases /\ Requests

-----------------------------------------------------------------------------
\* Nothing exists and nothing is asked for at first.
LEMMA ContInitial == ASSUME ContInit PROVE ContInv
  <1> USE ContainerAssumption
  <1>1. ContTyped
    BY DEF ContInit, ContTyped, Item, Phase, Blank, NoOne
  <1>2. Items
    BY DEF ContInit, Items, ItemOk, Blank
  <1>3. Links
    BY DEF ContInit, Links, LinkOk, Counts, Blank
  <1>4. Once
    BY DEF ContInit, Once, Blank
  <1>5. ByHand /\ Phases /\ Requests
    BY DEF ContInit, ByHand, Phases, PhaseOk, Requests, Blank
  <1> QED BY <1>1, <1>2, <1>3, <1>4, <1>5 DEF ContInv

\* A request from outside has no dependant behind it.
LEMMA ResolveKeepsContInv ==
    ASSUME ContInv, NEW c \in Containers, NEW i \in Injectables, Resolve(c, i) PROVE ContInv'
  <1>1. ContTyped'
    BY DEF ContInv, Resolve, ContTyped, NoOne
  <1>2. Items' /\ Links' /\ Once' /\ ByHand' /\ Phases'
    BY DEF ContInv, Resolve, Items, ItemOk, Links, LinkOk, Counts, Once, ByHand, Phases, PhaseOk
  <1>3. Requests'
    BY DEF Resolve, Requests
  <1> QED BY <1>1, <1>2, <1>3 DEF ContInv

\* Requests that go on or are answered leave the instances as they are.
LEMMA RequestsOnly ==
    ASSUME ContInv, UNCHANGED <<item, provisions, edges, disposing, closing, manual, dropped>>,
           asked' \subseteq Containers \X Injectables \X (Instances \cup {NoOne}), Requests'
    PROVE  ContInv'
  <1>1. ContTyped'
    BY DEF ContInv, ContTyped
  <1>2. Items' /\ Links' /\ Once' /\ ByHand' /\ Phases'
    BY DEF ContInv, Items, ItemOk, Links, LinkOk, Counts, Once, ByHand, Phases, PhaseOk
  <1> QED BY <1>1, <1>2 DEF ContInv

-----------------------------------------------------------------------------
\* The resolution itself waits for it.
LEMMA WaitsForItself == ASSUME NEW h \in Instances PROVE h \in Waiting(h)
  BY DEF Waiting

\* Who waits for someone who waits for h, waits for h.
LEMMA WaitingIsClosed ==
    ASSUME NEW h \in Instances, NEW g \in Instances, NEW x \in Instances,
           x \in item[g].wait, x \in Waiting(h)
    PROVE  g \in Waiting(h)
  <1> SUFFICES ASSUME NEW S \in SUBSET Instances, h \in S,
                      \A y \in Instances : item[y].wait \cap S # {} => y \in S
               PROVE  g \in S
    BY DEF Waiting
  <1>1. x \in S
    BY DEF Waiting
  <1> QED BY <1>1

\* Besides h itself, only resolutions with something to wait for are waiting.
LEMMA WaitingWaits ==
    ASSUME NEW h \in Instances, NEW g \in Waiting(h) PROVE g \in Instances /\ (g = h \/ item[g].wait # {})
  <1> DEFINE S == {h} \cup {x \in Instances : item[x].wait # {}}
  <1>1. S \in SUBSET Instances /\ h \in S
    OBVIOUS
  <1>2. \A x \in Instances : item[x].wait \cap S # {} => x \in S
    OBVIOUS
  <1>3. g \in Instances /\ g \in S
    BY <1>1, <1>2 DEF Waiting
  <1> QED BY <1>3

\* A rejection takes only resolutions in flight.
LEMMA RejectedWereResolving ==
    ASSUME ContInv, NEW h \in Instances, item[h].state = "resolving", NEW g \in Waiting(h)
    PROVE  g \in Instances /\ item[g].state = "resolving"
  BY WaitingWaits DEF ContInv, Items, ItemOk

\* What a rejection takes is not waited for any more, was used by nobody, and
\* no disposal was about it.
LEMMA RejectionKeepsContInv ==
    ASSUME ContInv, NEW h \in Instances, item[h].state = "resolving",
           item' = ResolutionRejected(h),
           UNCHANGED <<provisions, edges, disposing, closing, manual, dropped>>,
           asked' \subseteq Containers \X Injectables \X (Instances \cup {NoOne}),
           \A r \in asked' : r[3] # NoOne => r \in asked /\ r[3] \in Instances \ Waiting(h)
    PROVE  ContInv'
  <1> DEFINE W == Waiting(h)
  <1>1. \A g \in W : g \in Instances /\ item[g].state = "resolving"
    BY RejectedWereResolving
  <1>2. \A g, x \in Instances : x \in item[g].wait /\ x \in W => g \in W
    BY WaitingIsClosed
  <1>3. \A g \in Instances : item'[g] = IF g \in W THEN Blank ELSE item[g]
    BY DEF ResolutionRejected
  <1>4. Blank \in Item
    BY DEF Blank, Item
  <1>5. item' \in [Instances -> Item]
    BY <1>4 DEF ResolutionRejected, ContInv, ContTyped
  <1> HIDE DEF W
  <1>6. ContTyped'
    BY <1>5 DEF ContInv, ContTyped
  <1>7. Items'
    BY <1>3 DEF ContInv, Items, ItemOk, Blank
  <1>8. Links'
    <2> SUFFICES ASSUME NEW g \in Instances, NEW x \in Instances PROVE LinkOk(g, x)'
      BY DEF Links
    <2>1. CASE g \in W
      BY <1>3, <2>1 DEF LinkOk, Counts, Blank
    <2>2. CASE g \notin W
      <3>1. LinkOk(g, x) /\ item'[g] = item[g]
        BY <1>3, <2>2 DEF ContInv, Links
      <3>2. CASE x \in W
        <4>1. x \notin item[g].wait /\ x \notin item[g].uses
          BY <1>1, <1>2, <2>2, <3>1, <3>2 DEF LinkOk, Made
        <4> QED BY <3>1, <4>1 DEF LinkOk
      <3>3. CASE x \notin W
        BY <1>3, <3>1, <3>3 DEF LinkOk, Counts
      <3> QED BY <3>2, <3>3
    <2> QED BY <2>1, <2>2
  <1>9. Once'
    BY <1>3 DEF ContInv, Once, Blank
  <1>10. ByHand'
    BY <1>1, <1>3 DEF ContInv, ContTyped, ByHand
  <1>11. Phases'
    <2> SUFFICES ASSUME NEW c \in Containers PROVE PhaseOk(c)'
      BY DEF Phases
    <2>1. PhaseOk(c) /\ closing[c].now \subseteq Instances /\ c # 0
      BY ContainerAssumption DEF ContInv, Phases, ContTyped, Phase
    <2>2. \A x \in closing[c].now : item'[x].at = c /\ item'[x].state \in {"disposing", "disposed"}
      BY <1>1, <1>3, <2>1 DEF PhaseOk
    <2>3. \A x \in Instances : item'[x].at = c => item'[x] = item[x]
      BY <1>3, <2>1 DEF Blank
    <2> QED BY <2>1, <2>2, <2>3 DEF PhaseOk
  <1>12. Requests'
    BY <1>3 DEF ContInv, Requests, W
  <1> QED BY <1>6, <1>7, <1>8, <1>9, <1>10, <1>11, <1>12 DEF ContInv

-----------------------------------------------------------------------------
\* What a request finds to share is being resolved, or live, or being disposed
\* by hand: disposing containers answer nobody.
LEMMA SharedIsUsable ==
    ASSUME ContInv, NEW c \in Containers, NEW i \in Injectables, ~disposing[c], NEW h \in Shared(c, i)
    PROVE  /\ h \in Instances /\ item[h].at = c /\ item[h].inj = i
           /\ item[h].held => item[h].state \in Made /\ (item[h].state = "live" \/ item[h].byHand)
           /\ ~item[h].held => item[h].state = "resolving"
  <1>1. ~Transient(i) /\ h \in Instances /\ item[h].at = c /\ item[h].inj = i
        /\ (item[h].held \/ item[h].state = "resolving")
    BY DEF Shared, HeldOf, ResolvingOf, Of, InFlight
  <1>2. ItemOk(h) /\ PhaseOk(c) /\ item[h].state \in {"none", "resolving", "live", "disposing", "disposed"}
    BY <1>1 DEF ContInv, Items, Phases, ContTyped, Item
  <1>3. closing[c].now = {}
    BY <1>2 DEF PhaseOk
  <1> QED BY <1>1, <1>2, <1>3 DEF ItemOk, Made, Blank

\* The edge from what was found to who asked for it.
Noted(c, i, who) ==
    edges' = IF who = NoOne THEN edges ELSE [edges EXCEPT ![c] = @ \cup {<<i, item[who].inj>>}]

\* Edges are only added.
LEMMA NotedAdds ==
    ASSUME ContInv, NEW c \in Containers, NEW i, NEW who, Noted(c, i, who)
    PROVE  /\ DOMAIN edges' = Containers
           /\ \A b \in Containers : edges[b] \subseteq edges'[b]
           /\ who # NoOne => <<i, item[who].inj>> \in edges'[c]
  BY DEF Noted, ContInv, ContTyped

\* The dependant gets the instance, or waits for it.
Given(who, h) ==
    item' = IF who = NoOne THEN item
            ELSE IF item[h].held THEN [item EXCEPT ![who].uses = @ \cup {h}]
            ELSE [item EXCEPT ![who].wait = @ \cup {h}]

\* The dependant asked for something with a smaller number, so sharing it keeps
\* the links in order.
LEMMA ShareKeepsContInv ==
    ASSUME ContInv, NEW c \in Containers, NEW i \in Injectables, NEW who \in Instances \cup {NoOne},
           <<c, i, who>> \in asked, ~disposing[c],
           NEW h \in Shared(c, i), Given(who, h), Noted(c, i, who), asked' \subseteq asked,
           UNCHANGED <<provisions, disposing, closing, manual, dropped>>
    PROVE  ContInv'
  <1>1. /\ h \in Instances /\ item[h].at = c /\ item[h].inj = i
        /\ item[h].held => item[h].state \in Made /\ (item[h].state = "live" \/ item[h].byHand)
        /\ ~item[h].held => item[h].state = "resolving"
    BY SharedIsUsable
  <1>2. /\ DOMAIN edges' = Containers
        /\ \A b \in Containers : edges[b] \subseteq edges'[b]
        /\ who # NoOne => <<i, item[who].inj>> \in edges'[c]
    BY NotedAdds
  <1>3. who # NoOne => who \in Instances /\ item[who].state = "resolving" /\ i < item[who].inj
    BY DEF ContInv, Requests
  <1>f. item \in [Instances -> Item]
    BY DEF ContInv, ContTyped
  <1>e. /\ who = NoOne => item' = item
        /\ who # NoOne /\ item[h].held =>
             item' = [item EXCEPT ![who] = [item[who] EXCEPT !.uses = item[who].uses \cup {h}]]
        /\ who # NoOne /\ ~item[h].held =>
             item' = [item EXCEPT ![who] = [item[who] EXCEPT !.wait = item[who].wait \cup {h}]]
    BY <1>3, <1>f DEF Given, Item
  <1>4. item' \in [Instances -> Item]
    BY <1>1, <1>3, <1>e, <1>f DEF Item
  <1>5. \A g \in Instances :
          /\ item'[g].inj = item[g].inj /\ item'[g].at = item[g].at /\ item'[g].state = item[g].state
          /\ item'[g].held = item[g].held /\ item'[g].byHand = item[g].byHand
          /\ g # who => item'[g] = item[g]
    BY <1>3 DEF Given, ContInv, ContTyped, Item
  <1>6. \A g, x \in Instances :
          /\ x \in item'[g].wait => x \in item[g].wait \/ (g = who /\ x = h /\ who # NoOne /\ ~item[h].held)
          /\ x \in item'[g].uses => x \in item[g].uses \/ (g = who /\ x = h /\ who # NoOne /\ item[h].held)
    BY <1>1, <1>3, <1>e, <1>f DEF Item
  <1>7. ContTyped'
    BY <1>2, <1>4 DEF ContInv, ContTyped
  <1>8. Items'
    <2> SUFFICES ASSUME NEW g \in Instances PROVE ItemOk(g)'
      BY DEF Items
    <2>1. ItemOk(g)
      BY DEF ContInv, Items
    <2>2. CASE g = who /\ who # NoOne
      BY <1>3, <1>5, <2>1, <2>2 DEF ItemOk
    <2>3. CASE item'[g] = item[g]
      BY <2>1, <2>3 DEF ItemOk
    <2> QED BY <1>5, <2>2, <2>3, ContainerAssumption DEF NoOne
  <1>9. Links'
    <2> SUFFICES ASSUME NEW g \in Instances, NEW x \in Instances PROVE LinkOk(g, x)'
      BY DEF Links
    <2>1. LinkOk(g, x) /\ item[g].at \in Containers \cup {0}
      BY DEF ContInv, Links, ContTyped, Item
    <2>2. Counts(g)' => Counts(g)
      BY <1>5 DEF Counts
    <2>3. Counts(g) => item[g].at \in Containers
      BY DEF Counts, ContInv, Items, ItemOk, Blank
    <2>4. CASE g = who /\ x = h /\ who # NoOne
      BY <1>1, <1>2, <1>3, <1>5, <1>6, <2>1, <2>2, <2>3, <2>4 DEF LinkOk
    <2>5. CASE ~(g = who /\ x = h /\ who # NoOne)
      BY <1>2, <1>5, <1>6, <2>1, <2>2, <2>3, <2>5 DEF LinkOk
    <2> QED BY <2>4, <2>5
  <1>10. Once'
    BY <1>5 DEF ContInv, Once
  <1>11. ByHand'
    BY <1>5 DEF ContInv, ContTyped, ByHand
  <1>12. Phases'
    <2> SUFFICES ASSUME NEW b \in Containers PROVE PhaseOk(b)'
      BY DEF Phases
    <2>1. PhaseOk(b) /\ closing[b].now \subseteq Instances
      BY DEF ContInv, Phases, ContTyped, Phase
    <2> QED BY <1>5, <2>1 DEF PhaseOk
  <1>13. Requests'
    BY <1>5 DEF ContInv, ContTyped, Requests
  <1> QED BY <1>7, <1>8, <1>9, <1>10, <1>11, <1>12, <1>13 DEF ContInv

\* A new resolution, and who asked for it waiting.
NewResolution(c, i, who, n) ==
    /\ item' \in [Instances -> Item]
    /\ item'[n] = [Blank EXCEPT !.inj = i, !.at = c, !.state = "resolving"]
    /\ who # NoOne => item'[who] = [item[who] EXCEPT !.wait = item[who].wait \cup {n}]
    /\ \A g \in Instances : g # n /\ g # who => item'[g] = item[g]

\* Nothing of the injectable was there, so the new resolution is the only one.
LEMMA StartKeepsContInv ==
    ASSUME ContInv, NEW c \in Containers, NEW i \in Injectables, NEW who \in Instances \cup {NoOne},
           <<c, i, who>> \in asked, ~disposing[c], Shared(c, i) = {},
           NEW n \in Free, NewResolution(c, i, who, n), Noted(c, i, who),
           asked' \subseteq asked \cup {<<c, d, n>> : d \in Deps[i]},
           UNCHANGED <<provisions, disposing, closing, manual, dropped>>
    PROVE  ContInv'
  <1>0. /\ n \in Instances /\ item[n].state = "none" /\ item[n] = Blank
        /\ c # 0 /\ 0 \notin Instances /\ \A d \in Deps[i] : d \in Injectables /\ d < i
    BY ContainerAssumption DEF Free, ContInv, Items, ItemOk
  <1>1. /\ DOMAIN edges' = Containers
        /\ \A b \in Containers : edges[b] \subseteq edges'[b]
        /\ who # NoOne => <<i, item[who].inj>> \in edges'[c]
    BY NotedAdds
  <1>2. who # NoOne => who \in Instances /\ item[who].state = "resolving" /\ i < item[who].inj /\ who # n
    BY <1>0 DEF ContInv, Requests
  <1>3. /\ item'[n].inj = i /\ item'[n].at = c /\ item'[n].state = "resolving" /\ ~item'[n].held
        /\ item'[n].wait = {} /\ item'[n].uses = {} /\ ~item'[n].byHand
    BY DEF NewResolution, Blank
  <1>4. \A g \in Instances : g # n =>
          /\ item'[g].inj = item[g].inj /\ item'[g].at = item[g].at /\ item'[g].state = item[g].state
          /\ item'[g].held = item[g].held /\ item'[g].byHand = item[g].byHand
          /\ item'[g].uses = item[g].uses
          /\ g # who => item'[g] = item[g]
    BY <1>0, <1>2 DEF NewResolution, NoOne, ContInv, ContTyped, Item
  <1>5. \A g, x \in Instances : g # n /\ x \in item'[g].wait => 
          x \in item[g].wait \/ (g = who /\ x = n /\ who # NoOne)
    BY <1>0, <1>2 DEF NewResolution, NoOne, ContInv, ContTyped, Item
  <1>6. ContTyped'
    <2>1. asked' \subseteq Containers \X Injectables \X (Instances \cup {NoOne})
      BY <1>0 DEF ContInv, ContTyped
    <2> QED BY <1>1, <2>1 DEF ContInv, ContTyped, NewResolution
  <1>7. Items'
    <2> SUFFICES ASSUME NEW g \in Instances PROVE ItemOk(g)'
      BY DEF Items
    <2>1. ItemOk(g)
      BY DEF ContInv, Items
    <2>2. CASE g = n
      BY <1>3, <2>2 DEF ItemOk
    <2>3. CASE g # n /\ g = who
      BY <1>0, <1>2, <1>4, <2>1, <2>3 DEF ItemOk, NoOne
    <2>4. CASE item'[g] = item[g]
      BY <2>1, <2>4 DEF ItemOk
    <2> QED BY <1>4, <2>2, <2>3, <2>4
  <1>8. Links'
    <2> SUFFICES ASSUME NEW g \in Instances, NEW x \in Instances PROVE LinkOk(g, x)'
      BY DEF Links
    <2>1. LinkOk(g, x) /\ LinkOk(g, n)
      BY <1>0 DEF ContInv, Links
    <2>2. g # n /\ Counts(g)' => Counts(g)
      BY <1>4 DEF Counts
    <2>3. Counts(g) => item[g].at \in Containers
      BY DEF Counts, ContInv, Items, ItemOk, Blank
    <2>4. CASE g = n
      BY <1>3, <2>4 DEF LinkOk
    <2>5. CASE g # n /\ x = n
      <3>1. n \notin item[g].wait /\ n \notin item[g].uses
        BY <1>0, <2>1 DEF LinkOk, Made
      <3>2. n \notin item'[g].uses /\ (n \in item'[g].wait => g = who /\ who # NoOne)
        BY <1>0, <1>4, <1>5, <2>5, <3>1
      <3> QED BY <1>1, <1>2, <1>3, <1>4, <2>5, <3>2 DEF LinkOk
    <2>6. CASE g # n /\ x # n
      BY <1>1, <1>4, <1>5, <2>1, <2>2, <2>3, <2>6 DEF LinkOk
    <2> QED BY <2>4, <2>5, <2>6
  <1>9. Once'
    <2>1. \A g \in Instances \ dropped :
            ~(item[g].state \in {"resolving", "live"} /\ item[g].at = c /\ item[g].inj = i /\ ~Transient(i))
      <3> SUFFICES ASSUME NEW g \in Instances \ dropped, item[g].state \in {"resolving", "live"},
                          item[g].at = c, item[g].inj = i, ~Transient(i)
                   PROVE  FALSE
        OBVIOUS
      <3>1. item[g].state = "live" => item[g].held
        BY DEF ContInv, Items, ItemOk, Tracked
      <3>2. g \in Shared(c, i)
        BY <3>1 DEF Shared, HeldOf, ResolvingOf, Of, InFlight
      <3> QED BY <3>2
    <2> SUFFICES ASSUME NEW g \in Instances \ dropped, NEW h \in Instances \ dropped,
                        {item'[g].state, item'[h].state} \subseteq {"resolving", "live"},
                        item'[g].at = item'[h].at, item'[g].inj = item'[h].inj, ~Transient(item'[g].inj)
                 PROVE  g = h
      BY DEF Once, Transient
    <2>2. CASE g # n /\ h # n
      BY <1>4, <2>2 DEF ContInv, Once
    <2>3. CASE g = n \/ h = n
      BY <1>3, <1>4, <2>1, <2>3
    <2> QED BY <2>2, <2>3
  <1>10. ByHand'
    BY <1>0, <1>4 DEF ContInv, ContTyped, ByHand
  <1>11. Phases'
    <2> SUFFICES ASSUME NEW b \in Containers PROVE PhaseOk(b)'
      BY DEF Phases
    <2>1. PhaseOk(b) /\ closing[b].now \subseteq Instances
      BY DEF ContInv, Phases, ContTyped, Phase
    <2>2. n \notin closing[b].now
      BY <1>0, <2>1 DEF PhaseOk
    <2>3. b = c => closing[b].phase # "disposing"
      BY <2>1 DEF PhaseOk
    <2> QED BY <1>3, <1>4, <2>1, <2>2, <2>3 DEF PhaseOk
  <1>12. Requests'
    <2> SUFFICES ASSUME NEW r \in asked', r[3] # NoOne
                 PROVE  item'[r[3]].state = "resolving" /\ r[2] < item'[r[3]].inj
      BY DEF Requests
    <2>1. CASE r \in asked
      <3>1. r[3] \in Instances /\ item[r[3]].state = "resolving" /\ r[2] < item[r[3]].inj
        BY <2>1 DEF ContInv, ContTyped, Requests
      <3> QED BY <1>0, <1>4, <3>1
    <2>2. CASE r \in {<<c, d, n>> : d \in Deps[i]}
      BY <1>0, <1>3, <2>2
    <2> QED BY <2>1, <2>2
  <1> QED BY <1>6, <1>7, <1>8, <1>9, <1>10, <1>11, <1>12 DEF ContInv

\* One call of resolveInjectable, case by case.
LEMMA AnswerKeepsContInv ==
    ASSUME ContInv, NEW r \in asked, AnswerRequest(r) PROVE ContInv'
  <1> DEFINE c == r[1]
  <1> DEFINE i == r[2]
  <1> DEFINE who == r[3]
  <1> DEFINE given == provisions[c][i]
  <1> DEFINE open == asked \ {r}
  <1>1. /\ c \in Containers /\ i \in Injectables /\ who \in Instances \cup {NoOne} /\ r = <<c, i, who>>
        /\ asked \subseteq Containers \X Injectables \X (Instances \cup {NoOne})
        /\ Injectables \subseteq Nat /\ Containers \subseteq Nat
    BY ContainerAssumption DEF ContInv, ContTyped
  <1>2. who # NoOne => who \in Instances /\ item[who].state = "resolving" /\ i < item[who].inj /\ item[who].inj \in Nat
    <2> SUFFICES ASSUME who # NoOne PROVE who \in Instances /\ item[who].state = "resolving" /\ i < item[who].inj /\ item[who].inj \in Nat
      OBVIOUS
    <2>1. who \in Instances /\ item[who] \in Item
      BY <1>1 DEF ContInv, ContTyped
    <2>2. item[who].state = "resolving" /\ i < item[who].inj
      BY DEF ContInv, Requests
    <2>3. item[who].inj \in Nat
      <3>1. item[who].inj \in Injectables \cup {0}
        BY <2>1 DEF Item
      <3>2. Injectables \cup {0} \subseteq Nat
        BY ContainerAssumption
      <3> QED BY <3>1, <3>2
    <2> QED BY <2>1, <2>2, <2>3
  <1>3. UNCHANGED <<provisions, disposing, closing, manual, dropped>>
    BY DEF AnswerRequest
  <1>4. CASE asked' = open /\ UNCHANGED <<item, edges>>
    <2>1. Requests'
      BY <1>4 DEF ContInv, Requests
    <2> QED BY <1>1, <1>3, <1>4, <2>1, RequestsOnly
  <1>5. CASE given \notin {NoProvision, Value} /\ asked' = open \cup {<<c, given, who>>} /\ UNCHANGED <<item, edges>>
    <2>1. given \in Injectables /\ given < i
      BY <1>1, <1>5 DEF ContInv, ContTyped
    <2>2. Requests'
      <3> SUFFICES ASSUME NEW q \in asked', q[3] # NoOne
                   PROVE  item'[q[3]].state = "resolving" /\ q[2] < item'[q[3]].inj
        BY DEF Requests
      <3>1. CASE q \in asked
        BY <1>5, <3>1 DEF ContInv, Requests
      <3>2. CASE q = <<c, given, who>>
        <4>1. q[2] = given /\ q[3] = who
          BY <3>2
        <4>2. given \in Nat /\ i \in Nat
          BY <1>1, <2>1
        <4> HIDE DEF given, i, who
        <4>3. given < item[who].inj
          BY <1>2, <2>1, <3>2, <4>1, <4>2
        <4> QED BY <1>2, <1>5, <4>1, <4>3
      <3> QED BY <1>5, <3>1, <3>2
    <2>3. asked' \subseteq Containers \X Injectables \X (Instances \cup {NoOne})
      BY <1>1, <1>5, <2>1
    <2> QED BY <1>3, <1>5, <2>2, <2>3, RequestsOnly
  <1>6. CASE Delegates(c, i) /\ asked' = open \cup {<<c - 1, i, who>>} /\ UNCHANGED <<item, edges>>
    <2>1. c - 1 \in Containers
      BY <1>1, <1>6, ContainerAssumption DEF Delegates
    <2>2. Requests'
      BY <1>1, <1>2, <1>6 DEF ContInv, Requests
    <2>3. asked' \subseteq Containers \X Injectables \X (Instances \cup {NoOne})
      BY <1>1, <1>6, <2>1
    <2> QED BY <1>3, <1>6, <2>2, <2>3, RequestsOnly
  <1>7. CASE \E h \in Shared(c, i) : ~disposing[c] /\ Given(who, h) /\ Noted(c, i, who) /\ asked' = open
    BY <1>1, <1>3, <1>7, ShareKeepsContInv
  <1>8. CASE \E n \in Free : /\ ~disposing[c] /\ Shared(c, i) = {}
                             /\ item' = [(IF who = NoOne THEN item
                                          ELSE IF item[n].held THEN [item EXCEPT ![who].uses = @ \cup {n}]
                                          ELSE [item EXCEPT ![who].wait = @ \cup {n}]) EXCEPT ![n] =
                                  [Blank EXCEPT !.inj = i, !.at = c, !.state = "resolving"]]
                             /\ Noted(c, i, who) /\ asked' = open \cup {<<c, d, n>> : d \in Deps[i]}
    <2>1. PICK n \in Free : /\ ~disposing[c] /\ Shared(c, i) = {}
                             /\ item' = [(IF who = NoOne THEN item
                                          ELSE IF item[n].held THEN [item EXCEPT ![who].uses = @ \cup {n}]
                                          ELSE [item EXCEPT ![who].wait = @ \cup {n}]) EXCEPT ![n] =
                                  [Blank EXCEPT !.inj = i, !.at = c, !.state = "resolving"]]
                             /\ Noted(c, i, who) /\ asked' = open \cup {<<c, d, n>> : d \in Deps[i]}
      BY <1>8
    <2>2. n \in Instances /\ ~item[n].held /\ item[n].state = "none"
      BY DEF Free, ContInv, Items, ItemOk, Blank
    <2>3. who # NoOne => who # n
      BY <1>2, <2>2
    <2>4. [Blank EXCEPT !.inj = i, !.at = c, !.state = "resolving"] \in Item
      BY <1>1 DEF Blank, Item
    <2>5. who # NoOne => [item[who] EXCEPT !.wait = item[who].wait \cup {n}] \in Item
      BY <1>2, <2>2 DEF ContInv, ContTyped, Item
    <2>7. item \in [Instances -> Item] /\ 0 \notin Instances
      BY ContainerAssumption DEF ContInv, ContTyped
    <2>6. item' = [(IF who = NoOne THEN item
                    ELSE [item EXCEPT ![who] = [item[who] EXCEPT !.wait = item[who].wait \cup {n}]]) EXCEPT ![n] =
                   [Blank EXCEPT !.inj = i, !.at = c, !.state = "resolving"]]
      <3> HIDE DEF c, i, who
      <3> QED BY <1>2, <2>1, <2>2, <2>7 DEF Item
    <2>8. NewResolution(c, i, who, n)
      <3> HIDE DEF c, i, who
      <3>1. CASE who = NoOne
        BY <2>2, <2>4, <2>6, <2>7, <3>1 DEF NewResolution
      <3>2. CASE who # NoOne
        BY <1>2, <2>2, <2>3, <2>4, <2>5, <2>6, <2>7, <3>2 DEF NewResolution
      <3> QED BY <3>1, <3>2
    <2> QED BY <1>1, <1>3, <2>1, <2>8, StartKeepsContInv
  <1>9. CASE /\ item' = IF who = NoOne THEN item ELSE ResolutionRejected(who)
             /\ asked' = {IF q[3] # NoOne /\ who # NoOne /\ q[3] \in Waiting(who)
                           THEN <<q[1], q[2], NoOne>> ELSE q : q \in open}
             /\ UNCHANGED edges
    <2>1. asked' \subseteq Containers \X Injectables \X (Instances \cup {NoOne})
      BY <1>1, <1>9
    <2>2. CASE who = NoOne
      <3>1. Requests'
        BY <1>9, <2>2 DEF ContInv, Requests
      <3> QED BY <1>3, <1>9, <2>1, <2>2, <3>1, RequestsOnly
    <2>3. CASE who # NoOne
      <3>1. \A q \in asked' : q[3] # NoOne => q \in asked /\ q[3] \in Instances \ Waiting(who)
        <4> SUFFICES ASSUME NEW q \in asked', q[3] # NoOne PROVE q \in asked /\ q[3] \in Instances \ Waiting(who)
          OBVIOUS
        <4>1. PICK p \in open : q = IF p[3] # NoOne /\ who # NoOne /\ p[3] \in Waiting(who)
                                    THEN <<p[1], p[2], NoOne>> ELSE p
          BY <1>9
        <4>2. q = p /\ p[3] \notin Waiting(who)
          BY <2>3, <4>1
        <4> QED BY <1>1, <4>2
      <3> QED BY <1>2, <1>3, <1>9, <2>1, <2>3, <3>1, RejectionKeepsContInv
    <2> QED BY <2>2, <2>3
  <1> QED
    <2>1. \/ asked' = open /\ UNCHANGED <<item, edges>>
          \/ given \notin {NoProvision, Value} /\ asked' = open \cup {<<c, given, who>>} /\ UNCHANGED <<item, edges>>
          \/ Delegates(c, i) /\ asked' = open \cup {<<c - 1, i, who>>} /\ UNCHANGED <<item, edges>>
          \/ /\ ~disposing[c] /\ Shared(c, i) # {} /\ Given(who, CHOOSE h \in Shared(c, i) : TRUE)
             /\ Noted(c, i, who) /\ asked' = open
          \/ /\ ~disposing[c] /\ Shared(c, i) = {} /\ Free # {}
             /\ item' = [(IF who = NoOne THEN item
                          ELSE IF item[CHOOSE n \in Free : TRUE].held
                               THEN [item EXCEPT ![who].uses = @ \cup {CHOOSE n \in Free : TRUE}]
                          ELSE [item EXCEPT ![who].wait = @ \cup {CHOOSE n \in Free : TRUE}])
                          EXCEPT ![CHOOSE n \in Free : TRUE] =
                            [Blank EXCEPT !.inj = i, !.at = c, !.state = "resolving"]]
             /\ Noted(c, i, who) /\ asked' = open \cup {<<c, d, CHOOSE n \in Free : TRUE>> : d \in Deps[i]}
          \/ /\ item' = IF who = NoOne THEN item ELSE ResolutionRejected(who)
             /\ asked' = {IF q[3] # NoOne /\ who # NoOne /\ q[3] \in Waiting(who)
                           THEN <<q[1], q[2], NoOne>> ELSE q : q \in open}
             /\ UNCHANGED edges
      BY Zenon DEF AnswerRequest, Given, Noted
    <2>2. Shared(c, i) # {} => (CHOOSE h \in Shared(c, i) : TRUE) \in Shared(c, i)
      OBVIOUS
    <2>3. Free # {} => (CHOOSE n \in Free : TRUE) \in Free
      OBVIOUS
    <2> QED BY <1>4, <1>5, <1>6, <1>7, <1>8, <1>9, <2>1, <2>2, <2>3

-----------------------------------------------------------------------------
\* A resolution becomes an instance, held if it is to be disposed some day, and
\* those that waited for it use it.
LEMMA CreatedKeepsContInv ==
    ASSUME ContInv, NEW h \in Instances, Created(h) PROVE ContInv'
  <1>1. /\ item \in [Instances -> Item] /\ item[h].state = "resolving" /\ item[h].wait = {} /\ asked = {}
        /\ UNCHANGED <<provisions, edges, disposing, closing, manual, dropped, asked>>
    BY DEF ContInv, ContTyped, Created
  <1>2. item' = [g \in Instances |->
         IF g = h THEN [item[h] EXCEPT !.state = "live", !.held = Tracked(item[h].inj)]
         ELSE IF h \in item[g].wait
              THEN [item[g] EXCEPT !.wait = item[g].wait \ {h}, !.uses = item[g].uses \cup {h}]
         ELSE item[g]]
    BY DEF Created
  <1>3. Tracked(item[h].inj) \in BOOLEAN
    BY DEF Tracked, Transient
  <1>4. item' \in [Instances -> Item]
    <2> SUFFICES ASSUME NEW g \in Instances PROVE item'[g] \in Item
      BY <1>2
    <2>1. item[g] \in Item /\ item[h] \in Item
      BY <1>1
    <2> QED BY <1>2, <1>3, <2>1 DEF Item
  <1>5. /\ item'[h].inj = item[h].inj /\ item'[h].at = item[h].at /\ item'[h].state = "live"
        /\ item'[h].held = Tracked(item[h].inj)
        /\ item'[h].wait = {} /\ item'[h].uses = item[h].uses
    <2>1. item[h] \in Item
      BY <1>1
    <2> QED BY <1>1, <1>2, <2>1 DEF Item
  <1>6. \A g \in Instances : g # h =>
          /\ item'[g].inj = item[g].inj /\ item'[g].at = item[g].at /\ item'[g].state = item[g].state
          /\ item'[g].held = item[g].held /\ item'[g].byHand = item[g].byHand
          /\ h \notin item[g].wait => item'[g] = item[g]
    <2> SUFFICES ASSUME NEW g \in Instances, g # h
                 PROVE  /\ item'[g].inj = item[g].inj /\ item'[g].at = item[g].at /\ item'[g].state = item[g].state
                        /\ item'[g].held = item[g].held /\ item'[g].byHand = item[g].byHand
                        /\ h \notin item[g].wait => item'[g] = item[g]
      OBVIOUS
    <2>1. item[g] \in Item
      BY <1>1
    <2> QED BY <1>2, <2>1 DEF Item
  <1>7. \A g, x \in Instances : g # h =>
          /\ x \in item'[g].wait => x \in item[g].wait /\ x # h
          /\ x \in item'[g].uses => x \in item[g].uses \/ (x = h /\ h \in item[g].wait)
    <2> SUFFICES ASSUME NEW g \in Instances, NEW x \in Instances, g # h
                 PROVE  /\ x \in item'[g].wait => x \in item[g].wait /\ x # h
                        /\ x \in item'[g].uses => x \in item[g].uses \/ (x = h /\ h \in item[g].wait)
      OBVIOUS
    <2>1. item[g] \in Item
      BY <1>1
    <2> QED BY <1>2, <2>1 DEF Item
  <1>8. ContTyped'
    BY <1>1, <1>4 DEF ContInv, ContTyped
  <1>9. Items'
    <2> SUFFICES ASSUME NEW g \in Instances PROVE ItemOk(g)'
      BY DEF Items
    <2>1. ItemOk(g)
      BY DEF ContInv, Items
    <2>2. CASE g = h
      BY <1>1, <1>5, <2>1, <2>2 DEF ItemOk, Tracked, Transient
    <2>3. CASE g # h /\ h \in item[g].wait
      BY <1>1, <1>6, <1>7, <2>1, <2>3 DEF ItemOk, Tracked, Transient
    <2>4. CASE item'[g] = item[g]
      BY <1>1, <2>1, <2>4 DEF ItemOk, Tracked, Transient
    <2> QED BY <1>6, <2>2, <2>3, <2>4
  <1>10. Links'
    <2> SUFFICES ASSUME NEW g \in Instances, NEW x \in Instances PROVE LinkOk(g, x)'
      BY DEF Links
    <2>1. LinkOk(g, x)
      BY DEF ContInv, Links
    <2>2. Counts(g)' => Counts(g)
      BY <1>1, <1>6 DEF Counts
    <2>3. /\ x \in item'[g].wait => x \in item[g].wait /\ x # h
          /\ x \in item'[g].uses => x \in item[g].uses \/ (x = h /\ h \in item[g].wait)
      BY <1>5, <1>7
    <2>4. CASE x = h
      <3>1. h \notin item[g].uses
        BY <1>1, <2>1, <2>4 DEF LinkOk, Made
      <3> QED BY <1>1, <1>5, <1>6, <2>1, <2>2, <2>3, <2>4, <3>1 DEF LinkOk, Made
    <2>5. CASE x # h
      BY <1>1, <1>5, <1>6, <2>1, <2>2, <2>3, <2>5 DEF LinkOk
    <2> QED BY <2>4, <2>5
  <1>11. Once'
    BY <1>1, <1>5, <1>6 DEF ContInv, Once, Transient
  <1>12. ByHand'
    BY <1>1, <1>6 DEF ContInv, ContTyped, ByHand
  <1>13. Phases'
    <2> SUFFICES ASSUME NEW b \in Containers PROVE PhaseOk(b)'
      BY DEF Phases
    <2>1. PhaseOk(b) /\ closing[b].now \subseteq Instances
      BY DEF ContInv, Phases, ContTyped, Phase
    <2>2. h \notin closing[b].now
      BY <1>1, <2>1 DEF PhaseOk
    <2> QED BY <1>1, <1>5, <1>6, <2>1, <2>2 DEF PhaseOk
  <1>14. Requests'
    BY <1>1 DEF Requests
  <1> QED BY <1>8, <1>9, <1>10, <1>11, <1>12, <1>13, <1>14 DEF ContInv

\* A factory that throws rejects its resolution.
LEMMA CreateFailsKeepsContInv ==
    ASSUME ContInv, NEW h \in Instances, CreateFails(h) PROVE ContInv'
  <1>1. asked' = {} /\ asked' \subseteq Containers \X Injectables \X (Instances \cup {NoOne})
    BY DEF CreateFails
  <1> QED BY <1>1, RejectionKeepsContInv DEF CreateFails

\* Provisions concern only requests to come.
LEMMA ProvisionKeepsContInv ==
    ASSUME ContInv, NEW c \in Containers, NEW i \in Injectables,
           Withhold(c, i) \/ \E v \in Injectables \cup {Value} : Provide(c, i, v)
    PROVE  ContInv'
  <1>1. PICK v \in Injectables \cup {Value, NoProvision} :
          /\ provisions' = [provisions EXCEPT ![c][i] = v]
          /\ v \notin {Value, NoProvision} => v < i
    BY DEF Withhold, Provide
  <1>2. asked = {} /\ UNCHANGED <<item, edges, disposing, closing, manual, dropped, asked>>
    BY DEF Withhold, Provide
  <1>3. ContTyped'
    <2>1. \A b \in Containers, j \in Injectables :
            provisions'[b][j] = IF b = c /\ j = i THEN v ELSE provisions[b][j]
      BY <1>1 DEF ContInv, ContTyped
    <2>2. DOMAIN provisions' = Containers /\ \A b \in Containers : DOMAIN provisions'[b] = Injectables
      BY <1>1 DEF ContInv, ContTyped
    <2>3. \A b \in Containers, j \in Injectables :
            provisions'[b][j] \in {NoProvision, Value} \/ (provisions'[b][j] \in Injectables /\ provisions'[b][j] < j)
      BY <1>1, <2>1 DEF ContInv, ContTyped
    <2> QED BY <1>2, <2>2, <2>3 DEF ContInv, ContTyped
  <1>4. Items' /\ Links' /\ Once' /\ ByHand' /\ Phases' /\ Requests'
    BY <1>2 DEF ContInv, Items, ItemOk, Links, LinkOk, Counts, Once, ByHand, Phases, PhaseOk, Requests
  <1> QED BY <1>3, <1>4 DEF ContInv

-----------------------------------------------------------------------------
\* What calling the disposers of hs does to the instances.
LEMMA DisposeHandlesEffect ==
    ASSUME ContInv, NEW hs \in SUBSET Instances, NEW hand \in BOOLEAN, item' = DisposeHandles(hs, hand)
    PROVE  /\ item' \in [Instances -> Item]
           /\ \A g \in Instances :
                /\ item'[g].inj = item[g].inj /\ item'[g].at = item[g].at /\ item'[g].held = item[g].held
                /\ item'[g].wait = item[g].wait /\ item'[g].uses = item[g].uses
                /\ g \in hs => item'[g].state = "disposing" /\ (item'[g].byHand <=> item[g].byHand \/ hand)
                /\ g \notin hs => item'[g] = item[g]
  <1>1. item \in [Instances -> Item]
    BY DEF ContInv, ContTyped
  <1>2. ASSUME NEW g \in Instances
        PROVE  /\ item'[g] \in Item
               /\ item'[g].inj = item[g].inj /\ item'[g].at = item[g].at /\ item'[g].held = item[g].held
               /\ item'[g].wait = item[g].wait /\ item'[g].uses = item[g].uses
               /\ g \in hs => item'[g].state = "disposing" /\ (item'[g].byHand <=> item[g].byHand \/ hand)
               /\ g \notin hs => item'[g] = item[g]
    <2>1. item[g] \in Item /\ item'[g] = IF g \notin hs THEN item[g]
            ELSE [item[g] EXCEPT !.state = "disposing", !.byHand = item[g].byHand \/ hand]
      BY <1>1 DEF DisposeHandles
    <2>2. PICK b \in BOOLEAN : b <=> (item[g].byHand \/ hand)
      OBVIOUS
    <2>3. CASE g \in hs
      <3>1. item'[g] = [item[g] EXCEPT !.state = "disposing", !.byHand = b]
        <4>1. b = (item[g].byHand \/ hand)
          BY <2>2
        <4> QED BY <2>1, <2>3, <4>1
      <3> QED BY <2>1, <2>2, <2>3, <3>1 DEF Item
    <2>4. CASE g \notin hs
      BY <2>1, <2>4
    <2> QED BY <2>3, <2>4
  <1>3. item' = [g \in Instances |-> item'[g]]
    BY DEF DisposeHandles
  <1> QED BY <1>2, <1>3

\* What the end of the disposers of hs does, with the rest of an entry deleted.
Ended(hs, entry) ==
    /\ item' \in [Instances -> Item]
    /\ \A g \in Instances :
         /\ item'[g].inj = item[g].inj /\ item'[g].at = item[g].at
         /\ item'[g].wait = item[g].wait /\ item'[g].byHand = item[g].byHand
         /\ g \in hs => item'[g].state = "disposed" /\ item'[g].held = FALSE /\ item'[g].uses = {}
         /\ g \notin hs => /\ item'[g].state = item[g].state /\ item'[g].uses = item[g].uses
                           /\ item'[g].held <=> item[g].held /\ g \notin entry
         /\ g \notin hs /\ g \notin entry => item'[g] = item[g]
         /\ g \notin hs /\ ~item[g].held => item'[g] = item[g]

LEMMA GoneEffect ==
    ASSUME ContInv, NEW hs \in SUBSET Instances, NEW entry \in SUBSET Instances, item' = Gone(hs, entry)
    PROVE  Ended(hs, entry)
  <1>1. item \in [Instances -> Item]
    BY DEF ContInv, ContTyped
  <1>2. ASSUME NEW g \in Instances
        PROVE  /\ item'[g] \in Item
               /\ item'[g].inj = item[g].inj /\ item'[g].at = item[g].at
               /\ item'[g].wait = item[g].wait /\ item'[g].byHand = item[g].byHand
               /\ g \in hs => item'[g].state = "disposed" /\ item'[g].held = FALSE /\ item'[g].uses = {}
               /\ g \notin hs => /\ item'[g].state = item[g].state /\ item'[g].uses = item[g].uses
                                 /\ item'[g].held <=> item[g].held /\ g \notin entry
               /\ g \notin hs /\ g \notin entry => item'[g] = item[g]
               /\ g \notin hs /\ ~item[g].held => item'[g] = item[g]
    <2>1. item[g] \in Item /\ item'[g] = IF g \in hs
            THEN [item[g] EXCEPT !.state = "disposed", !.held = FALSE, !.uses = {}]
            ELSE [item[g] EXCEPT !.held = item[g].held /\ g \notin entry]
      BY <1>1 DEF Gone
    <2>2. CASE g \in hs
      <3>1. item'[g] = [item[g] EXCEPT !.state = "disposed", !.held = FALSE, !.uses = {}]
        BY <2>1, <2>2
      <3> QED BY <2>1, <2>2, <3>1 DEF Item
    <2>3. CASE g \notin hs
      <3>1. PICK b \in BOOLEAN : b <=> (item[g].held /\ g \notin entry)
        OBVIOUS
      <3>2. b = (item[g].held /\ g \notin entry)
        BY <3>1
      <3>3. item'[g] = [item[g] EXCEPT !.held = b]
        BY <2>1, <2>3, <3>2
      <3>4. item[g].held \in BOOLEAN
        BY <2>1 DEF Item
      <3>5. b = item[g].held => item'[g] = item[g]
        BY <2>1, <3>3 DEF Item
      <3>6. item'[g] \in Item /\ item'[g].held = b /\ item'[g].state = item[g].state /\ item'[g].uses = item[g].uses
        BY <2>1, <3>3 DEF Item
      <3>7. /\ item'[g].inj = item[g].inj /\ item'[g].at = item[g].at
            /\ item'[g].wait = item[g].wait /\ item'[g].byHand = item[g].byHand
        BY <2>1, <3>3 DEF Item
      <3>8. (g \notin entry \/ ~item[g].held) => b = item[g].held
        BY <3>1, <3>4
      <3> QED BY <2>3, <3>1, <3>5, <3>6, <3>7, <3>8
    <2> QED BY <2>2, <2>3
  <1>3. item' = [g \in Instances |-> item'[g]]
    BY DEF Gone
  <1> QED BY <1>2, <1>3 DEF Ended

\* A held instance was made, and disposed only if its transient's disposer
\* failed; a resolution in flight is not held.
LEMMA HeldIsMade ==
    ASSUME ContInv, NEW h \in Instances, item[h].held
    PROVE  /\ item[h].state \in Made /\ item[h].inj \in Injectables /\ item[h].at \in Containers
           /\ item[h].state = "disposed" => Transient(item[h].inj)
           /\ item[h].wait = {}
  <1>1. ItemOk(h) /\ item[h].state \in {"none", "resolving", "live", "disposing", "disposed"}
    BY DEF ContInv, Items, ContTyped, Item
  <1> QED BY <1>1 DEF ItemOk, Made, Blank

\* The disposal by hand concerns held instances, and is known as such.
LEMMA DisposeByHandKeepsContInv ==
    ASSUME ContInv, NEW c \in Containers, NEW i \in Injectables, DisposeByHand(c, i) PROVE ContInv'
  <1>1. PICK hs \in SUBSET HeldOf(c, i) :
            /\ item' = DisposeHandles(hs, TRUE)
            /\ manual' = manual \cup {[id |-> left, at |-> c, inj |-> i, hs |-> hs]}
    BY DEF DisposeByHand
  <1>2. hs \in SUBSET Instances /\ \A h \in hs : item[h].held
    BY DEF HeldOf, Of
  <1>3. UNCHANGED <<provisions, edges, disposing, closing, dropped, asked>> /\ asked = {}
    BY DEF DisposeByHand
  <1>4. /\ item' \in [Instances -> Item]
        /\ \A g \in Instances :
                /\ item'[g].inj = item[g].inj /\ item'[g].at = item[g].at /\ item'[g].held = item[g].held
                /\ item'[g].wait = item[g].wait /\ item'[g].uses = item[g].uses
                /\ g \in hs => item'[g].state = "disposing" /\ item'[g].byHand
                /\ g \notin hs => item'[g] = item[g]
    BY <1>1, <1>2, DisposeHandlesEffect
  <1>5. \A h \in hs : /\ item[h].state \in Made /\ item[h].inj \in Injectables /\ item[h].at \in Containers
                      /\ item[h].wait = {}
    BY <1>2, HeldIsMade
  <1>6. ContTyped'
    <2>1. \A m \in manual' : m.at \in Containers /\ m.inj \in Injectables /\ m.hs \subseteq Instances
      BY <1>1, <1>2 DEF ContInv, ContTyped
    <2> QED BY <1>3, <1>4, <2>1 DEF ContInv, ContTyped
  <1>7. Items'
    <2> SUFFICES ASSUME NEW g \in Instances PROVE ItemOk(g)'
      BY DEF Items
    <2>1. ItemOk(g)
      BY DEF ContInv, Items
    <2>2. CASE g \in hs
      BY <1>2, <1>4, <1>5, <2>2 DEF ItemOk
    <2>3. CASE g \notin hs
      BY <1>3, <1>4, <2>1, <2>3 DEF ItemOk
    <2> QED BY <2>2, <2>3
  <1>8. Links'
    <2> SUFFICES ASSUME NEW g \in Instances, NEW x \in Instances PROVE LinkOk(g, x)'
      BY DEF Links
    <2>1. LinkOk(g, x) /\ (Counts(g)' => Counts(g))
      BY <1>2, <1>4 DEF ContInv, Links, Counts
    <2>2. CASE x \in hs
      BY <1>3, <1>4, <1>5, <2>1, <2>2 DEF LinkOk, Made
    <2>3. CASE x \notin hs
      BY <1>3, <1>4, <2>1, <2>3 DEF LinkOk
    <2> QED BY <2>2, <2>3
  <1>9. Once'
    BY <1>3, <1>4 DEF ContInv, Once
  <1>10. ByHand'
    <2> SUFFICES ASSUME NEW m \in manual', NEW h \in m.hs
                 PROVE  item'[h].byHand /\ item'[h].inj = m.inj /\ item'[h].state \in {"disposing", "disposed"}
      BY DEF ByHand
    <2>1. CASE m \in manual
      <3>1. h \in Instances /\ item[h].byHand /\ item[h].inj = m.inj /\ item[h].state \in {"disposing", "disposed"}
        BY <2>1 DEF ContInv, ContTyped, ByHand
      <3> QED BY <1>4, <3>1
    <2>2. CASE m \notin manual
      <3>1. m.hs = hs /\ m.inj = i
        BY <1>1, <2>2
      <3>2. item[h].inj = i
        BY <3>1 DEF HeldOf, Of
      <3> QED BY <1>2, <1>4, <3>1, <3>2
    <2> QED BY <2>1, <2>2
  <1>11. Phases'
    <2> SUFFICES ASSUME NEW b \in Containers PROVE PhaseOk(b)'
      BY DEF Phases
    <2>1. PhaseOk(b) /\ closing[b].now \subseteq Instances
      BY DEF ContInv, Phases, ContTyped, Phase
    <2> QED BY <1>3, <1>4, <2>1 DEF PhaseOk
  <1>12. Requests'
    BY <1>3 DEF Requests
  <1> QED BY <1>6, <1>7, <1>8, <1>9, <1>10, <1>11, <1>12 DEF ContInv

\* The end of a disposal of hs: whoever still needs one of them was given it
\* before it was disposed by hand.
LEMMA EndingKeepsContInv ==
    ASSUME ContInv, NEW hs \in SUBSET Instances, NEW entry \in SUBSET Instances, item' = Gone(hs, entry),
           dropped \subseteq dropped', dropped' \subseteq Instances, entry \ hs \subseteq dropped',
           \A h \in hs : item[h].state \in {"disposing", "disposed"},
           manual' \subseteq manual, asked = {}, asked' = {},
           UNCHANGED <<provisions, edges, disposing>>, closing' \in [Containers -> Phase],
           \A c \in Containers : /\ closing'[c].phase = closing[c].phase /\ closing'[c].todo = closing[c].todo
                                 /\ closing'[c].now \subseteq closing[c].now
                                 /\ closing[c].now \subseteq closing'[c].now \cup hs
    PROVE  ContInv'
  <1>1. /\ item' \in [Instances -> Item]
        /\ \A g \in Instances :
                /\ item'[g].inj = item[g].inj /\ item'[g].at = item[g].at
                /\ item'[g].wait = item[g].wait /\ item'[g].byHand = item[g].byHand
                /\ g \in hs => item'[g].state = "disposed" /\ item'[g].held = FALSE /\ item'[g].uses = {}
                /\ g \notin hs => /\ item'[g].state = item[g].state /\ item'[g].uses = item[g].uses
                                  /\ item'[g].held <=> item[g].held /\ g \notin entry
                /\ g \notin hs /\ g \notin entry => item'[g] = item[g]
                /\ g \notin hs /\ ~item[g].held => item'[g] = item[g]
    <2>1. Ended(hs, entry)
      BY GoneEffect
    <2> QED BY <2>1 DEF Ended
  <1>2. ContTyped'
    <2>1. \A m \in manual : m.at \in Containers /\ m.inj \in Injectables /\ m.hs \subseteq Instances
      BY DEF ContInv, ContTyped
    <2>2. item' \in [Instances -> Item]
      BY <1>1
    <2>3. ContTyped
      BY DEF ContInv
    <2> QED BY <2>1, <2>2, <2>3 DEF ContTyped
  <1>3. Items'
    <2> SUFFICES ASSUME NEW g \in Instances PROVE ItemOk(g)'
      BY DEF Items
    <2>1. ItemOk(g)
      BY DEF ContInv, Items
    <2>2. CASE g \in hs
      BY <1>1, <2>1, <2>2 DEF ItemOk
    <2>3. CASE g \notin hs /\ item'[g] = item[g]
      BY <1>1, <2>1, <2>3 DEF ItemOk
    <2>4. CASE g \notin hs /\ item[g].held /\ g \in entry
      <3>1. item[g].state \in Made /\ item[g].inj \in Injectables /\ item[g].at \in Containers /\ item[g].wait = {}
        BY <2>4, HeldIsMade
      <3> QED BY <1>1, <2>1, <2>4, <3>1 DEF ItemOk, Made
    <2> QED BY <1>1, <2>2, <2>3, <2>4
  <1>4. Links'
    <2> SUFFICES ASSUME NEW g \in Instances, NEW x \in Instances PROVE LinkOk(g, x)'
      BY DEF Links
    <2>1. LinkOk(g, x) /\ (Counts(g)' => Counts(g))
      BY <1>1 DEF ContInv, Links, Counts
    <2>2. item'[g].uses \subseteq item[g].uses
      BY <1>1
    <2>3. CASE x \in hs
      BY <1>1, <2>1, <2>2, <2>3 DEF LinkOk, Made
    <2>4. CASE x \notin hs
      BY <1>1, <2>1, <2>2, <2>4 DEF LinkOk
    <2> QED BY <2>3, <2>4
  <1>5. Once'
    BY <1>1 DEF ContInv, Once
  <1>6. ByHand'
    BY <1>1 DEF ContInv, ContTyped, ByHand
  <1>7. Phases'
    <2> SUFFICES ASSUME NEW b \in Containers PROVE PhaseOk(b)'
      BY DEF Phases
    <2>1. PhaseOk(b) /\ closing[b].now \subseteq Instances
      BY DEF ContInv, Phases, ContTyped, Phase
    <2> QED BY <1>1, <2>1 DEF PhaseOk
  <1>8. Requests'
    BY DEF Requests
  <1> QED BY <1>2, <1>3, <1>4, <1>5, <1>6, <1>7, <1>8 DEF ContInv

\* A manual disposal ends: the instances are deleted, and whatever else its
\* entry holds is dropped, except for transients whose disposer threw, which
\* stay held.
LEMMA ByHandEndsKeepsContInv ==
    ASSUME ContInv, NEW m \in manual, ByHandEnds(m) PROVE ContInv'
  <1> DEFINE entry == IF Transient(m.inj) THEN m.hs ELSE HeldOf(m.at, m.inj)
  <1>1. /\ m.hs \in SUBSET Instances /\ manual' \subseteq manual /\ asked = {} /\ asked' = {}
        /\ closing' \in [Containers -> Phase] /\ UNCHANGED <<provisions, edges, disposing, closing>>
        /\ \A h \in m.hs : item[h].byHand /\ item[h].state \in {"disposing", "disposed"}
        /\ dropped \subseteq Instances
    BY DEF ContInv, ContTyped, ByHand, ByHandEnds
  <1>2. CASE item' = Gone(m.hs, entry) /\ dropped' = dropped \cup (entry \ m.hs)
    <2>1. entry \in SUBSET Instances
      BY <1>1 DEF HeldOf, Of
    <2> QED BY <1>1, <1>2, <2>1, EndingKeepsContInv
  <1>3. CASE /\ Transient(m.inj) /\ UNCHANGED dropped
             /\ item' = [h \in Instances |-> IF h \notin m.hs THEN item[h]
                                             ELSE [item[h] EXCEPT !.state = "disposed"]]
    <2>1. item \in [Instances -> Item]
      BY DEF ContInv, ContTyped
    <2>2. item' \in [Instances -> Item]
      BY <1>3, <2>1 DEF Item
    <2>3. \A g \in Instances :
                /\ item'[g].inj = item[g].inj /\ item'[g].at = item[g].at /\ item'[g].held = item[g].held
                /\ item'[g].wait = item[g].wait /\ item'[g].uses = item[g].uses
                /\ item'[g].byHand = item[g].byHand
                /\ g \in m.hs => item'[g].state = "disposed"
                /\ g \notin m.hs => item'[g] = item[g]
      BY <1>3, <2>1 DEF Item
    <2>4. ContTyped'
      BY <1>1, <1>3, <2>2 DEF ContInv, ContTyped
    <2>5. Items'
      <3> SUFFICES ASSUME NEW g \in Instances PROVE ItemOk(g)'
        BY DEF Items
      <3>1. ItemOk(g)
        BY DEF ContInv, Items
      <3>2. CASE g \in m.hs
        <4>1. item[g].inj = m.inj
          BY <3>2 DEF ContInv, ByHand
        <4> QED BY <1>1, <1>3, <2>3, <3>1, <3>2, <4>1 DEF ItemOk
      <3>3. CASE g \notin m.hs
        BY <1>1, <1>3, <2>3, <3>1, <3>3 DEF ItemOk
      <3> QED BY <3>2, <3>3
    <2>6. Links'
      <3> SUFFICES ASSUME NEW g \in Instances, NEW x \in Instances PROVE LinkOk(g, x)'
        BY DEF Links
      <3>1. LinkOk(g, x) /\ (Counts(g)' => Counts(g))
        BY <1>1, <2>3 DEF ContInv, Links, Counts
      <3>2. CASE x \in m.hs
        BY <1>1, <2>3, <3>1, <3>2 DEF LinkOk, Made
      <3>3. CASE x \notin m.hs
        BY <1>1, <2>3, <3>1, <3>3 DEF LinkOk
      <3> QED BY <3>2, <3>3
    <2>7. Once'
      BY <1>3, <2>3 DEF ContInv, Once
    <2>8. ByHand' /\ Requests'
      BY <1>1, <2>3 DEF ContInv, ContTyped, ByHand, Requests
    <2>9. Phases'
      <3> SUFFICES ASSUME NEW b \in Containers PROVE PhaseOk(b)'
        BY DEF Phases
      <3>1. PhaseOk(b) /\ closing[b].now \subseteq Instances
        BY DEF ContInv, Phases, ContTyped, Phase
      <3> QED BY <1>1, <2>3, <3>1 DEF PhaseOk
    <2> QED BY <2>4, <2>5, <2>6, <2>7, <2>8, <2>9 DEF ContInv
  <1> QED BY <1>2, <1>3 DEF ByHandEnds

-----------------------------------------------------------------------------
\* dispose() begins with nothing to do yet.
LEMMA BeginDisposeKeepsContInv ==
    ASSUME ContInv, NEW c \in Containers, BeginDispose(c) PROVE ContInv'
  <1>1. /\ closing \in [Containers -> Phase] /\ disposing \in [Containers -> BOOLEAN]
        /\ closing[c].phase = "open" /\ asked = {}
        /\ disposing' = [disposing EXCEPT ![c] = TRUE]
        /\ closing' = [closing EXCEPT ![c].phase = "settling"]
        /\ UNCHANGED <<item, provisions, edges, manual, dropped, asked>>
    BY DEF ContInv, ContTyped, BeginDispose
  <1>2. closing' \in [Containers -> Phase]
    BY <1>1 DEF Phase
  <1>3. \A b \in Containers : /\ closing'[b].now = closing[b].now /\ closing'[b].todo = closing[b].todo
                              /\ b # c => closing'[b] = closing[b]
                              /\ closing'[c].phase = "settling"
    BY <1>1 DEF Phase
  <1>4. ContTyped'
    BY <1>1, <1>2 DEF ContInv, ContTyped
  <1>5. Items'
    <2> SUFFICES ASSUME NEW g \in Instances PROVE ItemOk(g)'
      BY DEF Items
    <2>1. ItemOk(g)
      BY DEF ContInv, Items
    <2> QED BY <1>1, <1>3, <2>1 DEF ItemOk
  <1>6. Links' /\ Once' /\ ByHand' /\ Requests'
    BY <1>1 DEF ContInv, Links, LinkOk, Counts, Once, ByHand, Requests
  <1>7. Phases'
    <2> SUFFICES ASSUME NEW b \in Containers PROVE PhaseOk(b)'
      BY DEF Phases
    <2>1. PhaseOk(b)
      BY DEF ContInv, Phases
    <2> QED BY <1>1, <1>3, <2>1 DEF PhaseOk
  <1> QED BY <1>4, <1>5, <1>6, <1>7 DEF ContInv

\* The order covers all that the container holds.
LEMMA OrderDisposalKeepsContInv ==
    ASSUME ContInv, NEW c \in Containers, OrderDisposal(c) PROVE ContInv'
  <1>1. /\ closing \in [Containers -> Phase] /\ closing[c].phase = "settling" /\ asked = {}
        /\ closing' = [closing EXCEPT ![c].phase = "disposing",
                     ![c].todo = {i \in Injectables : HeldOf(c, i) # {}}]
        /\ UNCHANGED <<item, provisions, edges, disposing, manual, dropped, asked>>
    BY DEF ContInv, ContTyped, OrderDisposal
  <1>2. closing' \in [Containers -> Phase]
    BY <1>1 DEF Phase
  <1>3. \A b \in Containers : closing'[b].now = closing[b].now /\ (b # c => closing'[b] = closing[b])
    BY <1>1 DEF Phase
  <1>4. closing'[c].phase = "disposing" /\ closing'[c].todo = {i \in Injectables : HeldOf(c, i) # {}}
    BY <1>1 DEF Phase
  <1>5. ContTyped'
    BY <1>1, <1>2 DEF ContInv, ContTyped
  <1>6. Items'
    <2> SUFFICES ASSUME NEW g \in Instances PROVE ItemOk(g)'
      BY DEF Items
    <2>1. ItemOk(g)
      BY DEF ContInv, Items
    <2> QED BY <1>1, <1>3, <2>1 DEF ItemOk
  <1>7. Links' /\ Once' /\ ByHand' /\ Requests'
    BY <1>1 DEF ContInv, Links, LinkOk, Counts, Once, ByHand, Requests
  <1>8. Phases'
    <2> SUFFICES ASSUME NEW b \in Containers PROVE PhaseOk(b)'
      BY DEF Phases
    <2>1. PhaseOk(b)
      BY DEF ContInv, Phases
    <2>2. CASE b # c
      BY <1>1, <1>3, <2>1, <2>2 DEF PhaseOk
    <2>3. CASE b = c
      <3>1. \A h \in Instances : item[h].at = c => item[h].state # "resolving"
        BY DEF OrderDisposal, Settled, Pending, InFlight
      <3>2. \A h \in Instances : item[h].at = c /\ item[h].held => item[h].inj \in closing'[c].todo
        BY <1>4, HeldIsMade DEF HeldOf, Of
      <3> QED BY <1>1, <1>3, <1>4, <2>1, <2>3, <3>1, <3>2 DEF PhaseOk
    <2> QED BY <2>2, <2>3
  <1> QED BY <1>5, <1>6, <1>7, <1>8 DEF ContInv

\* Whoever holds what is disposed next is disposed already: its injectable
\* would come first in the order, and none depends on itself.
LEMMA DisposeNextKeepsContInv ==
    ASSUME ContInv, NEW c \in Containers, DisposeNext(c) PROVE ContInv'
  <1>1. PICK i \in closing[c].todo :
          /\ ComesNext(c, i)
          /\ item' = DisposeHandles(HeldOf(c, i), FALSE)
          /\ closing' = [closing EXCEPT ![c].todo = @ \ {i}, ![c].now = HeldOf(c, i)]
    BY DEF DisposeNext
  <1> DEFINE hs == HeldOf(c, i)
  <1>2. /\ closing[c].phase = "disposing" /\ closing[c].now = {} /\ asked = {}
        /\ UNCHANGED <<provisions, edges, disposing, manual, dropped, asked>>
        /\ closing \in [Containers -> Phase]
    BY DEF DisposeNext, ContInv, ContTyped
  <1>3. hs \in SUBSET Instances /\ \A h \in hs : item[h].held /\ item[h].at = c /\ item[h].inj = i
    BY DEF HeldOf, Of
  <1>4. /\ item' \in [Instances -> Item]
        /\ \A g \in Instances :
                /\ item'[g].inj = item[g].inj /\ item'[g].at = item[g].at /\ item'[g].held = item[g].held
                /\ item'[g].wait = item[g].wait /\ item'[g].uses = item[g].uses
                /\ g \in hs => item'[g].state = "disposing" /\ (item'[g].byHand <=> item[g].byHand)
                /\ g \notin hs => item'[g] = item[g]
    BY <1>1, <1>3, DisposeHandlesEffect
  <1>5. \A h \in hs : /\ item[h].state \in Made /\ item[h].inj \in Injectables /\ item[h].at \in Containers
                      /\ item[h].wait = {}
    BY <1>3, HeldIsMade
  <1>6. \A h \in Instances : item[h].at = c /\ item[h].held /\ h \notin hs => item[h].inj \in closing[c].todo \ {i}
    <2>1. \A h \in Instances : item[h].at = c /\ item[h].held => item[h].inj \in closing[c].todo
      BY <1>2 DEF ContInv, Phases, PhaseOk
    <2> QED BY <2>1 DEF HeldOf, Of
  <1>7. closing' \in [Containers -> Phase]
    BY ZenonT(30), <1>1, <1>2, <1>3 DEF Phase
  <1>8. /\ \A b \in Containers : b # c => closing'[b] = closing[b]
        /\ closing'[c].phase = "disposing" /\ closing'[c].todo = closing[c].todo \ {i} /\ closing'[c].now = hs
    BY <1>1, <1>2 DEF Phase
  <1> HIDE DEF hs
  <1>9. ContTyped'
    BY <1>2, <1>4, <1>7 DEF ContInv, ContTyped
  <1>10. Items'
    <2> SUFFICES ASSUME NEW g \in Instances PROVE ItemOk(g)'
      BY DEF Items
    <2>1. ItemOk(g)
      BY DEF ContInv, Items
    <2>2. CASE g \in hs
      BY <1>3, <1>4, <1>5, <1>8, <2>2 DEF ItemOk
    <2>3. CASE g \notin hs
      BY <1>2, <1>4, <1>8, <2>1, <2>3 DEF ItemOk
    <2> QED BY <2>2, <2>3
  <1>11. Links'
    <2> SUFFICES ASSUME NEW g \in Instances, NEW x \in Instances PROVE LinkOk(g, x)'
      BY DEF Links
    <2>1. LinkOk(g, x) /\ (Counts(g)' => Counts(g))
      BY <1>3, <1>4 DEF ContInv, Links, Counts
    <2>2. CASE x \in hs
      <3>1. ASSUME Counts(g), item[x].at = item[g].at, x \in item[g].uses PROVE FALSE
        <4>1. item[g].at = c /\ item[x].inj = i /\ <<i, item[g].inj>> \in edges[c] /\ i < item[g].inj
          BY <1>3, <2>1, <2>2, <3>1 DEF LinkOk
        <4>2. item[g].held
          BY <1>2, <3>1, <4>1 DEF Counts, ContInv, Phases, PhaseOk
        <4>3. g \notin hs
          <5>1. i \in Nat
            BY <1>1, <1>2, ContainerAssumption DEF Phase
          <5> QED BY <1>3, <4>1, <5>1
        <4>4. item[g].inj \in closing[c].todo \ {i}
          BY <1>6, <4>1, <4>2, <4>3
        <4> QED BY <1>1, <4>1, <4>4 DEF ComesNext
      <3> QED BY <1>2, <1>4, <1>5, <2>1, <2>2, <3>1 DEF LinkOk, Made
    <2>3. CASE x \notin hs
      BY <1>2, <1>4, <2>1, <2>3 DEF LinkOk
    <2> QED BY <2>2, <2>3
  <1>12. Once'
    BY <1>2, <1>4 DEF ContInv, Once
  <1>13. ByHand' /\ Requests'
    BY <1>2, <1>4 DEF ContInv, ContTyped, ByHand, Requests
  <1>14. Phases'
    <2> SUFFICES ASSUME NEW b \in Containers PROVE PhaseOk(b)'
      BY DEF Phases
    <2>1. PhaseOk(b) /\ closing[b].now \subseteq Instances
      BY <1>2 DEF ContInv, Phases, Phase
    <2>2. CASE b # c
      BY <1>2, <1>3, <1>4, <1>8, <2>1, <2>2 DEF PhaseOk
    <2>3. CASE b = c
      BY <1>2, <1>3, <1>4, <1>6, <1>8, <2>1, <2>3 DEF PhaseOk
    <2> QED BY <2>2, <2>3
  <1> QED BY <1>9, <1>10, <1>11, <1>12, <1>13, <1>14 DEF ContInv

\* The disposers of one injectable settle.
LEMMA DisposalEndsKeepsContInv ==
    ASSUME ContInv, NEW c \in Containers, DisposalEnds(c) PROVE ContInv'
  <1>1. /\ closing \in [Containers -> Phase] /\ closing' = [closing EXCEPT ![c].now = {}]
        /\ item' = Gone(closing[c].now, {h \in Instances : \E g \in closing[c].now : h \in HeldOf(c, item[g].inj)})
        /\ asked = {} /\ asked' = {} /\ manual' = manual /\ dropped' = dropped
        /\ closing[c].now # {} /\ dropped \subseteq Instances
        /\ UNCHANGED <<provisions, edges, disposing>>
    BY DEF DisposalEnds, ContInv, ContTyped
  <1>2. closing[c].now \in SUBSET Instances /\ closing' \in [Containers -> Phase]
    BY <1>1 DEF Phase
  <1>3. \A h \in closing[c].now : item[h].state \in {"disposing", "disposed"}
    BY DEF ContInv, Phases, PhaseOk
  <1>4. \A b \in Containers : /\ closing'[b].phase = closing[b].phase /\ closing'[b].todo = closing[b].todo
                              /\ closing'[b].now \subseteq closing[b].now
                              /\ closing[b].now \subseteq closing'[b].now \cup closing[c].now
    BY <1>1 DEF Phase
  <1> DEFINE entry == {h \in Instances : \E g \in closing[c].now : h \in HeldOf(c, item[g].inj)}
  <1>5. entry \subseteq closing[c].now
    <2> SUFFICES ASSUME NEW h \in entry PROVE h \in closing[c].now
      OBVIOUS
    <2>1. PICK g \in closing[c].now : h \in HeldOf(c, item[g].inj)
      OBVIOUS
    <2>2. h \in Instances /\ item[h].at = c /\ item[h].inj = item[g].inj /\ item[h].held
      BY <2>1 DEF HeldOf, Of
    <2>3. PhaseOk(c)
      BY DEF ContInv, Phases
    <2> QED BY <2>1, <2>2, <2>3 DEF PhaseOk
  <1>6. entry \in SUBSET Instances
    OBVIOUS
  <1> QED BY <1>1, <1>2, <1>3, <1>4, <1>5, <1>6, EndingKeepsContInv

\* Nothing is held any more when the maps are cleared.
LEMMA EndDisposeKeepsContInv ==
    ASSUME ContInv, NEW c \in Containers, EndDispose(c) PROVE ContInv'
  <1>1. /\ closing \in [Containers -> Phase] /\ disposing \in [Containers -> BOOLEAN]
        /\ closing[c].phase = "disposing" /\ closing[c].todo = {} /\ closing[c].now = {} /\ asked = {}
        /\ edges' = [edges EXCEPT ![c] = {}] /\ disposing' = [disposing EXCEPT ![c] = FALSE]
        /\ closing' = [closing EXCEPT ![c].phase = "open"]
        /\ UNCHANGED <<provisions, manual, dropped, asked>>
    BY DEF ContInv, ContTyped, EndDispose
  <1>2. \A h \in Instances : item[h].at = c => item[h].state # "resolving" /\ ~item[h].held
    BY <1>1 DEF ContInv, Phases, PhaseOk
  <1>3. item' = item
    <2>1. item \in [Instances -> Item]
      BY DEF ContInv, ContTyped
    <2>2. ASSUME NEW h \in Instances, item[h].at = c PROVE [item[h] EXCEPT !.held = FALSE] = item[h]
      <3>1. item[h] \in Item /\ item[h].held = FALSE
        BY <1>2, <2>1, <2>2 DEF Item
      <3> QED BY <3>1 DEF Item
    <2>3. item' = [h \in Instances |-> IF item[h].at = c THEN [item[h] EXCEPT !.held = FALSE] ELSE item[h]]
      BY DEF EndDispose
    <2> QED BY <2>1, <2>2, <2>3
  <1>4. closing' \in [Containers -> Phase] /\ disposing' \in [Containers -> BOOLEAN]
    BY <1>1 DEF Phase
  <1>5. \A b \in Containers : /\ closing'[b].now = closing[b].now /\ closing'[b].todo = closing[b].todo
                              /\ b # c => closing'[b] = closing[b]
                              /\ closing'[c].phase = "open"
    BY <1>1 DEF Phase
  <1>6. ContTyped'
    BY <1>1, <1>3, <1>4 DEF ContInv, ContTyped
  <1>7. Items'
    <2> SUFFICES ASSUME NEW g \in Instances PROVE ItemOk(g)'
      BY DEF Items
    <2>1. ItemOk(g)
      BY DEF ContInv, Items
    <2> QED BY <1>1, <1>3, <1>5, <2>1 DEF ItemOk
  <1>8. Links'
    <2> SUFFICES ASSUME NEW g \in Instances, NEW x \in Instances PROVE LinkOk(g, x)'
      BY DEF Links
    <2>1. LinkOk(g, x)
      BY DEF ContInv, Links
    <2>2. Counts(g) => item[g].at # c /\ item[g].at \in Containers
      BY <1>2 DEF Counts, ContInv, Items, ItemOk, Blank
    <2>3. \A b \in Containers : b # c => edges'[b] = edges[b]
      BY <1>1 DEF ContInv, ContTyped
    <2> QED BY <1>3, <2>1, <2>2, <2>3 DEF LinkOk, Counts
  <1>9. Once' /\ ByHand' /\ Requests'
    BY <1>1, <1>3 DEF ContInv, Once, ByHand, Requests
  <1>10. Phases'
    <2> SUFFICES ASSUME NEW b \in Containers PROVE PhaseOk(b)'
      BY DEF Phases
    <2>1. PhaseOk(b)
      BY DEF ContInv, Phases
    <2> QED BY <1>1, <1>3, <1>5, <2>1 DEF PhaseOk
  <1> QED BY <1>6, <1>7, <1>8, <1>9, <1>10 DEF ContInv

-----------------------------------------------------------------------------
\* The invariant gives the property.
LEMMA ContInvSound == ASSUME ContInv PROVE ContainerSound
  <1>1. CreatedOnce
    <2> SUFFICES ASSUME NEW c \in Containers, NEW i \in Injectables, ~Transient(i)
                 PROVE  Cardinality({h \in Of(c, i) \ dropped : item[h].state \in {"resolving", "live"}}) <= 1
      BY DEF CreatedOnce
    <2> DEFINE S == {h \in Of(c, i) \ dropped : item[h].state \in {"resolving", "live"}}
    <2>1. \A g, h \in S : g = h
      BY DEF ContInv, Once, Of
    <2>2. CASE S = {}
      BY <2>2, FS_EmptySet
    <2>3. CASE S # {}
      <3>1. PICK h \in S : TRUE
        BY <2>3
      <3>2. S = {h}
        BY <2>1, <3>1
      <3> HIDE DEF S
      <3>3. Cardinality(S) = 1
        BY <3>2, FS_Singleton
      <3> QED BY <3>3 DEF S
    <2> QED BY <2>2, <2>3
  <1>2. NothingStranded
    BY DEF ContInv, Items, ItemOk, NothingStranded
  <1>3. DirectDependenciesOutlive
    BY DEF ContInv, Links, LinkOk, Counts, DirectDependenciesOutlive
  <1> QED BY <1>1, <1>2, <1>3 DEF ContainerSound

\* Every step of the containers keeps the invariant.
LEMMA ContNextKeepsContInv == ASSUME ContInv, [ContNext]_contVars PROVE ContInv'
  <1>1. CASE UNCHANGED contVars
    BY <1>1 DEF contVars, ContInv, ContTyped, Items, ItemOk, Links, LinkOk, Counts, Once, ByHand, Phases, PhaseOk, Requests
  <1>2. ASSUME NEW c \in Containers, NEW i \in Injectables,
               \/ Resolve(c, i)
               \/ \E v \in Injectables \cup {Value} : Provide(c, i, v)
               \/ Withhold(c, i)
               \/ DisposeByHand(c, i)
        PROVE  ContInv'
    BY <1>2, ResolveKeepsContInv, ProvisionKeepsContInv, DisposeByHandKeepsContInv
  <1>3. ASSUME NEW h \in Instances, Created(h) \/ CreateFails(h) PROVE ContInv'
    BY <1>3, CreatedKeepsContInv, CreateFailsKeepsContInv
  <1>4. ASSUME NEW c \in Containers,
               \/ BeginDispose(c) \/ OrderDisposal(c)
               \/ DisposeNext(c) \/ DisposalEnds(c) \/ EndDispose(c)
        PROVE  ContInv'
    BY <1>4, BeginDisposeKeepsContInv, OrderDisposalKeepsContInv, DisposeNextKeepsContInv,
       DisposalEndsKeepsContInv, EndDisposeKeepsContInv
  <1>5. ASSUME NEW r \in asked, AnswerRequest(r) PROVE ContInv'
    BY <1>5, AnswerKeepsContInv
  <1>6. ASSUME NEW m \in manual, ByHandEnds(m) PROVE ContInv'
    BY <1>6, ByHandEndsKeepsContInv
  <1> QED BY <1>1, <1>2, <1>3, <1>4, <1>5, <1>6 DEF ContNext

\* Whatever injectables are declared, however the containers are nested and
\* requests, factories, manual disposals and the disposal of containers overlap
\* (container.ts): but for the instances that the late end of a manual disposal
\* drops with the entry of the instances map, a cached injectable is created
\* once per container and nothing that needs disposal gets out of its
\* container's sight; and an instance's direct dependencies are not disposed
\* before it.
THEOREM ContainersAreSound == ContSpec => []ContainerSound
  <1>1. ContInit => ContInv
    BY ContInitial
  <1>2. ContInv /\ [ContNext]_contVars => ContInv'
    BY ContNextKeepsContInv
  <1>3. ContInv => ContainerSound
    BY ContInvSound
  <1> QED BY <1>1, <1>2, <1>3, PTL DEF ContSpec
=============================================================================
