---------------------------- MODULE StoreParity ----------------------------
(***************************************************************************)
(* The two workflow stores side by side: the in-memory one                 *)
(* (runtime/in-memory.ts) and the Postgres one (adapters/postgres/         *)
(* store-*.ts) receive the same calls and must give the same answers and   *)
(* hold the same rows.  Everything tested on the first is meant to run on  *)
(* the second.                                                             *)
(*                                                                         *)
(* A run has one node, whose children are Keys.  A store is a record of    *)
(* its tables, of how many identifiers it gave out and, for the in-memory  *)
(* one, of the maps that stand for the unique indexes of Postgres.         *)
(* Concurrent calls of the Postgres store are the subject of RunStore and  *)
(* RunTree: here a call is over before the next.                           *)
(***************************************************************************)
EXTENDS Transitions, Integers, Sequences, SequencesExt, FiniteSets

CONSTANTS
    Keys,         \* child keys of a node
    MaxRuns,      \* bound: runs created
    MaxAttempts,  \* bound: attempts created
    MaxTokens,    \* bound: run leases acquired
    MaxChanges    \* bound: calls that change a row

ASSUME StoreAssumption == MaxRuns \in Nat

VARIABLES
    mem,      \* the in-memory store
    pg,       \* the Postgres store
    same,     \* all answers were the same so far
    pruned,   \* retention met a terminal root with a live descendant
    changes

storeVars == <<mem, pg, same, pruned, changes>>

Scopes == {"none", "active", "all"}

EmptyStore ==
    [runs |-> <<>>, nodes |-> <<>>, kids |-> <<>>, attempts |-> <<>>, leases |-> <<>>,
     keys |-> [idem |-> 0, active |-> 0, all |-> 0],
     ids |-> [run |-> 0, attempt |-> 0, token |-> 0]]

StoreInit ==
    /\ mem = EmptyStore
    /\ pg = EmptyStore
    /\ same = TRUE
    /\ pruned = FALSE
    /\ changes = 0

\* The tables, as far as both stores have them.
StoredRows(d) == [d EXCEPT !.keys = 0]

WithRows(f, S, row) == [x \in DOMAIN f \cup S |-> IF x \in S THEN row ELSE f[x]]
Without(f, S) == [x \in DOMAIN f \ S |-> f[x]]

\* Every change of a row raises its version.
Touched(row) == [row EXCEPT !.version = @ + 1]
Moved(row, to) == [row EXCEPT !.status = to, !.version = @ + 1]
Cased(row, case) == [row EXCEPT !.case = case, !.version = @ + 1]
Linked(row, run) == [row EXCEPT !.run = run, !.status = "running", !.version = @ + 1]
Attempted(row, a) == [row EXCEPT !.status = "running", !.attempt = a, !.count = @ + 1, !.version = @ + 1]

\* The members of s that are in S, in the order of s.
Picked(s, S) ==
    LET kept[n \in 0..Len(s)] ==
            IF n = 0 THEN <<>>
            ELSE IF s[n] \in S THEN Append(kept[n - 1], s[n]) ELSE kept[n - 1]
    IN  kept[Len(s)]

Done(d, answer) == [db |-> d, answer |-> answer]
Throw(d) == Done(d, <<"throws">>)
Nothing == <<"none">>

-----------------------------------------------------------------------------
(* Creating a run.                                                         *)

RunMatchesCreateInput(run, in, r) ==
    /\ run.input = in.input
    /\ run.parent = in.parent
    /\ run.root = (IF in.parent = 0 THEN r ELSE in.root)

MemIdempotentRun(d) == d.keys.idem

PgIdempotentRun(d) ==
    LET holders == {r \in DOMAIN d.runs : d.runs[r].idem}
    IN  IF holders = {} THEN 0 ELSE CHOOSE r \in holders : TRUE

MemUniqueRun(d, scope) == IF d.keys[scope] \in DOMAIN d.runs THEN d.keys[scope] ELSE 0

PgUniqueRun(d, scope) ==
    LET holders == {r \in DOMAIN d.runs :
                       /\ d.runs[r].scope = scope
                       /\ scope = "active" => d.runs[r].status \notin Terminal}
    IN  IF holders = {} THEN 0 ELSE CHOOSE r \in holders : TRUE

IdempotentRun(s, d) == IF s = "mem" THEN MemIdempotentRun(d) ELSE PgIdempotentRun(d)
UniqueRun(s, d, scope) ==
    IF scope = "none" THEN 0
    ELSE IF s = "mem" THEN MemUniqueRun(d, scope) ELSE PgUniqueRun(d, scope)

InsertStoredRun(s, d, in) ==
    LET r == d.ids.run + 1
        held(key) == s = "mem" /\ key
    IN  [d EXCEPT
            !.ids.run = r,
            !.runs = WithRows(@, {r}, [status |-> "queued", input |-> in.input, parent |-> in.parent,
                                       root |-> IF in.parent = 0 THEN r ELSE in.root,
                                       idem |-> in.idem, scope |-> in.scope, version |-> 1]),
            !.keys = [idem   |-> IF held(in.idem) THEN r ELSE @.idem,
                      active |-> IF held(in.scope = "active") THEN r ELSE @.active,
                      all    |-> IF held(in.scope = "all") THEN r ELSE @.all]]

\* The idempotency key is looked up first, then the unique key.
CreateRunWithState(s, d, in) ==
    LET idem == IF in.idem THEN IdempotentRun(s, d) ELSE 0
        unique == UniqueRun(s, d, in.scope)
        matches == idem \in DOMAIN d.runs /\ RunMatchesCreateInput(d.runs[idem], in, idem)
    IN  IF idem # 0 THEN IF matches THEN Done(d, <<"run", idem>>) ELSE Throw(d)
        ELSE IF unique # 0 THEN IF in.join THEN Done(d, <<"run", unique>>) ELSE Throw(d)
        ELSE Done(InsertStoredRun(s, d, in), <<"run", d.ids.run + 1>>)

-----------------------------------------------------------------------------
(* Status changes: the guard of a store, the row after it, and the answer, *)
(* which is the row as it then is.                                         *)

MemRunMay(from, to) ==
    CASE to \in {"running", "waiting"} -> from \in RunSources(to)
      [] to = "cancelling"             -> from \notin Terminal \cup {"cancelling"}
      [] to \in Terminal               -> from \notin Terminal

PgRunMay(from, to) == from \in RunSources(to)

\* Seeded fault: a run that ends keeps its unique key.
ReleaseActiveUniqueKeyNever(s, keys, r, to) == keys

ReleaseActiveUniqueKey(s, keys, r, to) ==
    IF s = "mem" /\ to \in Terminal /\ keys.active = r THEN [keys EXCEPT !.active = 0] ELSE keys

SetRun(s, d, r, to) ==
    LET may == IF s = "mem" THEN MemRunMay(d.runs[r].status, to)
                            ELSE PgRunMay(d.runs[r].status, to)
        e == [d EXCEPT !.runs[r] = Moved(@, to), !.keys = ReleaseActiveUniqueKey(s, @, r, to)]
    IN  IF may THEN Done(e, <<"row", e.runs[r]>>) ELSE Done(d, <<"row", d.runs[r]>>)

MemNodeMay(from, to) ==
    CASE to = "waiting"  -> from \notin Terminal \cup {"waiting"}
      [] to \in Terminal -> from \notin Terminal

PgNodeMay(from, to) ==
    CASE to = "waiting"  -> from # "waiting" /\ from \in NodeSources(to)
      [] to \in Terminal -> from \in NodeSources(to)

NodeMay(s, from, to) == IF s = "mem" THEN MemNodeMay(from, to) ELSE PgNodeMay(from, to)

SetNode(s, d, r, to) ==
    IF r \notin DOMAIN d.nodes THEN Done(d, Nothing)
    ELSE LET e == [d EXCEPT !.nodes[r] = Moved(@, to)]
         IN  IF NodeMay(s, d.nodes[r].status, to) THEN Done(e, <<"row", e.nodes[r]>>) ELSE Done(d, <<"row", d.nodes[r]>>)

SetKid(s, d, k, to) ==
    IF k \notin DOMAIN d.kids THEN Done(d, Nothing)
    ELSE LET e == [d EXCEPT !.kids[k] = Moved(@, to)]
         IN  IF NodeMay(s, d.kids[k].status, to) THEN Done(e, <<"row", e.kids[k]>>) ELSE Done(d, <<"row", d.kids[k]>>)

CancelNonTerminalRunNodes(s, d, r) ==
    LET hit(row) == NodeMay(s, row.status, "cancelled")
    IN  Done([d EXCEPT
                !.nodes = [n \in DOMAIN @ |-> IF n = r /\ hit(@[n]) THEN Moved(@[n], "cancelled") ELSE @[n]],
                !.kids = [k \in DOMAIN @ |-> IF k[1] = r /\ hit(@[k]) THEN Moved(@[k], "cancelled") ELSE @[k]]],
             <<"nodes", {n \in DOMAIN d.nodes : n = r /\ hit(d.nodes[n])}>>)

-----------------------------------------------------------------------------
(* Nodes and their children.                                               *)

CreateNode(d, r) ==
    LET e == IF r \in DOMAIN d.nodes THEN d
             ELSE [d EXCEPT !.nodes = WithRows(@, {r}, [status |-> "pending", version |-> 1, case |-> 0])]
    IN  Done(e, <<"row", e.nodes[r]>>)

SetNodeInput(d, r) ==
    IF r \notin DOMAIN d.nodes THEN Throw(d)
    ELSE LET e == IF d.nodes[r].status \in Terminal THEN d
                  ELSE [d EXCEPT !.nodes[r] = Touched(@)]
         IN  Done(e, <<"row", e.nodes[r]>>)

SelectNodeCase(d, r, case) ==
    IF r \notin DOMAIN d.nodes THEN Done(d, Nothing)
    ELSE IF d.nodes[r].status \in Terminal \/ d.nodes[r].case = case THEN Done(d, <<"row", d.nodes[r]>>)
    ELSE IF d.nodes[r].case # 0 THEN Throw(d)
    ELSE LET e == [d EXCEPT !.nodes[r] = Cased(@, case)]
         IN  Done(e, <<"row", e.nodes[r]>>)

\* The children are created together; another set of them conflicts.
EnsureNodeChildren(d, r, K) ==
    LET existing == {k \in DOMAIN d.kids : k[1] = r}
        wanted == {<<r, key>> : key \in K}
        row == [status |-> "pending", version |-> 1, run |-> 0, attempt |-> 0, count |-> 0]
    IN  IF r \notin DOMAIN d.nodes THEN Throw(d)
        ELSE IF existing # {} THEN IF existing = wanted THEN Done(d, <<"children", wanted>>) ELSE Throw(d)
        ELSE Done([d EXCEPT !.kids = WithRows(@, wanted, row)], <<"children", wanted>>)

\* The existing link of a child wins; an ended child throws, in Postgres after
\* the fresh run was rolled back with the transaction.
EnsureChildRun(s, d, k, in) ==
    LET child == d.kids[k]
        made == CreateRunWithState(s, d, [input |-> in.input, idem |-> in.idem, scope |-> "none", join |-> FALSE,
                                          parent |-> k[1], root |-> d.runs[k[1]].root])
        linked == d.runs[child.run]
    IN  IF k \notin DOMAIN d.kids THEN Throw(d)
        ELSE IF child.run # 0
        THEN IF linked.input = in.input /\ linked.idem = in.idem THEN Done(d, <<"run", child.run>>)
             ELSE Throw(d)
        ELSE IF child.status \in Terminal \/ made.answer = <<"throws">> THEN Throw(d)
        ELSE Done([made.db EXCEPT !.kids[k] = Linked(@, made.answer[2])], made.answer)

-----------------------------------------------------------------------------
(* Attempts.                                                               *)

\* "Self-inclusive like the postgres guard".
MemNodeRuns(from) == from = "running" \/ from \in NodeSources("running")
PgNodeRuns(from) == from \in NodeSources("running") \cup {"running"}

CreateChildAttempt(s, d, k) ==
    LET a == d.ids.attempt + 1
        r == k[1]
        runs == r \in DOMAIN d.nodes
                /\ IF s = "mem" THEN MemNodeRuns(d.nodes[r].status) ELSE PgNodeRuns(d.nodes[r].status)
        e == [d EXCEPT
                !.ids.attempt = a,
                !.attempts = WithRows(@, {a}, [kid |-> k, status |-> "started", number |-> d.kids[k].count + 1]),
                !.kids[k] = Attempted(@, a)]
    IN  Done(IF runs THEN [e EXCEPT !.nodes[r] = Moved(@, "running")] ELSE e,
             <<"attempt", a>>)

CreateAttempt(s, d, k) ==
    IF k \notin DOMAIN d.kids \/ d.kids[k].status \in Terminal THEN Throw(d)
    ELSE CreateChildAttempt(s, d, k)

EnsureChildAttempt(s, d, k) ==
    IF k \in DOMAIN d.kids /\ d.kids[k].count > 0 THEN Done(d, <<"attempt", d.kids[k].attempt>>)
    ELSE CreateAttempt(s, d, k)

\* An attempt settles while its child points at it and has not ended.
FencedCurrentAttempt(d, a) ==
    /\ a \in DOMAIN d.attempts
    /\ d.attempts[a].status = "started"
    /\ d.kids[d.attempts[a].kid].attempt = a
    /\ d.kids[d.attempts[a].kid].status \notin Terminal

SettleCurrentAttempt(d, a, to) ==
    LET k == d.attempts[a].kid
        settled == [d EXCEPT !.attempts[a].status = to]
    IN  IF ~FencedCurrentAttempt(d, a) THEN Done(d, Nothing)
        ELSE IF to = "completed"
        THEN Done([settled EXCEPT !.kids[k] = Moved(@, to)], <<"settled">>)
        ELSE Done(settled, <<"settled">>)

-----------------------------------------------------------------------------
(* Run leases.                                                             *)

AcquireRunLease(d, r) ==
    IF r \in DOMAIN d.leases /\ d.leases[r].live THEN Done(d, Nothing)
    ELSE LET lease == [token |-> d.ids.token + 1, version |-> d.runs[r].version, live |-> TRUE]
         IN  Done([d EXCEPT !.ids.token = @ + 1, !.leases = WithRows(@, {r}, lease)], <<"row", lease>>)

Holds(d, r, token) == r \in DOMAIN d.leases /\ d.leases[r].token = token

\* A lease that ran out unnoticed is renewed: only its token counts.
RenewRunLease(d, r, token) ==
    IF Holds(d, r, token) THEN Done([d EXCEPT !.leases[r].live = TRUE], <<"renewed">>)
    ELSE Done(d, Nothing)

ReleaseRunLease(d, r, token) ==
    Done(IF Holds(d, r, token) THEN [d EXCEPT !.leases = Without(@, {r})] ELSE d, Nothing)

RunLeaseExpires(d, r) ==
    Done(IF r \in DOMAIN d.leases THEN [d EXCEPT !.leases[r].live = FALSE] ELSE d, Nothing)

-----------------------------------------------------------------------------
(* Deletion.                                                               *)

\* collectRunTreeIds: the runs reached through parents.
RunTree(d, R) ==
    LET grow[n \in 0..MaxRuns] ==
            IF n = 0 THEN R
            ELSE grow[n - 1] \cup {r \in DOMAIN d.runs : d.runs[r].parent \in grow[n - 1]}
    IN  grow[MaxRuns]

\* collectRunDescendantIds, the query over descendants: through parents or root.
Descendants(d, r) == RunTree(d, {r}) \cup {x \in DOMAIN d.runs : d.runs[x].root = r}

MemDeleteRunTrees(d, R) ==
    LET kept(key) == IF d.keys[key] \in R THEN 0 ELSE d.keys[key] IN
    [d EXCEPT
        !.runs = Without(@, R), !.leases = Without(@, R), !.nodes = Without(@, R),
        !.keys = [idem |-> kept("idem"), active |-> kept("active"), all |-> kept("all")],
        !.attempts = Without(@, {a \in DOMAIN @ : @[a].kid[1] \in R}),
        !.kids = Without(@, {k \in DOMAIN @ : k[1] \in R \/ @[k].run \in R})]

Unlinked(row, gone) == [row EXCEPT !.run = IF @ \in gone THEN 0 ELSE @]

\* Deleting a root cascades to its tree; a link to a deleted run becomes NULL.
PgDeleteRuns(d, R) ==
    LET gone == RunTree(d, R) IN
    [d EXCEPT
        !.runs = Without(@, gone), !.leases = Without(@, gone), !.nodes = Without(@, gone),
        !.attempts = Without(@, {a \in DOMAIN @ : @[a].kid[1] \in gone}),
        !.kids = [k \in {j \in DOMAIN @ : j[1] \notin gone} |-> Unlinked(@[k], gone)]]

DeleteRuns(s, d, R) == IF s = "mem" THEN MemDeleteRunTrees(d, RunTree(d, R)) ELSE PgDeleteRuns(d, R)

MemPrunable(d, r) == d.runs[r].parent = 0 /\ d.runs[r].status \in Terminal

\* Seeded fault: the roots' descendants are not looked at.
PgPrunableAlone(d, r) == MemPrunable(d, r)

PgPrunable(d, r) ==
    /\ d.runs[r].parent = 0 /\ d.runs[r].status \in Terminal
    /\ \A x \in DOMAIN d.runs : d.runs[x].root = r => d.runs[x].status \in Terminal

\* `old` are the runs last updated before the cutoff, the oldest first.
PruneTerminalRuns(s, d, old, batchSize) ==
    LET prunable(r) == IF s = "mem" THEN MemPrunable(d, r) ELSE PgPrunable(d, r)
        roots == Picked(old, {r \in DOMAIN d.runs : prunable(r)})
        batch == SubSeq(roots, 1, IF Len(roots) < batchSize THEN Len(roots) ELSE batchSize)
    IN  Done(DeleteRuns(s, d, Range(batch)), <<"deleted", Len(batch)>>)

DeleteStoredRun(s, d, r) ==
    IF d.runs[r].parent # 0 THEN Throw(d)
    ELSE IF \E x \in Descendants(d, r) : d.runs[x].status \notin Terminal THEN Throw(d)
    ELSE Done(IF s = "mem" THEN MemDeleteRunTrees(d, Descendants(d, r)) ELSE PgDeleteRuns(d, {r}),
              <<"deleted">>)

-----------------------------------------------------------------------------
(* The calls.                                                              *)

Both(Op(_, _)) ==
    LET m == Op("mem", mem)
        p == Op("pg", pg)
    IN  /\ changes < MaxChanges
        /\ mem' = m.db
        /\ pg' = p.db
        /\ same' = (same /\ m.answer = p.answer)
        /\ changes' = IF m.db = mem THEN changes ELSE changes + 1

CallCreateRun ==
    /\ mem.ids.run < MaxRuns
    /\ \E input \in {1, 2}, idem \in BOOLEAN, scope \in Scopes, join \in BOOLEAN :
         /\ scope = "none" => ~join
         /\ input = 2 => idem
         /\ Both(LAMBDA s, d : CreateRunWithState(s, d,
                    [input |-> input, idem |-> idem, scope |-> scope, join |-> join,
                     parent |-> 0, root |-> 0]))
    /\ UNCHANGED pruned

CallRun(r) ==
    /\ \/ \E to \in {"running", "waiting", "cancelling"} \cup Terminal :
            Both(LAMBDA s, d : SetRun(s, d, r, to))
       \/ Both(LAMBDA s, d : CancelNonTerminalRunNodes(s, d, r))
    /\ UNCHANGED pruned

CallNode(r) ==
    /\ \/ Both(LAMBDA s, d : CreateNode(d, r))
       \/ Both(LAMBDA s, d : SetNodeInput(d, r))
       \/ \E case \in {1, 2} : Both(LAMBDA s, d : SelectNodeCase(d, r, case))
       \/ \E to \in {"waiting"} \cup Terminal : Both(LAMBDA s, d : SetNode(s, d, r, to))
       \/ \E K \in SUBSET Keys \ {{}} : Both(LAMBDA s, d : EnsureNodeChildren(d, r, K))
    /\ UNCHANGED pruned

CallChild(k) ==
    /\ \/ \E to \in {"completed", "failed"} : Both(LAMBDA s, d : SetKid(s, d, k, to))
       \/ /\ mem.ids.run < MaxRuns
          /\ \E input \in {1, 2}, idem \in BOOLEAN :
               Both(LAMBDA s, d : EnsureChildRun(s, d, k, [input |-> input, idem |-> idem]))
       \/ /\ mem.ids.attempt < MaxAttempts
          /\ \/ Both(LAMBDA s, d : CreateAttempt(s, d, k))
             \/ Both(LAMBDA s, d : EnsureChildAttempt(s, d, k))
    /\ UNCHANGED pruned

CallAttempt(a) ==
    /\ \E to \in {"completed", "failed", "timedOut"} :
         Both(LAMBDA s, d : SettleCurrentAttempt(d, a, to))
    /\ UNCHANGED pruned

CallLease(r) ==
    /\ \/ mem.ids.token < MaxTokens /\ Both(LAMBDA s, d : AcquireRunLease(d, r))
       \/ \E t \in 1..MaxTokens : Both(LAMBDA s, d : RenewRunLease(d, r, t))
       \/ \E t \in 1..MaxTokens : Both(LAMBDA s, d : ReleaseRunLease(d, r, t))
       \/ Both(LAMBDA s, d : RunLeaseExpires(d, r))
    /\ UNCHANGED pruned

Orders(S) == {q \in UNION {[1..n -> S] : n \in 0..Cardinality(S)} : \A i, j \in DOMAIN q : q[i] = q[j] => i = j}

CallPruneTerminalRuns ==
    /\ \E old \in Orders(DOMAIN mem.runs), batchSize \in {1, MaxRuns} :
         /\ old # <<>>
         /\ Both(LAMBDA s, d : PruneTerminalRuns(s, d, old, batchSize))
         /\ pruned' = (pruned \/ \E i \in DOMAIN old :
                          MemPrunable(mem, old[i]) /\ ~PgPrunable(pg, old[i]))

CallDeleteRun(r) ==
    /\ Both(LAMBDA s, d : DeleteStoredRun(s, d, r))
    /\ UNCHANGED pruned

\* Callers hold a run that exists.  Once retention has parted the stores the
\* comparison is over.
StoreNext ==
    /\ ~pruned
    /\ \/ CallCreateRun
       \/ CallPruneTerminalRuns
       \/ \E r \in DOMAIN mem.runs \cap DOMAIN pg.runs :
            \/ CallRun(r) \/ CallNode(r) \/ CallLease(r) \/ CallDeleteRun(r)
            \/ \E key \in Keys : CallChild(<<r, key>>)
       \/ \E a \in DOMAIN mem.attempts \cap DOMAIN pg.attempts : CallAttempt(a)

StoreSpec == StoreInit /\ [][StoreNext]_storeVars

-----------------------------------------------------------------------------
(* Reading.                                                                *)

Newest(d) == LET n == d.ids.run IN Picked([i \in 1..n |-> n + 1 - i], DOMAIN d.runs)

RunMatchesFilter(d, r, filter) ==
    CASE filter = "any"      -> TRUE
      [] filter = "terminal" -> d.runs[r].status \in Terminal
      [] filter = "roots"    -> d.runs[r].parent = 0
      [] filter = "family"   -> d.runs[r].root = 1

Least(a, b) == IF a < b THEN a ELSE b

\* A page of the filtered list and where the next one starts.
MemListRuns(d, filter, limit, offset) ==
    LET filtered == Picked(Newest(d), {r \in DOMAIN d.runs : RunMatchesFilter(d, r, filter)})
        page == SubSeq(filtered, offset + 1, Least(offset + limit, Len(filtered)))
    IN  [runs |-> page, next |-> IF offset + Len(page) < Len(filtered) THEN offset + Len(page) ELSE 0]

\* One row more than the page is read to learn whether there is a next one.
PgListRuns(d, filter, limit, offset) ==
    LET filtered == Picked(Newest(d), {r \in DOMAIN d.runs : RunMatchesFilter(d, r, filter)})
        rows == SubSeq(filtered, offset + 1, Least(offset + limit + 1, Len(filtered)))
    IN  [runs |-> SubSeq(rows, 1, Least(limit, Len(rows))),
         next |-> IF Len(rows) > limit THEN offset + limit ELSE 0]

MemRunSummary(d, r) ==
    LET its == {n \in DOMAIN d.nodes : n = r}
    IN  [run |-> d.runs[r], total |-> Cardinality(its),
         completed |-> Cardinality({n \in its : d.nodes[n].status = "completed"})]

\* The node counts are joined laterally.
PgRunSummary(d, r) ==
    [run |-> d.runs[r], total |-> IF r \in DOMAIN d.nodes THEN 1 ELSE 0,
     completed |-> IF r \in DOMAIN d.nodes THEN IF d.nodes[r].status = "completed" THEN 1 ELSE 0 ELSE 0]

LoadRunSnapshot(d, r) ==
    [run |-> d.runs[r],
     nodes |-> Without(d.nodes, DOMAIN d.nodes \ {r}),
     kids |-> Without(d.kids, {k \in DOMAIN d.kids : k[1] # r}),
     attempts |-> Without(d.attempts, {a \in DOMAIN d.attempts : d.attempts[a].kid[1] # r})]

LoadNodeSnapshot(d, r) ==
    IF r \notin DOMAIN d.nodes THEN Nothing
    ELSE <<"node", [LoadRunSnapshot(d, r) EXCEPT !.run = 0]>>

\* The child runs of a run: those its children name.
MemLoadRunDetail(d, r) ==
    LET childRunIds == {d.kids[k].run : k \in {j \in DOMAIN d.kids : j[1] = r}}
    IN  <<MemRunSummary(d, r), LoadRunSnapshot(d, r),
          {MemRunSummary(d, c) : c \in {x \in DOMAIN d.runs : x \in childRunIds}}>>

\* A run that several children name is joined once.
PgLoadRunDetail(d, r) ==
    <<PgRunSummary(d, r), LoadRunSnapshot(d, r),
      {PgRunSummary(d, c) : c \in
          {x \in DOMAIN d.runs : \E k \in DOMAIN d.kids : k[1] = r /\ d.kids[k].run = x}}>>

MemListRunFamily(d, r) == {x \in DOMAIN d.runs : d.runs[x].root = d.runs[r].root}

PgListRunFamily(d, r) ==
    {x \in DOMAIN d.runs : \E target \in {r} \cap DOMAIN d.runs : d.runs[x].root = d.runs[target].root}

-----------------------------------------------------------------------------
\* The two stores stay in lockstep: after the same calls they hold the same
\* rows with the same versions and have given the same answers, the winner of
\* every idempotent and unique start included.  In memory that rests on maps
\* every status change and deletion must keep up to date (in-memory.ts), where
\* Postgres has indexes.  Retention of a tree with a live run is set apart.
RowsAndAnswersAgree == ~pruned => same /\ StoredRows(mem) = StoredRows(pg)

\* Every list, page by page, and every read of a run is the same from both
\* stores (listRuns, listRunSummaries, loadRunDetail, listRunFamily).
ReadsAgree ==
    ~pruned =>
        /\ \A filter \in {"any", "terminal", "roots", "family"}, limit \in 1..3, offset \in 0..MaxRuns :
             MemListRuns(mem, filter, limit, offset) = PgListRuns(pg, filter, limit, offset)
        /\ \A r \in DOMAIN mem.runs :
             /\ MemLoadRunDetail(mem, r) = PgLoadRunDetail(pg, r)
             /\ LoadNodeSnapshot(mem, r) = LoadNodeSnapshot(pg, r)
             /\ MemListRunFamily(mem, r) = PgListRunFamily(pg, r)

\* Neither retention nor deletion takes a run that has not ended, nor leaves a
\* run without its parent, in Postgres.
PgLiveRunsSurvive ==
    [][\A r \in DOMAIN pg.runs : pg.runs[r].status \notin Terminal =>
          /\ r \in DOMAIN pg.runs'
          /\ pg.runs[r].parent # 0 => pg.runs[r].parent \in DOMAIN pg.runs']_storeVars

\* The same of the in-memory store.  It does not hold: pruneTerminalRuns of
\* in-memory.ts deletes a terminal root with all its descendants, ended or not.
MemLiveRunsSurvive ==
    [][\A r \in DOMAIN mem.runs : mem.runs[r].status \notin Terminal => r \in DOMAIN mem.runs']_storeVars

\* The in-memory store is a faithful double of the Postgres one, in what it
\* holds, what it answers and what it reads.
StoresAgree == RowsAndAnswersAgree /\ ReadsAgree
=============================================================================
