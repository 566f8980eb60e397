---------------------------- MODULE RunAdmission ----------------------------
(***************************************************************************)
(* Starting runs concurrently: client.start (runtime/client.ts) through    *)
(* startWorkflowRun and startTaskRun (coordinator/start.ts), the atomic    *)
(* start of Postgres (adapters/postgres/runtime.ts) and                    *)
(* createStoredRunWithState (store-runs.ts).                               *)
(*                                                                         *)
(* All starts use the same idempotency key, or the same unique key, or     *)
(* both, so that they meet.  An insert that meets an uncommitted row with  *)
(* its key waits for that row's transaction; one that meets a committed    *)
(* row inserts nothing.  A start may be over before its transaction is:    *)
(* the caller may have lent its own.                                       *)
(***************************************************************************)
EXTENDS Integers, Sequences

CONSTANTS
    Starters,     \* processes that start runs
    Requests,     \* what they may ask for
    MaxAdmitted,  \* bound: run rows inserted
    MaxLost       \* bound: crashes and failed enqueues

RequestType ==
    [idem : BOOLEAN, scope : {"none", "active", "all"}, join : BOOLEAN, input : Nat,
     atomic : BOOLEAN, retry : BOOLEAN]

ASSUME RequestAssumption == Requests \subseteq RequestType

VARIABLES
    rows,     \* workflow_runs: the columns of each run, in the order of the inserts
    sent,     \* runs whose first command is in the queue
    starts,   \* starter to its call
    lost      \* crashes and failed enqueues so far

admissionVars == <<rows, sent, starts, lost>>

(***************************************************************************)
(* A request: with the idempotency key or not, the scope of its unique key *)
(* and whether it joins the holder, its input, and whether the adapter     *)
(* starts atomically.                                                      *)
(***************************************************************************)
Request(idem, scope, join, input, atomic) ==
    [idem |-> idem, scope |-> scope, join |-> join, input |-> input, atomic |-> atomic,
     retry |-> FALSE]

\* client.retry of some run: what it starts is in that run.
Retry == [Request(FALSE, "none", FALSE, 0, TRUE) EXCEPT !.retry = TRUE]

AdmissionInit ==
    /\ rows = <<>>
    /\ sent = {}
    /\ \E reqs \in [Starters -> Requests] :
         starts = [p \in Starters |-> [pc |-> IF reqs[p].retry THEN "retry" ELSE "loadIdempotent",
                                       req |-> reqs[p], round |-> 0, run |-> 0, left |-> 0]]
    /\ lost = 0

Committed == {r \in DOMAIN rows : rows[r].committed}

\* The partial unique indexes: idempotency_idx, unique_active_idx, unique_all_idx.
IdemHolders(R) == {r \in R : rows[r].idem}
ScopeHolders(R, scope) ==
    {r \in R : /\ scope # "none" /\ rows[r].scope = scope
               /\ scope = "active" => rows[r].live}

Goto(p, pc) == starts' = [starts EXCEPT ![p].pc = pc]
AnswerWith(p, pc, r) == starts' = [starts EXCEPT ![p].pc = pc, ![p].run = r]

-----------------------------------------------------------------------------
\* retryRun: a run that is over is started again with its input and unique key,
\* and without its idempotency key.  A live one is refused.
RetryRun(p, r) ==
    /\ starts[p].pc = "retry"
    /\ r \in Committed /\ rows[r].input # 0
    /\ starts' = [starts EXCEPT ![p] = IF rows[r].live THEN [@ EXCEPT !.pc = "refused"]
                     ELSE [@ EXCEPT !.pc = "loadIdempotent", !.req.scope = rows[r].scope,
                                    !.req.join = rows[r].join, !.req.input = rows[r].input]]
    /\ UNCHANGED <<rows, sent, lost>>

\* A start of a run that exists ends at once in its transaction; without one,
\* startWorkflowRun and startTaskRun enqueue a command for it all the same.
Existing(p) == IF starts[p].req.atomic THEN "answered" ELSE "enqueue"

\* An existing run with the key must be the same request.
FoundIdempotent(p, r) ==
    IF rows[r].input = starts[p].req.input THEN AnswerWith(p, Existing(p), r)
    ELSE AnswerWith(p, "conflicting", r)

\* resolveUniqueConflict
FoundUnique(p, r) ==
    IF starts[p].req.join THEN AnswerWith(p, Existing(p), r) ELSE AnswerWith(p, "conflict", r)

LoadIdempotentRun(p) ==
    /\ starts[p].pc = "loadIdempotent"
    /\ LET held == IF starts[p].req.idem THEN IdemHolders(Committed) ELSE {}
       IN  \/ \E r \in held : FoundIdempotent(p, r)
           \/ held = {} /\ Goto(p, "loadUnique")
    /\ UNCHANGED <<rows, sent, lost>>

LoadUniqueRun(p) ==
    /\ starts[p].pc = "loadUnique"
    /\ LET held == ScopeHolders(Committed, starts[p].req.scope)
       IN  \/ \E r \in held : FoundUnique(p, r)
           \/ held = {} /\ Goto(p, "insert")
    /\ UNCHANGED <<rows, sent, lost>>

\* Seeded fault: the idempotency key has no unique index.
ConflictingUnindexed(req, R) == ScopeHolders(R, req.scope)

Conflicting(req, R) ==
    (IF req.idem THEN IdemHolders(R) ELSE {}) \cup ScopeHolders(R, req.scope)

\* INSERT ... ON CONFLICT DO NOTHING.  Outside a transaction it commits.
InsertRun(p) ==
    LET req == starts[p].req
        r == Len(rows) + 1
    IN  /\ starts[p].pc = "insert"
        /\ Conflicting(req, DOMAIN rows \ Committed) = {}
        /\ \/ /\ Conflicting(req, Committed) # {}
              /\ Goto(p, "recoverIdempotent")
              /\ UNCHANGED rows
           \/ /\ Conflicting(req, Committed) = {}
              /\ Len(rows) < MaxAdmitted
              /\ rows' = Append(rows, [idem |-> req.idem, scope |-> req.scope, join |-> req.join,
                                       input |-> req.input, live |-> TRUE, committed |-> ~req.atomic])
              /\ AnswerWith(p, "enqueue", r)
        /\ UNCHANGED <<sent, lost>>

RecoverIdempotent(p) ==
    /\ starts[p].pc = "recoverIdempotent"
    /\ LET held == IF starts[p].req.idem THEN IdemHolders(Committed) ELSE {}
       IN  \/ \E r \in held : FoundIdempotent(p, r)
           \/ held = {} /\ Goto(p, "recoverUnique")
    /\ UNCHANGED <<rows, sent, lost>>

\* The loop of two inserts: one retry.
Retries == 1

\* WorkflowRunInsertConflict after the last round.
RecoverUnique(p) ==
    /\ starts[p].pc = "recoverUnique"
    /\ LET held == ScopeHolders(Committed, starts[p].req.scope)
       IN  \/ \E r \in held : FoundUnique(p, r)
           \/ /\ held = {}
              /\ starts' = [starts EXCEPT ![p].round = @ + 1,
                              ![p].pc = IF starts[p].round < Retries THEN "insert" ELSE "gaveUp"]
    /\ UNCHANGED <<rows, sent, lost>>

-----------------------------------------------------------------------------
\* Seeded fault: the transaction ends before the command is enqueued.
EnqueueLater(p) ==
    /\ starts[p].pc = "enqueue"
    /\ Goto(p, "answered")
    /\ rows' = [rows EXCEPT ![starts[p].run].committed = TRUE]
    /\ UNCHANGED <<sent, lost>>

\* The continue of a workflow, or the node, child, attempt and command of a
\* task: inside the transaction they wait for its commit.
EnqueueStart(p) ==
    /\ starts[p].pc = "enqueue"
    /\ IF starts[p].req.atomic THEN Goto(p, "commit") /\ UNCHANGED sent
       ELSE Goto(p, "answered") /\ sent' = sent \cup {starts[p].run}
    /\ UNCHANGED <<rows, lost>>

\* The starts that see a run give its key up count it.
Departing(r) ==
    [p \in Starters |-> IF rows[r].scope = "active" /\ starts[p].pc # "answered"
                        THEN [starts[p] EXCEPT !.left = @ + 1] ELSE starts[p]]

\* The enqueue throws: a transaction is rolled back, elsewhere failRun ends
\* the run, whoever started it.
EnqueueFails(p) ==
    /\ starts[p].pc = "enqueue"
    /\ lost < MaxLost
    /\ lost' = lost + 1
    /\ starts' = [Departing(starts[p].run) EXCEPT ![p].pc = "failed"]
    /\ rows' = IF starts[p].req.atomic
               THEN [r \in DOMAIN rows |-> IF r = starts[p].run
                        THEN [rows[r] EXCEPT !.live = FALSE, !.idem = FALSE, !.scope = "none", !.input = 0,
                                             !.committed = TRUE]
                        ELSE rows[r]]
               ELSE [rows EXCEPT ![starts[p].run].live = FALSE]
    /\ UNCHANGED sent

Commit(p) ==
    /\ starts[p].pc = "commit"
    /\ Goto(p, "answered")
    /\ rows' = [rows EXCEPT ![starts[p].run].committed = TRUE]
    /\ sent' = sent \cup {starts[p].run}
    /\ UNCHANGED lost

\* The process dies, or the caller rolls its transaction back: an uncommitted
\* row goes (it stays in `rows` as one with no key
\* and no input).
Crash(p) ==
    /\ starts[p].pc \in {"loadIdempotent", "loadUnique", "insert", "recoverIdempotent",
                         "recoverUnique", "enqueue", "commit"}
    /\ lost < MaxLost
    /\ lost' = lost + 1
    /\ Goto(p, "crashed")
    /\ rows' = [r \in DOMAIN rows |->
                  IF starts[p].pc \in {"enqueue", "commit"} /\ r = starts[p].run /\ ~rows[r].committed
                  THEN [rows[r] EXCEPT !.live = FALSE, !.idem = FALSE, !.scope = "none", !.input = 0,
                                       !.committed = TRUE]
                  ELSE rows[r]]
    /\ UNCHANGED sent

\* A run ends, whatever ended it.
RunEnds(r) ==
    /\ rows[r].committed /\ rows[r].live
    /\ r \in sent
    /\ rows' = [rows EXCEPT ![r].live = FALSE]
    /\ starts' = Departing(r)
    /\ UNCHANGED <<sent, lost>>

AdmissionNext ==
    \/ \E p \in Starters :
         \/ LoadIdempotentRun(p) \/ LoadUniqueRun(p) \/ InsertRun(p)
         \/ RecoverIdempotent(p) \/ RecoverUnique(p)
         \/ EnqueueStart(p) \/ EnqueueFails(p) \/ Commit(p) \/ Crash(p)
    \/ \E r \in DOMAIN rows : RunEnds(r) \/ \E p \in Starters : RetryRun(p, r)

AdmissionSpec == AdmissionInit /\ [][AdmissionNext]_admissionVars

-----------------------------------------------------------------------------
\* Starts with the same idempotency key that are answered get the same run,
\* however they interleave: the loser of the insert finds the winner's row
\* (createStoredRunWithState).
IdempotentStartsAgree ==
    \A p, q \in Starters :
        starts[p].pc = "answered" /\ starts[q].pc = "answered"
            /\ starts[p].req.idem /\ starts[q].req.idem
            /\ rows[starts[p].run].idem /\ rows[starts[q].run].idem
        => starts[p].run = starts[q].run

\* A committed run that has not ended has its first command in the queue, so
\* that some worker will take it up.  Outside a transaction a start may be
\* about to enqueue it, or have died before it did.
AdmittedIsSent ==
    \A r \in Committed : rows[r].live => r \in sent \/
        \E p \in Starters : starts[p].run = r /\ ~starts[p].req.atomic /\ starts[p].pc \in {"enqueue", "crashed"}

\* A start gives up on its insert only when two holders of the key went away
\* under it: "The retry covers a holder leaving its uniqueness scope between
\* the conflict and the recovery read".
GivesUpOnlyOnChurn ==
    \A p \in Starters : starts[p].pc = "gaveUp" => starts[p].left > 1

\* Racing starts of one key end with one run, and give up only when the key
\* changed hands under them.
StartsAgree == IdempotentStartsAgree /\ GivesUpOnlyOnChurn
=============================================================================
