----------------------------- MODULE MemoryQueue -----------------------------
(***************************************************************************)
(* The same queue contract in the in-memory runtime: arrays of queued      *)
(* items and maps of claimed ones.  An item is in exactly one of the two,  *)
(* so a row whose token is None is a queued item and any other a claimed   *)
(* one.  Each executor method runs without an await, hence in one step.    *)
(* Array order only decides which due item is claimed first and is left    *)
(* open.                                                                   *)
(***************************************************************************)
EXTENDS CommandTable

CONSTANT Serves

ASSUME ServesAssumption == Serves \in [Workers -> SUBSET Subjects]

VARIABLES cmds, held, owed, givenBack
memVars == <<cmds, held, owed, givenBack>>

Delivery == [cmd : CommandIds, subject : Subjects, fresh : BOOLEAN]

ASSUME IdleAssumption == None \notin Delivery

MemTypeOK ==
    /\ cmds \in Table
    /\ held \in [Workers -> Delivery \cup {None}]
    /\ owed \subseteq Subjects
    /\ givenBack \subseteq CommandIds

MemInit ==
    /\ cmds = EmptyTable
    /\ held = [w \in Workers |-> None]
    /\ owed = {}
    /\ givenBack = {}

Busy(w) == held[w] # None
MatchesClaim(w) == Leased(cmds, held[w].cmd, w)
Drop(w) == held' = [held EXCEPT ![w] = None]

\* Seeded fault: dead items absorb wake-ups too.
AbsorbingItemsOrDead(r) ==
    {c \in Rows(cmds) : cmds[c].subject = r /\ cmds[c].token = None}

(***************************************************************************)
(* The queued items a wake-up may be folded into.                          *)
(***************************************************************************)
AbsorbingItems(r) ==
    {c \in Rows(cmds) : /\ cmds[c].subject = r
                        /\ cmds[c].token = None
                        /\ ~cmds[c].dead}

\* Seeded fault: a wake-up is folded into an item a worker is executing.
EnqueueContinueOntoClaimed(r, c, now) ==
    LET same == {d \in Rows(cmds) : cmds[d].subject = r /\ ~cmds[d].dead}
    IN  /\ IF same # {}
           THEN c \in same /\ cmds' = [cmds EXCEPT ![c].due = @ \/ now]
           ELSE c \notin Rows(cmds) /\ cmds' = [cmds EXCEPT ![c] = NewRow(r, now)]
        /\ owed' = owed \cup {r}
        /\ held' = [w \in Workers |->
                      IF Busy(w) /\ held[w].subject = r
                      THEN [held[w] EXCEPT !.fresh = FALSE] ELSE held[w]]
        /\ givenBack' = IF same # {} THEN givenBack ELSE givenBack \ {c}

EnqueueContinue(r, c, now) ==
    /\ IF AbsorbingItems(r) # {}
       THEN c \in AbsorbingItems(r) /\ cmds' = [cmds EXCEPT ![c].due = @ \/ now]
       ELSE c \notin Rows(cmds) /\ cmds' = [cmds EXCEPT ![c] = NewRow(r, now)]
    /\ owed' = owed \cup {r}
    /\ held' = [w \in Workers |->
                  IF Busy(w) /\ held[w].subject = r
                  THEN [held[w] EXCEPT !.fresh = FALSE] ELSE held[w]]
    /\ givenBack' = IF AbsorbingItems(r) # {} THEN givenBack ELSE givenBack \ {c}

Dispatch(a, c, now) ==
    /\ AttemptRowExists(cmds, a) \/ c \notin Rows(cmds)
    /\ cmds' = DispatchAttempt(cmds, c, a, now)
    /\ owed' = owed \cup {a}
    /\ givenBack' = IF AttemptRowExists(cmds, a) THEN givenBack
                                                 ELSE givenBack \ {c}
    /\ UNCHANGED held

CountFailedDelivery(row) ==
    [row EXCEPT !.deliveries = @ + 1,
                !.dead = @ \/ row.deliveries + 1 >= MaxDeliveries]

(***************************************************************************)
(* Every expired lease the polling worker could serve goes back to its     *)
(* queue as a failed delivery.                                             *)
(***************************************************************************)
Reclaimed(w) ==
    [c \in CommandIds |->
        IF /\ c \in Rows(cmds)
           /\ cmds[c].token # None /\ cmds[c].expired
           /\ cmds[c].subject \in Serves[w]
        THEN [CountFailedDelivery(cmds[c]) EXCEPT !.token = None, !.expired = FALSE]
        ELSE cmds[c]]

ClaimCandidates(t, w) ==
    {c \in Rows(t) : /\ t[c].token = None /\ t[c].due /\ ~t[c].dead
                     /\ t[c].subject \in Serves[w]}

ClaimCommand(w, c) ==
    /\ ~Busy(w)
    /\ c \in ClaimCandidates(Reclaimed(w), w)
    /\ cmds' = [Reclaimed(w) EXCEPT ![c].token = w]
    /\ held' = [held EXCEPT ![w] = [cmd |-> c, subject |-> cmds[c].subject,
                                    fresh |-> TRUE]]
    /\ givenBack' = givenBack \ {c}
    /\ UNCHANGED owed

(***************************************************************************)
(* A poll that claims nothing has still reclaimed.                         *)
(***************************************************************************)
ClaimNothing(w) ==
    /\ ~Busy(w)
    /\ ClaimCandidates(Reclaimed(w), w) = {}
    /\ cmds' = Reclaimed(w)
    /\ UNCHANGED <<held, owed, givenBack>>

AckHeld(w) ==
    /\ Busy(w)
    /\ cmds' = Ack(cmds, held[w].cmd, w)
    /\ owed' = IF MatchesClaim(w) /\ held[w].fresh
               THEN owed \ {held[w].subject} ELSE owed
    /\ givenBack' = IF MatchesClaim(w) THEN givenBack \ {held[w].cmd} ELSE givenBack
    /\ Drop(w)

ReleaseQueueItem(row, counted) ==
    [(IF counted THEN CountFailedDelivery(row) ELSE row)
        EXCEPT !.token = None, !.expired = FALSE, !.due = FALSE]

Release(w, counted) ==
    /\ Busy(w)
    /\ cmds' = IF MatchesClaim(w)
               THEN [cmds EXCEPT ![held[w].cmd] = ReleaseQueueItem(@, counted)]
               ELSE cmds
    /\ Drop(w)
    /\ UNCHANGED owed

ReleaseHeld(w) ==
    /\ Release(w, FALSE)
    /\ givenBack' = IF MatchesClaim(w) THEN givenBack \cup {held[w].cmd} ELSE givenBack

FailHeld(w) == Release(w, TRUE) /\ UNCHANGED givenBack

HeartbeatHeld(w) ==
    /\ Busy(w) /\ held[w].subject \in Attempts
    /\ cmds' = Heartbeat(cmds, held[w].cmd, w)
    /\ IF MatchesClaim(w) THEN UNCHANGED held ELSE Drop(w)
    /\ UNCHANGED <<owed, givenBack>>

(***************************************************************************)
(* A worker loop of this process that ends without settling its command.   *)
(***************************************************************************)
Vanish(w) == Busy(w) /\ Drop(w) /\ UNCHANGED <<cmds, owed, givenBack>>

Withdrawn ==
    /\ owed' = owed \ {cmds[c].subject : c \in Rows(cmds) \ Rows(cmds')}
    /\ givenBack' = givenBack \cap Rows(cmds')
    /\ UNCHANGED held

DeleteUnclaimedOf(r) == cmds' = DeleteUnclaimed(cmds, r) /\ Withdrawn

DeleteRun(r) == cmds' = DeleteRunCommands(cmds, r) /\ Withdrawn

SweepDead(c) ==
    /\ c \in Rows(cmds) /\ cmds[c].dead
    /\ cmds' = SweepDeadCommand(cmds, c)
    /\ Withdrawn

MarkReaped(c) ==
    /\ c \in Rows(cmds) /\ cmds[c].dead
    /\ cmds' = MarkDeadCommandReaped(cmds, c)
    /\ UNCHANGED <<held, owed, givenBack>>

RequeueDead(c) ==
    /\ c \in Rows(cmds) /\ cmds[c].dead
    /\ cmds' = [cmds EXCEPT ![c] = NewRow(@.subject, TRUE)]
    /\ UNCHANGED <<held, owed, givenBack>>

LeaseExpires(c) ==
    /\ c \in Rows(cmds) /\ cmds[c].token # None /\ ~cmds[c].expired
    /\ cmds' = [cmds EXCEPT ![c].expired = TRUE]
    /\ UNCHANGED <<held, owed, givenBack>>

BecomesDue(c) ==
    /\ c \in Rows(cmds) /\ ~cmds[c].due
    /\ cmds' = [cmds EXCEPT ![c].due = TRUE]
    /\ UNCHANGED <<held, owed, givenBack>>

WorkerStep(w) ==
    \/ \E c \in CommandIds : ClaimCommand(w, c)
    \/ ClaimNothing(w)
    \/ AckHeld(w) \/ ReleaseHeld(w) \/ FailHeld(w)
    \/ HeartbeatHeld(w) \/ Vanish(w)

MemNext ==
    \/ \E c \in CommandIds, now \in BOOLEAN :
        \/ \E r \in Runs : EnqueueContinue(r, c, now)
        \/ \E a \in Attempts : Dispatch(a, c, now)
    \/ \E w \in Workers : WorkerStep(w)
    \/ \E r \in Runs : DeleteUnclaimedOf(r) \/ DeleteRun(r)
    \/ \E c \in CommandIds :
        \/ SweepDead(c) \/ MarkReaped(c) \/ RequeueDead(c)
        \/ LeaseExpires(c) \/ BecomesDue(c)

MemSpec == MemInit /\ [][MemNext]_memVars

-----------------------------------------------------------------------------
(***************************************************************************)
(* Item c still leads to a delivery that begins after every wake-up of its *)
(* subject so far.                                                         *)
(***************************************************************************)
Deliverable(c) ==
    LET w == cmds[c].token
    IN  \/ w = None
        \/ held[w] = None
        \/ held[w].cmd # c
        \/ held[w].fresh

(***************************************************************************)
(* No wake-up is lost between enqueueContinue's folding and the claimed    *)
(* map: as CommandQueue!OwedIsDeliverable.                                 *)
(***************************************************************************)
OwedIsDeliverable ==
    \A s \in owed : \E c \in Rows(cmds) :
        cmds[c].subject = s /\ (cmds[c].dead \/ Deliverable(c))

(***************************************************************************)
(* "Dead items must not absorb fresh enqueues": every wake-up leaves a     *)
(* live item of its run.                                                   *)
(***************************************************************************)
DeadNeverAbsorbs ==
    [][\A r \in Runs : (\E c \in CommandIds, now \in BOOLEAN :
                            EnqueueContinue(r, c, now))
        => \E c \in Rows(cmds') : cmds'[c].subject = r /\ ~cmds'[c].dead]_memVars

(***************************************************************************)
(* Error releases and reclaimed leases share one threshold rule.           *)
(***************************************************************************)
DeadExactlyAtThreshold ==
    \A c \in Rows(cmds) :
        /\ cmds[c].dead <=> cmds[c].deliveries >= MaxDeliveries
        /\ cmds[c].reaped => cmds[c].dead

(***************************************************************************)
(* A delivery that ended in a plain release is counted neither by the      *)
(* release itself nor by a later claim of the row.                         *)
(***************************************************************************)
PlainReleaseUncounted ==
    [][\A c \in (givenBack \cup givenBack') \cap Rows(cmds) \cap Rows(cmds') :
            cmds'[c].deliveries <= cmds[c].deliveries]_memVars

\* The in-memory queue keeps the contract of the Postgres one: items well
\* formed, no wake-up lost, and death at exactly the delivery threshold.
KeepsQueueContract == MemTypeOK /\ OwedIsDeliverable /\ DeadExactlyAtThreshold

\* And it keeps the two clauses of that contract which the Postgres queue
\* breaks: a dead item absorbs no wake-up, a plain release is not counted.
HoldsWherePostgresFails == DeadNeverAbsorbs /\ PlainReleaseUncounted
=============================================================================
