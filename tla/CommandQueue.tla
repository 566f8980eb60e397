---------------------------- MODULE CommandQueue ----------------------------
(***************************************************************************)
(* The durable command queue of the workflows package over its Postgres    *)
(* table: workers claim commands under a lease, settle them, give them     *)
(* back, or disappear; other processes enqueue, withdraw, requeue and      *)
(* sweep.  Every statement is one step, so statements of different         *)
(* processes interleave freely.                                            *)
(***************************************************************************)
EXTENDS CommandTable

CONSTANT
    Serves  \* per worker, the subjects whose names are in its claim filter

ASSUME ServesAssumption == Serves \in [Workers -> SUBSET Subjects]

VARIABLES
    cmds,      \* the table
    held,      \* per worker, the claimed command it is executing, or None
    owed,      \* history: subjects requested and not yet served since
    givenBack  \* history: rows whose latest delivery asked for a plain release
vars == <<cmds, held, owed, givenBack>>

(***************************************************************************)
(* failing: a plain release was refused by the database, the driver's      *)
(* catch clause is about to release with the error.  fresh (history): no   *)
(* wake-up of the subject was enqueued since the claim.                    *)
(***************************************************************************)
Delivery == [cmd : CommandIds, subject : Subjects,
             failing : BOOLEAN, fresh : BOOLEAN]

ASSUME IdleAssumption == None \notin Delivery

TypeOK ==
    /\ cmds \in Table
    /\ held \in [Workers -> Delivery \cup {None}]
    /\ owed \subseteq Subjects
    /\ givenBack \subseteq CommandIds

Init ==
    /\ cmds = EmptyTable
    /\ held = [w \in Workers |-> None]
    /\ owed = {}
    /\ givenBack = {}

Busy(w) == held[w] # None
HoldsLease(w) == Leased(cmds, held[w].cmd, w)
Drop(w) == held' = [held EXCEPT ![w] = None]

(***************************************************************************)
(* Producers.  The guards on c only pick a free id; a wake-up that the     *)
(* dedup index absorbs needs none.                                         *)
(***************************************************************************)
EnqueueContinue(r, c, now) ==
    /\ InDedupIndex(cmds, r) # {} \/ c \notin Rows(cmds)
    /\ cmds' = InsertContinue(cmds, c, r, now)
    /\ owed' = owed \cup {r}
    /\ held' = [w \in Workers |->
                  IF Busy(w) /\ held[w].subject = r
                  THEN [held[w] EXCEPT !.fresh = FALSE] ELSE held[w]]
    /\ givenBack' = IF InDedupIndex(cmds, r) # {} THEN givenBack
                                                  ELSE givenBack \ {c}

Dispatch(a, c, now) ==
    /\ AttemptRowExists(cmds, a) \/ c \notin Rows(cmds)
    /\ cmds' = DispatchAttempt(cmds, c, a, now)
    /\ owed' = owed \cup {a}
    /\ givenBack' = IF AttemptRowExists(cmds, a) THEN givenBack
                                                 ELSE givenBack \ {c}
    /\ UNCHANGED held

(***************************************************************************)
(* One UPDATE of the claim loop.  A row dead-lettered by it is not         *)
(* delivered: the loop, or the next poll, claims on.                       *)
(***************************************************************************)
ClaimCommand(w, c) ==
    /\ ~Busy(w)
    /\ Claimable(cmds, c) /\ cmds[c].subject \in Serves[w]
    /\ cmds' = Claim(cmds, c, w)
    /\ held' = IF cmds'[c].dead THEN held
               ELSE [held EXCEPT ![w] = [cmd |-> c, subject |-> cmds[c].subject,
                                         failing |-> FALSE, fresh |-> TRUE]]
    /\ givenBack' = givenBack \ {c}
    /\ UNCHANGED owed

(***************************************************************************)
(* The command was processed.  A stale ack deletes nothing and throws; the *)
(* driver then releases with the same stale token, which changes nothing.  *)
(***************************************************************************)
AckHeld(w) ==
    /\ Busy(w) /\ ~held[w].failing
    /\ cmds' = Ack(cmds, held[w].cmd, w)
    /\ owed' = IF HoldsLease(w) /\ held[w].fresh
               THEN owed \ {held[w].subject} ELSE owed
    /\ givenBack' = IF HoldsLease(w) THEN givenBack \ {held[w].cmd} ELSE givenBack
    /\ Drop(w)

(***************************************************************************)
(* Busy run, shutdown or lost lease: a plain release.  When the update     *)
(* violates the dedup index it throws, and the driver's catch clause goes  *)
(* on with an error release.                                               *)
(***************************************************************************)
ReleaseHeld(w) ==
    /\ Busy(w) /\ ~held[w].failing
    /\ cmds' = ReleasePlain(cmds, held[w].cmd, w)
    /\ givenBack' = IF HoldsLease(w) THEN givenBack \cup {held[w].cmd}
                                     ELSE givenBack
    /\ IF HoldsLease(w) /\ DedupConflict(cmds, held[w].cmd)
       THEN held' = [held EXCEPT ![w].failing = TRUE]
       ELSE Drop(w)
    /\ UNCHANGED owed

(***************************************************************************)
(* Execution threw, or nothing can execute the command.                    *)
(***************************************************************************)
FailHeld(w) ==
    /\ Busy(w)
    /\ cmds' = ReleaseCounted(cmds, held[w].cmd, w)
    /\ Drop(w)
    /\ UNCHANGED <<owed, givenBack>>

(***************************************************************************)
(* Only attempts have a heartbeat.  Losing the lease aborts the handler    *)
(* and ends in a plain release under the stale token.                      *)
(***************************************************************************)
HeartbeatHeld(w) ==
    /\ Busy(w) /\ held[w].subject \in Attempts
    /\ cmds' = Heartbeat(cmds, held[w].cmd, w)
    /\ IF HoldsLease(w) THEN UNCHANGED held ELSE Drop(w)
    /\ UNCHANGED <<owed, givenBack>>

Crash(w) ==
    /\ Busy(w)
    /\ Drop(w)
    /\ UNCHANGED <<cmds, owed, givenBack>>

(***************************************************************************)
(* Withdrawals: the subject of a deleted row is owed no more.              *)
(***************************************************************************)
Withdrawn ==
    /\ owed' = owed \ {cmds[c].subject : c \in Rows(cmds) \ Rows(cmds')}
    /\ givenBack' = givenBack \cap Rows(cmds')
    /\ UNCHANGED held

DeleteUnclaimedOf(r) == cmds' = DeleteUnclaimed(cmds, r) /\ Withdrawn

DeleteRun(r) == cmds' = DeleteRunCommands(cmds, r) /\ Withdrawn

SweepDead(c) ==
    /\ c \in Rows(cmds) /\ cmds[c].dead
    /\ cmds' = SweepDeadCommand(cmds, c)
    /\ Withdrawn

MarkReaped(c) ==
    /\ c \in Rows(cmds) /\ cmds[c].dead
    /\ cmds' = MarkDeadCommandReaped(cmds, c)
    /\ UNCHANGED <<held, owed, givenBack>>

RequeueDead(c) ==
    /\ c \in Rows(cmds) /\ cmds[c].dead
    /\ cmds' = RequeueDeadCommand(cmds, c)
    /\ UNCHANGED <<held, owed, givenBack>>

(***************************************************************************)
(* The clock.                                                              *)
(***************************************************************************)
LeaseExpires(c) ==
    /\ c \in Rows(cmds) /\ cmds[c].token # None /\ ~cmds[c].expired
    /\ cmds' = [cmds EXCEPT ![c].expired = TRUE]
    /\ UNCHANGED <<held, owed, givenBack>>

BecomesDue(c) ==
    /\ c \in Rows(cmds) /\ ~cmds[c].due
    /\ cmds' = [cmds EXCEPT ![c].due = TRUE]
    /\ UNCHANGED <<held, owed, givenBack>>

WorkerStep(w) ==
    \/ \E c \in CommandIds : ClaimCommand(w, c)
    \/ AckHeld(w) \/ ReleaseHeld(w) \/ FailHeld(w)
    \/ HeartbeatHeld(w) \/ Crash(w)

Next ==
    \/ \E c \in CommandIds, now \in BOOLEAN :
        \/ \E r \in Runs : EnqueueContinue(r, c, now)
        \/ \E a \in Attempts : Dispatch(a, c, now)
    \/ \E w \in Workers : WorkerStep(w)
    \/ \E r \in Runs : DeleteUnclaimedOf(r) \/ DeleteRun(r)
    \/ \E c \in CommandIds :
        \/ SweepDead(c) \/ MarkReaped(c) \/ RequeueDead(c)
        \/ LeaseExpires(c) \/ BecomesDue(c)

Spec == Init /\ [][Next]_vars

(***************************************************************************)
(* Time passes; a handler ends, by itself, by its timeout or with its      *)
(* process; and, the claim query ordering by run_at, no due command is     *)
(* passed over forever.                                                    *)
(***************************************************************************)
Fairness ==
    /\ \A c \in CommandIds :
        /\ WF_vars(LeaseExpires(c))
        /\ WF_vars(BecomesDue(c))
        /\ SF_vars(\E w \in Workers : ClaimCommand(w, c))
    /\ \A w \in Workers :
        WF_vars(AckHeld(w) \/ ReleaseHeld(w) \/ FailHeld(w) \/ Crash(w))

FairSpec == Spec /\ Fairness

-----------------------------------------------------------------------------
(***************************************************************************)
(* Row c still leads to a delivery that begins after every wake-up of its  *)
(* subject so far: it is not leased, or its lease belongs to a worker that *)
(* is gone, or to one that claimed after the last wake-up.                 *)
(***************************************************************************)
Deliverable(c) ==
    LET w == cmds[c].token
    IN  \/ w = None
        \/ held[w] = None
        \/ held[w].cmd # c
        \/ held[w].fresh

(***************************************************************************)
(* No wake-up is lost: a requested subject that no later delivery has      *)
(* settled has a live row that still leads to one, or a dead row that      *)
(* shows it to the reaper.  The dedup upsert must not absorb a wake-up     *)
(* onto a command a worker is already executing, and only the holder of    *)
(* the current lease may delete a row.                                     *)
(***************************************************************************)
OwedIsDeliverable ==
    \A s \in owed : \E c \in Rows(cmds) :
        cmds[c].subject = s /\ (cmds[c].dead \/ Deliverable(c))

(***************************************************************************)
(* The same without the escape: dead rows never absorb a wake-up.          *)
(***************************************************************************)
DeadNeverAbsorbs ==
    [][\A r \in Runs : (\E c \in CommandIds, now \in BOOLEAN :
                            EnqueueContinue(r, c, now))
        => \E c \in Rows(cmds') : cmds'[c].subject = r /\ ~cmds'[c].dead]_vars

(***************************************************************************)
(* A row is dead exactly when its counted deliveries reach the threshold,  *)
(* whichever mix of error releases and expired leases counted them, and    *)
(* only dead rows are marked reaped.                                       *)
(***************************************************************************)
DeadExactlyAtThreshold ==
    \A c \in Rows(cmds) :
        /\ cmds[c].dead <=> cmds[c].deliveries >= MaxDeliveries
        /\ cmds[c].reaped => cmds[c].dead

(***************************************************************************)
(* A delivery that ended in a plain release is counted neither by the      *)
(* release itself nor by a later claim of the row.                         *)
(***************************************************************************)
PlainReleaseUncounted ==
    [][\A c \in (givenBack \cup givenBack') \cap Rows(cmds) \cap Rows(cmds') :
            cmds'[c].deliveries <= cmds[c].deliveries]_vars

Live(c) == c \in Rows(cmds) /\ ~cmds[c].dead

(***************************************************************************)
(* A command cannot be redelivered for ever: unless it is plainly released *)
(* again and again, it is eventually acknowledged, withdrawn or dead.      *)
(***************************************************************************)
NoEndlessRedelivery ==
    \A c \in CommandIds :
        (<>[][~\E w \in Workers : ReleaseHeld(w)]_vars)
            => (Live(c) ~> ~Live(c))
=============================================================================
