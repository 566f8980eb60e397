---------------------------- MODULE CommandTable ----------------------------
(***************************************************************************)
(* The workflow_commands table of the Postgres adapter, as operators on a  *)
(* table value: each operator is the effect of one SQL statement, so a     *)
(* statement or a transaction of several is one step of the modules that   *)
(* use them.                                                               *)
(*                                                                         *)
(* A row carries either a "continue" command, whose subject is a run, or   *)
(* an attempt command, whose subject is an attempt.  A lease token is a    *)
(* fresh uuid per claim; a claim slot holds one command at a time and      *)
(* forgets it before it claims again, so the slot itself stands for the    *)
(* token.  run_at and lease_expires_at are compared with now() only, so a  *)
(* row keeps the two answers: due and expired.                             *)
(***************************************************************************)
EXTENDS Naturals, FiniteSets

CONSTANTS
    Runs,          \* workflow and task runs
    Attempts,      \* attempts of their node children
    RunOf,         \* the run an attempt belongs to
    Workers,       \* claim slots of worker processes
    CommandIds,    \* row ids; their number bounds the rows that coexist
    MaxDeliveries, \* the dead-letter threshold
    None           \* SQL NULL, and the value of an id without a row

ASSUME RunOfAssumption == RunOf \in [Attempts -> Runs]
ASSUME MaxDeliveriesAssumption == MaxDeliveries \in Nat \ {0}
ASSUME DisjointAssumption ==
    /\ Runs \cap Attempts = {}
    /\ None \notin Workers

Subjects == Runs \cup Attempts

Row == [subject    : Subjects,
        token      : Workers \cup {None},
        expired    : BOOLEAN,
        due        : BOOLEAN,
        deliveries : 0..MaxDeliveries,
        dead       : BOOLEAN,
        reaped     : BOOLEAN]

ASSUME NoneAssumption == None \notin Row

Table == [CommandIds -> Row \cup {None}]

EmptyTable == [c \in CommandIds |-> None]

Rows(t) == {c \in CommandIds : t[c] # None}

(***************************************************************************)
(* The rows of the partial unique index workflow_commands_continue_dedup:  *)
(* kind = 'continue' AND lease_token IS NULL.  Dead rows are not excluded. *)
(***************************************************************************)
InDedupIndex(t, r) == {c \in Rows(t) : t[c].subject = r /\ t[c].token = None}

(***************************************************************************)
(* Would giving row c a NULL lease token violate that index?               *)
(***************************************************************************)
DedupConflict(t, c) ==
    /\ t[c].subject \in Runs
    /\ InDedupIndex(t, t[c].subject) \ {c} # {}

NewRow(s, now) ==
    [subject |-> s, token |-> None, expired |-> FALSE, due |-> now,
     deliveries |-> 0, dead |-> FALSE, reaped |-> FALSE]

\* Seeded fault: the upsert ignores the lease and absorbs onto a leased row.
InsertContinueOntoLeased(t, c, r, now) ==
    LET same == {d \in Rows(t) : t[d].subject = r}
    IN  IF same # {}
        THEN [d \in CommandIds |->
                IF d \in same THEN [t[d] EXCEPT !.due = @ \/ now] ELSE t[d]]
        ELSE [t EXCEPT ![c] = NewRow(r, now)]

(***************************************************************************)
(* insertContinueCommand: an upsert on the dedup index.  A conflicting row *)
(* keeps everything but its run_at, the earlier of the two; otherwise the  *)
(* free id c gets a new row.                                               *)
(***************************************************************************)
InsertContinue(t, c, r, now) ==
    IF InDedupIndex(t, r) # {}
    THEN [d \in CommandIds |->
            IF d \in InDedupIndex(t, r) THEN [t[d] EXCEPT !.due = @ \/ now]
                                        ELSE t[d]]
    ELSE [t EXCEPT ![c] = NewRow(r, now)]

AttemptRowExists(t, a) == \E c \in Rows(t) : t[c].subject = a

\* Seeded fault: the NOT EXISTS clause looks for a command of the same run.
DispatchAttemptOncePerRun(t, c, a, now) ==
    IF \E d \in Rows(t) : t[d].subject \in Attempts /\ RunOf[t[d].subject] = RunOf[a]
    THEN t ELSE [t EXCEPT ![c] = NewRow(a, now)]

(***************************************************************************)
(* dispatchActivity, dispatchTask: INSERT ... WHERE NOT EXISTS a row with  *)
(* the same attempt id, whatever its state.                                *)
(***************************************************************************)
DispatchAttempt(t, c, a, now) ==
    IF AttemptRowExists(t, a) THEN t ELSE [t EXCEPT ![c] = NewRow(a, now)]

Claimable(t, c) ==
    /\ c \in Rows(t)
    /\ t[c].due
    /\ t[c].token = None \/ t[c].expired
    /\ ~t[c].dead

\* Seeded fault: the threshold comparison is strict.
AtDeadLetterThresholdLate(row) == row.deliveries >= MaxDeliveries

AtDeadLetterThreshold(row) == row.deliveries + 1 >= MaxDeliveries

(***************************************************************************)
(* One failed delivery of a row, by an error release or an expired lease.  *)
(***************************************************************************)
Counted(row) == [row EXCEPT !.deliveries = @ + 1,
                            !.dead = @ \/ AtDeadLetterThreshold(row)]

\* Seeded fault: a takeover does not count the lost delivery.
ClaimUncounted(t, c, w) ==
    [t EXCEPT ![c] = [@ EXCEPT !.token = w, !.expired = FALSE]]

(***************************************************************************)
(* The UPDATE of claimCommand on candidate c.  A row that still has a      *)
(* lease token is a takeover of an expired lease: it counts a delivery and *)
(* at the threshold the row dies instead of being delivered.  The lease    *)
(* columns are written in every case.                                      *)
(***************************************************************************)
Claim(t, c, w) ==
    LET row == IF t[c].token # None THEN Counted(t[c]) ELSE t[c]
    IN  [t EXCEPT ![c] = [row EXCEPT !.token = w, !.expired = FALSE]]

Leased(t, c, w) == c \in Rows(t) /\ t[c].token = w

(***************************************************************************)
(* ackCommand: DELETE ... WHERE id AND lease_token.                        *)
(***************************************************************************)
Ack(t, c, w) == IF Leased(t, c, w) THEN [t EXCEPT ![c] = None] ELSE t

(***************************************************************************)
(* releaseCommand without error or reason.                                 *)
(***************************************************************************)
ReleasePlain(t, c, w) ==
    IF Leased(t, c, w) /\ ~DedupConflict(t, c)
    THEN [t EXCEPT ![c] = [@ EXCEPT !.token = None, !.expired = FALSE,
                                    !.due = FALSE]]
    ELSE t

(***************************************************************************)
(* releaseCommand with an error, or with reason 'unroutable'.              *)
(***************************************************************************)
ReleaseCounted(t, c, w) ==
    IF Leased(t, c, w) /\ ~DedupConflict(t, c)
    THEN [t EXCEPT ![c] = [Counted(@) EXCEPT !.token = None, !.expired = FALSE,
                                             !.due = FALSE]]
    ELSE t

(***************************************************************************)
(* heartbeat of an attempt command: extends the lease.                     *)
(***************************************************************************)
Heartbeat(t, c, w) ==
    IF Leased(t, c, w) THEN [t EXCEPT ![c].expired = FALSE] ELSE t

(***************************************************************************)
(* deleteUnclaimed: the attempt commands of a run without a lease token,   *)
(* dead ones included.                                                     *)
(***************************************************************************)
DeleteUnclaimed(t, r) ==
    [c \in CommandIds |->
        IF c \in Rows(t) /\ t[c].subject \in Attempts
              /\ RunOf[t[c].subject] = r /\ t[c].token = None
        THEN None ELSE t[c]]

MarkDeadCommandReaped(t, c) ==
    IF c \in Rows(t) /\ t[c].dead THEN [t EXCEPT ![c].reaped = TRUE] ELSE t

RequeueDeadCommand(t, c) ==
    IF c \in Rows(t) /\ t[c].dead /\ ~DedupConflict(t, c)
    THEN [t EXCEPT ![c] = NewRow(t[c].subject, TRUE)]
    ELSE t

SubjectRun(s) == IF s \in Runs THEN s ELSE RunOf[s]

(***************************************************************************)
(* The DELETE of deleteRun on a run's commands.                            *)
(***************************************************************************)
DeleteRunCommands(t, r) ==
    [c \in CommandIds |->
        IF c \in Rows(t) /\ SubjectRun(t[c].subject) = r THEN None ELSE t[c]]

(***************************************************************************)
(* The dead-command sweep of pruneTerminalRuns, for one row past the       *)
(* cutoff.                                                                 *)
(***************************************************************************)
SweepDeadCommand(t, c) ==
    IF c \in Rows(t) /\ t[c].dead THEN [t EXCEPT ![c] = None] ELSE t
=============================================================================
