---------------------------- MODULE DurableTask ----------------------------
(***************************************************************************)
(* What the workflows package promises of a task run: "at-least-once       *)
(* command delivery and exactly-once state transitions".  Workers, leases, *)
(* commands and sweeps are gone; what is left is the run's status and the  *)
(* results of its attempts, in order.                                      *)
(***************************************************************************)
EXTENDS Naturals, Sequences

CONSTANTS
    Runs,
    Limit  \* the retry limit of each run, at least 1

VARIABLES
    phase,   \* absent, open, cancelling, completed, failed or deleted
    results  \* the results of the settled attempts of a run
dvars == <<phase, results>>

Failure == {"failed", "timedOut"}
Open(r) == phase[r] \in {"open", "cancelling"}

Init ==
    /\ phase = [r \in Runs |-> "absent"]
    /\ results = [r \in Runs |-> <<>>]

Start(r) ==
    /\ phase[r] = "absent"
    /\ phase' = [phase EXCEPT ![r] = "open"]
    /\ UNCHANGED results

RequestCancel(r) ==
    /\ phase[r] = "open"
    /\ phase' = [phase EXCEPT ![r] = "cancelling"]
    /\ UNCHANGED results

(***************************************************************************)
(* An attempt failed and the limit allows another.                         *)
(***************************************************************************)
Retry(r, f) ==
    /\ Open(r)
    /\ Len(results[r]) + 1 < Limit[r]
    /\ results' = [results EXCEPT ![r] = Append(@, f)]
    /\ UNCHANGED phase

Succeed(r) ==
    /\ Open(r)
    /\ phase' = [phase EXCEPT ![r] = "completed"]
    /\ results' = [results EXCEPT ![r] = Append(@, "completed")]

(***************************************************************************)
(* The last attempt allowed failed.                                        *)
(***************************************************************************)
Exhaust(r, f) ==
    /\ Open(r)
    /\ Len(results[r]) + 1 = Limit[r]
    /\ phase' = [phase EXCEPT ![r] = "failed"]
    /\ results' = [results EXCEPT ![r] = Append(@, f)]

(***************************************************************************)
(* The delivery of an attempt was given up.                                *)
(***************************************************************************)
GiveUp(r) ==
    /\ Open(r)
    /\ phase' = [phase EXCEPT ![r] = "failed"]
    /\ UNCHANGED results

(***************************************************************************)
(* An attempt that was given up may still report its failure.              *)
(***************************************************************************)
ReportLate(r, f) ==
    /\ phase[r] = "failed"
    /\ Len(results[r]) + 1 = Limit[r]
    /\ results' = [results EXCEPT ![r] = Append(@, f)]
    /\ UNCHANGED phase

Delete(r) ==
    /\ phase[r] \in {"completed", "failed"}
    /\ phase' = [phase EXCEPT ![r] = "deleted"]
    /\ results' = [results EXCEPT ![r] = <<>>]

Next ==
    \E r \in Runs :
        \/ Start(r) \/ RequestCancel(r) \/ Succeed(r) \/ GiveUp(r) \/ Delete(r)
        \/ \E f \in Failure : Retry(r, f) \/ Exhaust(r, f) \/ ReportLate(r, f)

Spec == Init /\ [][Next]_dvars
=============================================================================
