----------------------------- MODULE Scheduler ------------------------------
(***************************************************************************)
(* Schedules (runtime/scheduler.ts) on Postgres (adapters/postgres/        *)
(* schedules.ts) and in memory (runtime/in-memory.ts).                     *)
(*                                                                         *)
(* On Postgres fireDue locks the due rows, starts a run for each under the *)
(* key [name, slot] and moves the slot on, in one transaction; whoever     *)
(* else wants a locked row waits, and a fireDue skips it.  In memory       *)
(* fireDue keeps the objects it read across its awaits and writes them     *)
(* back whole.                                                             *)
(***************************************************************************)
EXTENDS Integers, Sequences, FiniteSets

CONSTANTS
    Schedules,   \* schedule names
    Schedulers,  \* processes that fire schedules
    Definitions, \* what a schedule's definition may say, see Definition
    MaxTime,     \* bound: the clock
    MaxEdits,    \* bound: reconcile, setEnabled and trigger calls
    NoSchedule

Cadence == [cron : BOOLEAN, every : Nat \ {0}]
ScheduleRow == [cadence : Cadence, input : {d.input : d \in Definitions}, enabled : BOOLEAN,
                last : Int, next : Nat]

ASSUME SchedulerAssumption ==
    /\ \A d \in Definitions : d.cadence \in Cadence /\ {d.enabled, d.immediately} \subseteq BOOLEAN
    /\ NoSchedule \notin ScheduleRow
    /\ IsFiniteSet(Schedules)

\* A definition: its cadence (cron or every so many slots), the input of its
\* runs, whether it is on, and whether it fires at once.
Definition(cron, every, input, enabled, immediately) ==
    [cadence |-> [cron |-> cron, every |-> every], input |-> input, enabled |-> enabled,
     immediately |-> immediately]

VARIABLES
    memory,    \* the in-memory runtime
    clock,     \* the time, in slots
    table,     \* schedule to its stored row, or NoSchedule
    firing,    \* worker to the schedules its fireDue has read, in due order
    slots,     \* runs started: [name, slot, input]
    fired,     \* schedule to the slots fireDue took, since its cadence was last set
    want,      \* schedule to what the last answered call made of `enabled`
    enabledAt, \* schedule to the time it was last switched on
    lastTrigger,
    edits

schedulerVars ==
    <<memory, clock, table, firing, slots, fired, want, enabledAt, lastTrigger, edits>>
historyVars == <<want, enabledAt>>

SchedulerInit ==
    /\ memory \in BOOLEAN
    /\ clock = 0
    /\ table = [s \in Schedules |-> NoSchedule]
    /\ firing = [p \in Schedulers |-> <<>>]
    /\ slots = {}
    /\ fired = [s \in Schedules |-> <<>>]
    /\ want = [s \in Schedules |-> FALSE]
    /\ enabledAt = [s \in Schedules |-> 0]
    /\ lastTrigger = -1
    /\ edits = 0

Stored == {s \in Schedules : table[s] # NoSchedule}

-----------------------------------------------------------------------------
\* nextScheduleRunAt: cron, the first slot after now; every, the first slot
\* after now on the grid of base.
NextScheduleRunAt(cadence, now, base) ==
    IF cadence.cron THEN (now \div cadence.every + 1) * cadence.every
    ELSE LET missed == IF now >= base THEN (now - base) \div cadence.every ELSE 0
         IN  base + (missed + 1) * cadence.every

\* startStoredScheduleRun: the run of this slot, created or found.  Under the
\* key of a run with another input it throws.
SlotRun(s, slot, input) == [name |-> s, slot |-> slot, input |-> input]
SlotTaken(s, slot, input) ==
    \E run \in slots : run.name = s /\ run.slot = slot /\ run.input # input

-----------------------------------------------------------------------------
(* reconcile                                                               *)

\* normalizeScheduleDefinition
Normalized(d) ==
    [cadence |-> d.cadence, input |-> d.input, enabled |-> d.enabled, last |-> -1,
     next |-> IF d.immediately THEN clock ELSE NextScheduleRunAt(d.cadence, clock, clock)]

\* When the stored next slot gives way to the definition's.
Resets(s, entry) ==
    \/ table[s] = NoSchedule
    \/ table[s].cadence # entry.cadence
    \/ ~table[s].enabled /\ entry.enabled /\ table[s].next <= clock

Upserted(s, entry) ==
    IF table[s] = NoSchedule THEN entry
    ELSE [entry EXCEPT !.next = IF Resets(s, entry) THEN @ ELSE table[s].next,
                       !.last = table[s].last]

\* Seeded fault: the due rows are not locked.
LockedNever(s) == FALSE

Locked(s) == ~memory /\ \E p \in Schedulers : \E i \in DOMAIN firing[p] : firing[p][i].name = s

SwitchedOn(s, on) ==
    enabledAt' = [enabledAt EXCEPT ![s] = IF on /\ (table[s] # NoSchedule => ~table[s].enabled)
                                          THEN clock ELSE @]

\* A reconcile brings one schedule up to its definition, or deletes it; the
\* others are as defined already.
Reconcile(s) ==
    /\ edits < MaxEdits
    /\ ~Locked(s)
    /\ edits' = edits + 1
    /\ \/ /\ table[s] # NoSchedule
          /\ table' = [table EXCEPT ![s] = NoSchedule]
          /\ fired' = [fired EXCEPT ![s] = <<>>]
          /\ UNCHANGED historyVars
       \/ \E d \in Definitions :
            LET entry == Normalized(d)
            IN  /\ table' = [table EXCEPT ![s] = Upserted(s, entry)]
                /\ fired' = [fired EXCEPT ![s] = IF Resets(s, entry) THEN <<>> ELSE @]
                /\ want' = [want EXCEPT ![s] = d.enabled]
                /\ SwitchedOn(s, d.enabled)
    /\ UNCHANGED <<memory, clock, firing, slots, lastTrigger>>

-----------------------------------------------------------------------------
(* fireDue                                                                 *)

Due(s) == table[s] # NoSchedule /\ table[s].enabled /\ table[s].next <= clock

ByDueDate(S) ==
    {q \in [1..Cardinality(S) -> S] :
        \A i, j \in DOMAIN q :
            i < j => \/ table[q[i]].next < table[q[j]].next
                     \/ table[q[i]].next = table[q[j]].next /\ q[i] < q[j]}

\* FOR UPDATE SKIP LOCKED; in memory the objects are only read.
FireDue(p) ==
    /\ firing[p] = <<>>
    /\ LET due == {s \in Schedules : Due(s) /\ ~Locked(s)}
       IN  /\ due # {}
           /\ \E q \in ByDueDate(due) :
                firing' = [firing EXCEPT ![p] = [i \in DOMAIN q |-> [name |-> q[i], row |-> table[q[i]], now |-> clock]]]
    /\ UNCHANGED <<memory, clock, table, slots, fired, historyVars, lastTrigger, edits>>

FiredRow(row, now) ==
    [row EXCEPT !.last = row.next, !.next = NextScheduleRunAt(row.cadence, now, row.next)]

\* A slot is taken: for which time, and whether the schedule was still wanted.
Taken(b) == [slot |-> b.row.next, now |-> b.now, wanted |-> want[b.name]]

\* The transaction of Postgres: every row fires, or the first conflict rolls
\* all of them back.
FireCommit(p) ==
    /\ ~memory /\ firing[p] # <<>>
    /\ firing' = [firing EXCEPT ![p] = <<>>]
    /\ LET batch == {firing[p][i] : i \in DOMAIN firing[p]}
       IN  IF \E b \in batch : SlotTaken(b.name, b.row.next, b.row.input)
           THEN UNCHANGED <<table, slots, fired>>
           ELSE /\ slots' = slots \cup {SlotRun(b.name, b.row.next, b.row.input) : b \in batch}
                /\ table' = [s \in Schedules |->
                     IF table[s] # NoSchedule /\ \E b \in batch : b.name = s
                     THEN LET b == CHOOSE x \in batch : x.name = s
                          IN  [table[s] EXCEPT !.last = b.row.next, !.next = FiredRow(b.row, b.now).next]
                     ELSE table[s]]
                /\ fired' = [s \in Schedules |->
                     IF \E b \in batch : b.name = s
                     THEN Append(fired[s], Taken(CHOOSE x \in batch : x.name = s)) ELSE fired[s]]
    /\ UNCHANGED <<memory, clock, historyVars, lastTrigger, edits>>

\* In memory: one schedule after the other, its object written back as it was
\* read.  A conflict ends the call.
MemFire(p) ==
    /\ memory /\ firing[p] # <<>>
    /\ LET b == Head(firing[p])
       IN  IF SlotTaken(b.name, b.row.next, b.row.input)
           THEN firing' = [firing EXCEPT ![p] = <<>>] /\ UNCHANGED <<table, slots, fired>>
           ELSE /\ firing' = [firing EXCEPT ![p] = Tail(@)]
                /\ slots' = slots \cup {SlotRun(b.name, b.row.next, b.row.input)}
                /\ table' = [table EXCEPT ![b.name] = FiredRow(b.row, b.now)]
                /\ fired' = [fired EXCEPT ![b.name] = Append(@, Taken(b))]
    /\ UNCHANGED <<memory, clock, historyVars, lastTrigger, edits>>

\* The process dies: Postgres rolls its transaction back.
FireCrash(p) ==
    /\ firing[p] # <<>>
    /\ firing' = [firing EXCEPT ![p] = <<>>]
    /\ UNCHANGED <<memory, clock, table, slots, fired, historyVars, lastTrigger, edits>>

-----------------------------------------------------------------------------
\* triggerSlot: the present, never twice; in memory the present.
TriggerSlot == IF memory \/ clock > lastTrigger THEN clock ELSE lastTrigger + 1

Trigger(s) ==
    /\ edits < MaxEdits
    /\ table[s] # NoSchedule /\ ~Locked(s)
    /\ edits' = edits + 1
    /\ lastTrigger' = IF memory THEN lastTrigger ELSE TriggerSlot
    /\ IF SlotTaken(s, TriggerSlot, table[s].input) THEN UNCHANGED <<slots, table>>
       ELSE /\ slots' = slots \cup {SlotRun(s, TriggerSlot, table[s].input)}
            /\ table' = IF memory THEN table ELSE [table EXCEPT ![s].last = TriggerSlot]
    /\ UNCHANGED <<memory, clock, firing, fired, historyVars>>

\* Switched on, an overdue schedule waits for its next slot.
NextOnSwitch(row, on) ==
    IF on /\ ~row.enabled /\ row.next <= clock THEN NextScheduleRunAt(row.cadence, clock, row.next)
    ELSE row.next

SetEnabled(s, on) ==
    /\ edits < MaxEdits
    /\ table[s] # NoSchedule /\ ~Locked(s)
    /\ edits' = edits + 1
    /\ table' = [table EXCEPT ![s] = [@ EXCEPT !.enabled = on, !.next = NextOnSwitch(table[s], on)]]
    /\ want' = [want EXCEPT ![s] = on]
    /\ SwitchedOn(s, on)
    /\ UNCHANGED <<memory, clock, firing, slots, fired, lastTrigger>>

Passes ==
    /\ clock < MaxTime
    /\ clock' = clock + 1
    /\ UNCHANGED <<memory, table, firing, slots, fired, historyVars, lastTrigger, edits>>

SchedulerNext ==
    \/ \E s \in Schedules : Reconcile(s) \/ Trigger(s) \/ \E on \in BOOLEAN : SetEnabled(s, on)
    \/ \E p \in Schedulers : FireDue(p) \/ FireCommit(p) \/ MemFire(p) \/ FireCrash(p)
    \/ Passes

SchedulerSpec == SchedulerInit /\ [][SchedulerNext]_schedulerVars

-----------------------------------------------------------------------------
\* On Postgres no slot is fired twice and the slots missed collapse into one
\* run: each slot fireDue takes is later than the slot taken before it and than
\* the time it was taken at (nextScheduleRunAt, FOR UPDATE SKIP LOCKED).
SlotsAdvance ==
    ~memory => \A s \in Schedules : \A i, j \in DOMAIN fired[s] :
        i < j => fired[s][j].slot > fired[s][i].slot /\ fired[s][j].slot > fired[s][i].now

\* On Postgres nothing is fired once setEnabled or reconcile has answered that
\* the schedule is off, whoever was about to fire it.
DisabledStaysQuiet ==
    ~memory => \A s \in Schedules : \A i \in DOMAIN fired[s] : fired[s][i].wanted

\* A schedule that is switched on does not catch up on the slots that passed
\* while it was off.
NoBacklog ==
    ~memory => \A s \in Stored : table[s].enabled => table[s].next >= enabledAt[s]

\* On Postgres a schedule fires each slot at most once, only while it is wanted,
\* and owes nothing for the time it was off.
ScheduleSound == SlotsAdvance /\ DisabledStaysQuiet /\ NoBacklog
=============================================================================
