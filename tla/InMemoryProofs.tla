--------------------------- MODULE InMemoryProofs ---------------------------
(***************************************************************************)
(* The in-memory runtime as a double of the Postgres one.  The in-memory   *)
(* queue keeps the contract of the Postgres queue, for any number of runs, *)
(* attempts, workers and items and any dead-letter threshold, and it keeps *)
(* the two clauses the Postgres queue breaks.  The in-memory store stays   *)
(* in lockstep with the Postgres store, for any number of runs, child      *)
(* keys, attempts, leases and calls.                                       *)
(***************************************************************************)
EXTENDS MemoryQueue, CommandTableProofs, StoreParity, FiniteSetTheorems, WellFoundedInduction

\* What is claimed is alive: an item dies on its way back to the queue.
ClaimedIsLive == \A c \in Rows(cmds) : cmds[c].token # None => ~cmds[c].dead

\* A worker that still has the claim of its item works on the item it
\* claimed.
ClaimMatches ==
    \A w \in Workers : Busy(w) /\ MatchesClaim(w) => cmds[held[w].cmd].subject = held[w].subject

\* Only continue commands are overtaken by a wake-up.
AttemptsFresh ==
    \A w \in Workers : Busy(w) /\ held[w].subject \in Attempts => held[w].fresh

\* An item given back stays in its queue until the next claim takes the
\* mark off.
GivenBackIsQueued == \A c \in givenBack \cap Rows(cmds) : cmds[c].token = None

MemInv ==
    /\ MemTypeOK
    /\ DeadExactlyAtThreshold
    /\ ClaimedIsLive
    /\ ClaimMatches
    /\ AttemptsFresh
    /\ GivenBackIsQueued
    /\ OwedIsDeliverable

-----------------------------------------------------------------------------
\* DeadExactlyAtThreshold is the soundness of the table.
LEMMA MemSoundTable == DeadExactlyAtThreshold <=> Sound(cmds)
BY DEF DeadExactlyAtThreshold, Sound, SoundRow

\* The empty queue satisfies the invariant.
LEMMA MemInitInv == MemInit => MemInv
BY DEF MemInit, MemInv, MemTypeOK, Table, EmptyTable, DeadExactlyAtThreshold, ClaimedIsLive,
       ClaimMatches, AttemptsFresh, GivenBackIsQueued, OwedIsDeliverable, Rows, Busy, MatchesClaim

\* countFailedDelivery is the count of the Postgres queue.
LEMMA CountFailedDeliverySound ==
    ASSUME NEW row \in Row, SoundRow(row), ~row.dead
    PROVE  /\ CountFailedDelivery(row) \in Row /\ SoundRow(CountFailedDelivery(row))
           /\ CountFailedDelivery(row).subject = row.subject
<1>1. CountFailedDelivery(row) = Counted(row)
  BY DEF CountFailedDelivery, Counted, AtDeadLetterThreshold
<1>. QED  BY <1>1, CountedSound

\* Steps that neither claim nor delete: every item keeps its subject, and
\* either goes (back) to its queue or keeps its claim and its dead flag;
\* workers at most drop what they hold.
LEMMA QuietInv ==
    ASSUME MemInv, cmds' \in Table, Sound(cmds'), Rows(cmds') = Rows(cmds),
           \A d \in Rows(cmds) :
              /\ cmds'[d].subject = cmds[d].subject
              /\ \/ cmds'[d].token = cmds[d].token /\ cmds'[d].dead = cmds[d].dead
                 \/ cmds'[d].token = None,
           held' \in [Workers -> Delivery \cup {None}],
           \A w \in Workers : held'[w] \in {held[w], None},
           owed' = owed, givenBack' \subseteq CommandIds,
           \A d \in givenBack' \ givenBack : d \in Rows(cmds) => cmds'[d].token = None
    PROVE  MemInv'
<1>. USE DEF MemInv
<1>1. MemTypeOK' /\ DeadExactlyAtThreshold'
  BY DEF MemTypeOK, DeadExactlyAtThreshold, Sound, SoundRow
<1>2. ClaimedIsLive' /\ GivenBackIsQueued'
  BY DEF ClaimedIsLive, GivenBackIsQueued
<1>3. ClaimMatches'
  <2>. SUFFICES ASSUME NEW w \in Workers, held'[w] # None, Leased(cmds', held'[w].cmd, w)
                PROVE  cmds'[held'[w].cmd].subject = held'[w].subject
    BY DEF ClaimMatches, Busy, MatchesClaim
  <2>1. held'[w] = held[w] /\ Leased(cmds, held[w].cmd, w)
    BY DisjointAssumption DEF Leased, DisjointAssumption
  <2>. QED  BY <2>1 DEF ClaimMatches, Busy, MatchesClaim, Leased
<1>4. AttemptsFresh'
  BY DEF AttemptsFresh, Busy
<1>5. OwedIsDeliverable'
  <2>1. ASSUME NEW d \in Rows(cmds), Deliverable(d) PROVE Deliverable(d)'
    <3>1. cmds[d].token \in Workers \cup {None}
      BY RowsAreRows DEF MemTypeOK, Row
    <3>. QED  BY <2>1, <3>1 DEF Deliverable
  <2>2. ASSUME NEW d \in Rows(cmds), cmds[d].dead PROVE cmds'[d].dead \/ Deliverable(d)'
    BY <2>2 DEF Deliverable
  <2>. QED  BY <2>1, <2>2 DEF OwedIsDeliverable
<1>. QED  BY <1>1, <1>2, <1>3, <1>4, <1>5

\* The same for a step that writes one item.
LEMMA OneItemInv ==
    ASSUME MemInv, NEW c \in Rows(cmds), NEW row \in Row, SoundRow(row),
           cmds' = [cmds EXCEPT ![c] = row],
           row.subject = cmds[c].subject,
           \/ row.token = cmds[c].token /\ row.dead = cmds[c].dead
           \/ row.token = None,
           held' \in [Workers -> Delivery \cup {None}],
           \A w \in Workers : held'[w] \in {held[w], None},
           owed' = owed,
           givenBack' = givenBack \/ (row.token = None /\ givenBack' = givenBack \cup {c})
    PROVE  MemInv'
<1>1. c \in CommandIds /\ row # None /\ cmds \in Table /\ Sound(cmds)
  BY MemSoundTable, NoneAssumption DEF Rows, MemInv, MemTypeOK, NoneAssumption
<1>2. /\ cmds' \in Table /\ Sound(cmds') /\ cmds'[c] = row /\ Rows(cmds') = Rows(cmds)
      /\ \A d \in CommandIds \ {c} : cmds'[d] = cmds[d]
  BY <1>1 DEF Table, Sound, Rows
<1>3. \A d \in Rows(cmds) : 
              /\ cmds'[d].subject = cmds[d].subject
              /\ \/ cmds'[d].token = cmds[d].token /\ cmds'[d].dead = cmds[d].dead
                 \/ cmds'[d].token = None
  BY <1>2 DEF Rows
<1>4. /\ givenBack' \subseteq CommandIds
      /\ \A d \in givenBack' \ givenBack : d \in Rows(cmds) => cmds'[d].token = None
  BY <1>1, <1>2 DEF MemInv, MemTypeOK
<1>. QED  BY <1>2, <1>3, <1>4, QuietInv

\* Time, the reaper's mark and the requeue of a dead item.
LEMMA ClockInv ==
    ASSUME MemInv, NEW c \in CommandIds,
           LeaseExpires(c) \/ BecomesDue(c) \/ MarkReaped(c) \/ RequeueDead(c)
    PROVE  MemInv'
<1>1. /\ c \in Rows(cmds) /\ cmds[c] \in Row /\ SoundRow(cmds[c])
      /\ held' = held /\ owed' = owed /\ givenBack' = givenBack
      /\ held' \in [Workers -> Delivery \cup {None}]
  BY MemSoundTable, RowsAreRows
  DEF LeaseExpires, BecomesDue, MarkReaped, RequeueDead, MemInv, MemTypeOK, Sound
<1>2. CASE LeaseExpires(c)
  <2> DEFINE row == [cmds[c] EXCEPT !.expired = TRUE]
  <2>1. /\ row \in Row /\ row.subject = cmds[c].subject
        /\ row.token = cmds[c].token /\ row.dead = cmds[c].dead
        /\ row.deliveries = cmds[c].deliveries /\ row.reaped = cmds[c].reaped
    BY <1>1 DEF Row
  <2>2. SoundRow(row) /\ cmds' = [cmds EXCEPT ![c] = row]
    BY <1>1, <1>2, <2>1 DEF SoundRow, LeaseExpires
  <2>. HIDE DEF row
  <2>. QED  BY <1>1, <2>1, <2>2, OneItemInv
<1>3. CASE BecomesDue(c)
  <2> DEFINE row == [cmds[c] EXCEPT !.due = TRUE]
  <2>1. /\ row \in Row /\ row.subject = cmds[c].subject
        /\ row.token = cmds[c].token /\ row.dead = cmds[c].dead
        /\ row.deliveries = cmds[c].deliveries /\ row.reaped = cmds[c].reaped
    BY <1>1 DEF Row
  <2>2. SoundRow(row) /\ cmds' = [cmds EXCEPT ![c] = row]
    BY <1>1, <1>3, <2>1 DEF SoundRow, BecomesDue
  <2>. HIDE DEF row
  <2>. QED  BY <1>1, <2>1, <2>2, OneItemInv
<1>4. CASE MarkReaped(c)
  <2> DEFINE row == [cmds[c] EXCEPT !.reaped = TRUE]
  <2>1. /\ row \in Row /\ row.subject = cmds[c].subject
        /\ row.token = cmds[c].token /\ row.dead = cmds[c].dead
        /\ row.deliveries = cmds[c].deliveries
    BY <1>1 DEF Row
  <2>2. SoundRow(row) /\ cmds' = [cmds EXCEPT ![c] = row]
    BY <1>1, <1>4, <2>1 DEF SoundRow, MarkReaped, MarkDeadCommandReaped
  <2>. HIDE DEF row
  <2>. QED  BY <1>1, <2>1, <2>2, OneItemInv
<1>5. CASE RequeueDead(c)
  <2> DEFINE row == NewRow(cmds[c].subject, TRUE)
  <2>1. row \in Row /\ SoundRow(row) /\ row.subject = cmds[c].subject /\ row.token = None
    BY <1>1, NewRowSound DEF Row
  <2>2. cmds' = [cmds EXCEPT ![c] = row]
    BY <1>5 DEF RequeueDead
  <2>. HIDE DEF row
  <2>. QED  BY <1>1, <2>1, <2>2, OneItemInv
<1>. QED  BY <1>2, <1>3, <1>4, <1>5

\* A release, plain or counted, a heartbeat and a worker that vanishes.
LEMMA SettleInv ==
    ASSUME MemInv, NEW w \in Workers,
           ReleaseHeld(w) \/ FailHeld(w) \/ HeartbeatHeld(w) \/ Vanish(w)
    PROVE  MemInv'
<1>1. PICK c \in CommandIds : held[w] \in Delivery /\ held[w].cmd = c
  BY DEF ReleaseHeld, FailHeld, Release, HeartbeatHeld, Vanish, Busy, MemInv, MemTypeOK, Delivery
<1>2. /\ cmds \in Table /\ Sound(cmds)
      /\ held' \in [Workers -> Delivery \cup {None}]
      /\ \A v \in Workers : held'[v] \in {held[v], None}
      /\ owed' = owed
  BY MemSoundTable
  DEF MemInv, MemTypeOK, ReleaseHeld, FailHeld, Release, HeartbeatHeld, Vanish, Drop
<1>3. CASE ~Leased(cmds, c, w) \/ Vanish(w)
  <2>1. cmds' = cmds /\ givenBack' = givenBack
    BY <1>1, <1>3 DEF ReleaseHeld, FailHeld, Release, HeartbeatHeld, Heartbeat, Vanish, MatchesClaim
  <2>2. givenBack' \subseteq CommandIds
    BY <2>1 DEF MemInv, MemTypeOK
  <2>. QED  BY <1>2, <2>1, <2>2, QuietInv
<1>4. ASSUME Leased(cmds, c, w)
      PROVE  c \in Rows(cmds) /\ cmds[c] \in Row /\ SoundRow(cmds[c]) /\ ~cmds[c].dead
  BY <1>2, <1>4, RowsAreRows, DisjointAssumption
  DEF Leased, Sound, MemInv, ClaimedIsLive, DisjointAssumption
<1> DEFINE Free(row) == [row EXCEPT !.token = None, !.expired = FALSE, !.due = FALSE]
<1>5. ASSUME NEW row \in Row, SoundRow(row)
      PROVE  /\ Free(row) \in Row /\ SoundRow(Free(row))
             /\ Free(row).subject = row.subject /\ Free(row).token = None
  <2>1. /\ Free(row) \in Row /\ Free(row).subject = row.subject
        /\ Free(row).token = None /\ Free(row).deliveries = row.deliveries
        /\ Free(row).dead = row.dead /\ Free(row).reaped = row.reaped
    BY DEF Row
  <2>. QED  BY <1>5, <2>1 DEF SoundRow
<1>6. CASE ReleaseHeld(w) /\ Leased(cmds, c, w)
  <2>1. cmds' = [cmds EXCEPT ![c] = Free(cmds[c])] /\ givenBack' = givenBack \cup {c}
    BY <1>1, <1>6 DEF ReleaseHeld, Release, MatchesClaim, ReleaseQueueItem
  <2>. HIDE DEF Free
  <2>. QED  BY <1>2, <1>4, <1>5, <1>6, <2>1, OneItemInv
<1>7. CASE FailHeld(w) /\ Leased(cmds, c, w)
  <2>1. cmds' = [cmds EXCEPT ![c] = Free(CountFailedDelivery(cmds[c]))] /\ givenBack' = givenBack
    BY <1>1, <1>7 DEF FailHeld, Release, MatchesClaim, ReleaseQueueItem
  <2>2. /\ CountFailedDelivery(cmds[c]) \in Row /\ SoundRow(CountFailedDelivery(cmds[c]))
        /\ CountFailedDelivery(cmds[c]).subject = cmds[c].subject
    BY <1>4, <1>7, CountFailedDeliverySound
  <2>. HIDE DEF Free
  <2>. QED  BY <1>2, <1>4, <1>5, <1>7, <2>1, <2>2, OneItemInv
<1>8. CASE HeartbeatHeld(w) /\ Leased(cmds, c, w)
  <2> DEFINE row == [cmds[c] EXCEPT !.expired = FALSE]
  <2>1. cmds' = [cmds EXCEPT ![c] = row] /\ givenBack' = givenBack
    BY <1>1, <1>8 DEF HeartbeatHeld, Heartbeat
  <2>2. /\ row \in Row /\ row.subject = cmds[c].subject
        /\ row.token = cmds[c].token /\ row.dead = cmds[c].dead
        /\ row.deliveries = cmds[c].deliveries /\ row.reaped = cmds[c].reaped
    BY <1>4, <1>8 DEF Row
  <2>3. SoundRow(row)
    BY <1>4, <1>8, <2>2 DEF SoundRow
  <2>. HIDE DEF row
  <2>. QED  BY <1>2, <1>4, <1>8, <2>1, <2>2, <2>3, OneItemInv
<1>. QED  BY <1>3, <1>6, <1>7, <1>8

\* Reclaiming expired leases counts a delivery of each and changes no
\* other item.
LEMMA ReclaimedSound ==
    ASSUME MemInv, NEW w \in Workers, NEW u, u = Reclaimed(w)
    PROVE  /\ u \in Table /\ Sound(u) /\ Rows(u) = Rows(cmds)
           /\ \A d \in Rows(cmds) :
                 /\ u[d] \in Row
                 /\ u[d].subject = cmds[d].subject
                 /\ u[d] = cmds[d] \/ (cmds[d].token # None /\ u[d].token = None)
<1> DEFINE Free(row) == [row EXCEPT !.token = None, !.expired = FALSE]
           Expired(d) == d \in Rows(cmds) /\ cmds[d].token # None /\ cmds[d].expired
                            /\ cmds[d].subject \in Serves[w]
<1>1. cmds \in Table /\ Sound(cmds)
  BY MemSoundTable DEF MemInv, MemTypeOK
<1>2. ASSUME NEW d \in CommandIds, Expired(d)
      PROVE  /\ Free(CountFailedDelivery(cmds[d])) \in Row
             /\ SoundRow(Free(CountFailedDelivery(cmds[d])))
             /\ Free(CountFailedDelivery(cmds[d])).subject = cmds[d].subject
             /\ Free(CountFailedDelivery(cmds[d])).token = None
             /\ Free(CountFailedDelivery(cmds[d])) # None
  <2>1. cmds[d] \in Row /\ SoundRow(cmds[d]) /\ ~cmds[d].dead
    BY <1>1, <1>2, RowsAreRows DEF Sound, MemInv, ClaimedIsLive
  <2> DEFINE row == CountFailedDelivery(cmds[d])
  <2>2. row \in Row /\ SoundRow(row) /\ row.subject = cmds[d].subject
    BY <2>1, CountFailedDeliverySound
  <2>. HIDE DEF row
  <2>3. /\ Free(row) \in Row /\ Free(row).subject = row.subject
        /\ Free(row).token = None /\ Free(row).deliveries = row.deliveries
        /\ Free(row).dead = row.dead /\ Free(row).reaped = row.reaped
    BY <2>2 DEF Row
  <2>4. SoundRow(Free(row)) /\ Free(row) # None
    BY <2>2, <2>3, NoneAssumption DEF SoundRow, NoneAssumption
  <2>. QED  BY <2>2, <2>3, <2>4 DEF row
<1>3. u = [d \in CommandIds |-> IF Expired(d) THEN Free(CountFailedDelivery(cmds[d])) ELSE cmds[d]]
  BY DEF Reclaimed
<1>. HIDE DEF Free
<1>4. \A d \in CommandIds : u[d] = IF Expired(d) THEN Free(CountFailedDelivery(cmds[d])) ELSE cmds[d]
  BY <1>3
<1>5. u \in Table
  BY <1>1, <1>2, <1>3 DEF Table
<1>6. Rows(u) = Rows(cmds)
  BY <1>2, <1>4 DEF Rows
<1>7. \A d \in Rows(cmds) : cmds[d] \in Row /\ SoundRow(cmds[d]) /\ d \in CommandIds
  BY <1>1, RowsAreRows DEF Sound
<1>. QED  BY <1>2, <1>4, <1>5, <1>6, <1>7 DEF Sound

\* A poll that claims nothing.
LEMMA ClaimNothingInv ==
    ASSUME MemInv, NEW w \in Workers, ClaimNothing(w)
    PROVE  MemInv'
<1>1. cmds' = Reclaimed(w) /\ held' = held /\ owed' = owed /\ givenBack' = givenBack
  BY DEF ClaimNothing
<1>2. /\ cmds' \in Table /\ Sound(cmds') /\ Rows(cmds') = Rows(cmds)
      /\ \A d \in Rows(cmds) :
            /\ cmds'[d].subject = cmds[d].subject
            /\ cmds'[d] = cmds[d] \/ cmds'[d].token = None
  BY <1>1, ReclaimedSound
<1>3. held' \in [Workers -> Delivery \cup {None}] /\ givenBack' \subseteq CommandIds
  BY <1>1 DEF MemInv, MemTypeOK
<1>. QED  BY <1>1, <1>2, <1>3, QuietInv

\* A claim: the item leaves its queue for a fresh delivery, and what was
\* reclaimed on the way is back in its queue.
LEMMA ClaimCommandInv ==
    ASSUME MemInv, NEW w \in Workers, NEW c \in CommandIds, ClaimCommand(w, c)
    PROVE  MemInv'
<1>. USE DEF MemInv
<1> DEFINE u == Reclaimed(w)
           put == [u[c] EXCEPT !.token = w]
<1>1. /\ u \in Table /\ Sound(u) /\ Rows(u) = Rows(cmds)
      /\ \A d \in Rows(cmds) :
            /\ u[d] \in Row
            /\ u[d].subject = cmds[d].subject
            /\ u[d] = cmds[d] \/ (cmds[d].token # None /\ u[d].token = None)
  BY ReclaimedSound
<1>2. /\ c \in Rows(cmds) /\ u[c].token = None /\ ~u[c].dead
      /\ cmds' = [u EXCEPT ![c].token = w] /\ held[w] = None
      /\ held' = [held EXCEPT ![w] = [cmd |-> c, subject |-> cmds[c].subject, fresh |-> TRUE]]
      /\ givenBack' = givenBack \ {c} /\ owed' = owed
  BY <1>1 DEF ClaimCommand, ClaimCandidates, Busy
<1>. HIDE DEF u
<1>3. u[c] \in Row /\ SoundRow(u[c]) /\ c \in Rows(u)
  BY <1>1, <1>2 DEF Sound
<1>4. /\ put \in Row /\ put.subject = cmds[c].subject /\ put.token = w /\ put.dead = u[c].dead
      /\ put.deliveries = u[c].deliveries /\ put.reaped = u[c].reaped
  BY <1>1, <1>2, <1>3 DEF Row
<1>5. SoundRow(put) /\ put # None
  BY <1>3, <1>4, NoneAssumption DEF SoundRow, NoneAssumption
<1>6. cmds' = [u EXCEPT ![c] = put]
  BY <1>2
<1>. HIDE DEF put
<1>7. /\ cmds' \in Table /\ Sound(cmds') /\ Rows(cmds') = Rows(cmds)
      /\ cmds'[c] = put /\ \A d \in Rows(cmds) \ {c} : cmds'[d] = u[d]
  BY <1>1, <1>3, <1>4, <1>5, <1>6 DEF Table, Sound, Rows
<1>8. \A v \in Workers : held'[v] = IF v = w THEN [cmd |-> c, subject |-> cmds[c].subject, fresh |-> TRUE]
                                    ELSE held[v]
  BY <1>2 DEF MemTypeOK
<1>9. cmds[c] \in Row /\ cmds[c].subject \in Subjects
  BY <1>2, RowsAreRows DEF MemTypeOK, Row
<1>10. MemTypeOK'
  <2>1. [cmd |-> c, subject |-> cmds[c].subject, fresh |-> TRUE] \in Delivery
    BY <1>9 DEF Delivery
  <2>. QED  BY <1>2, <1>7, <2>1 DEF MemTypeOK
<1>11. DeadExactlyAtThreshold'
  BY <1>7 DEF DeadExactlyAtThreshold, Sound, SoundRow
<1>12. ClaimedIsLive' /\ GivenBackIsQueued'
  <2>1. ~cmds'[c].dead
    BY <1>2, <1>4, <1>7, Zenon
  <2>2. ASSUME NEW d \in Rows(cmds) \ {c}
        PROVE  /\ cmds'[d].token # None => ~cmds'[d].dead
               /\ d \in givenBack => cmds'[d].token = None
    BY <1>1, <1>7 DEF ClaimedIsLive, GivenBackIsQueued
  <2>. QED  BY <1>2, <1>7, <2>1, <2>2 DEF ClaimedIsLive, GivenBackIsQueued
<1>13. ClaimMatches'
  <2>. SUFFICES ASSUME NEW v \in Workers, held'[v] # None, Leased(cmds', held'[v].cmd, v)
                PROVE  cmds'[held'[v].cmd].subject = held'[v].subject
    BY DEF ClaimMatches, Busy, MatchesClaim
  <2>1. CASE v = w
    BY <1>4, <1>7, <1>8, <2>1
  <2>2. CASE v # w
    <3>1. held'[v] = held[v] /\ held[v].cmd \in Rows(cmds) /\ held[v].cmd # c
      BY <1>4, <1>7, <1>8, <2>2 DEF Leased
    <3>2. Leased(cmds, held[v].cmd, v) /\ cmds'[held[v].cmd].subject = cmds[held[v].cmd].subject
      BY <1>1, <1>7, <3>1, DisjointAssumption DEF Leased, DisjointAssumption
    <3>. QED  BY <3>1, <3>2 DEF ClaimMatches, Busy, MatchesClaim
  <2>. QED  BY <2>1, <2>2
<1>14. AttemptsFresh'
  BY <1>8 DEF AttemptsFresh, Busy
<1>15. OwedIsDeliverable'
  <2>1. \A d \in Rows(cmds) : cmds'[d].subject = cmds[d].subject
    BY <1>1, <1>4, <1>7
  <2>2. Deliverable(c)'
    BY <1>4, <1>7, <1>8 DEF Deliverable
  <2>3. ASSUME NEW d \in Rows(cmds), d # c, cmds[d].dead \/ Deliverable(d)
        PROVE  cmds'[d].dead \/ Deliverable(d)'
    <3>1. cmds[d].token \in Workers \cup {None}
      BY RowsAreRows DEF MemTypeOK, Row
    <3>. QED  BY <1>1, <1>7, <1>8, <2>3, <3>1 DEF Deliverable
  <2>. QED  BY <1>2, <1>7, <2>1, <2>2, <2>3 DEF OwedIsDeliverable
<1>. QED  BY <1>10, <1>11, <1>12, <1>13, <1>14, <1>15

\* Steps that only add items or fold a wake-up of r into one: every item
\* keeps its subject, claim and dead flag, deliveries of other subjects
\* keep their freshness, and an owed subject of the step has an item that
\* delivers it.
LEMMA ProducerInv ==
    ASSUME MemInv, NEW s \in Subjects, cmds' \in Table, Sound(cmds'),
           \A d \in Rows(cmds) : /\ d \in Rows(cmds')
                                 /\ cmds'[d].subject = cmds[d].subject
                                 /\ cmds'[d].token = cmds[d].token
                                 /\ cmds'[d].dead = cmds[d].dead,
           \A d \in Rows(cmds') \ Rows(cmds) : cmds'[d].token = None,
           held' \in [Workers -> Delivery \cup {None}],
           \A w \in Workers :
              /\ Busy(w) <=> held'[w] # None
              /\ Busy(w) => /\ held'[w].cmd = held[w].cmd
                            /\ held'[w].subject = held[w].subject
                            /\ held[w].subject # s \/ s \in Attempts => held'[w].fresh = held[w].fresh,
           \E d \in Rows(cmds') : cmds'[d].subject = s /\ (cmds'[d].dead \/ Deliverable(d)'),
           owed' = owed \cup {s}, givenBack' \subseteq givenBack
    PROVE  MemInv'
<1>. USE DEF MemInv
<1>1. MemTypeOK' /\ DeadExactlyAtThreshold'
  BY DEF MemTypeOK, DeadExactlyAtThreshold, Sound, SoundRow
<1>2. ClaimedIsLive' /\ GivenBackIsQueued'
  BY DEF ClaimedIsLive, GivenBackIsQueued
<1>3. ClaimMatches'
  BY DisjointAssumption DEF ClaimMatches, Busy, MatchesClaim, Leased, DisjointAssumption
<1>4. AttemptsFresh'
  BY DEF AttemptsFresh, Busy
<1>5. OwedIsDeliverable'
  <2>1. ASSUME NEW d \in Rows(cmds), cmds[d].subject # s, Deliverable(d) PROVE Deliverable(d)'
    <3>1. cmds[d].token \in Workers \cup {None}
      BY RowsAreRows DEF MemTypeOK, Row
    <3>. QED  BY <2>1, <3>1 DEF Deliverable, Busy, ClaimMatches, MatchesClaim, Leased
  <2>. QED  BY <2>1 DEF OwedIsDeliverable
<1>. QED  BY <1>1, <1>2, <1>3, <1>4, <1>5

\* enqueueContinue leaves a live queued item of the run.
LEMMA EnqueuedItem ==
    ASSUME MemInv, NEW r \in Runs, NEW c \in CommandIds, NEW now \in BOOLEAN,
           EnqueueContinue(r, c, now)
    PROVE  /\ cmds' \in Table /\ Sound(cmds')
           /\ \A d \in Rows(cmds) : /\ d \in Rows(cmds')
                                    /\ cmds'[d].subject = cmds[d].subject
                                    /\ cmds'[d].token = cmds[d].token
                                    /\ cmds'[d].dead = cmds[d].dead
                                    /\ cmds'[d].deliveries = cmds[d].deliveries
           /\ \A d \in Rows(cmds') \ Rows(cmds) : cmds'[d].token = None
           /\ c \in Rows(cmds') /\ cmds'[c].subject = r /\ cmds'[c].token = None /\ ~cmds'[c].dead
<1>1. cmds \in Table /\ Sound(cmds)
  BY MemSoundTable DEF MemInv, MemTypeOK
<1>2. CASE AbsorbingItems(r) # {}
  <2> DEFINE row == [cmds[c] EXCEPT !.due = @ \/ now]
  <2>1. /\ c \in Rows(cmds) /\ cmds[c].subject = r /\ cmds[c].token = None /\ ~cmds[c].dead
        /\ cmds' = [cmds EXCEPT ![c] = row]
    BY <1>2 DEF EnqueueContinue, AbsorbingItems
  <2>2. cmds[c] \in Row /\ SoundRow(cmds[c])
    BY <1>1, <2>1, RowsAreRows DEF Sound
  <2>3. (cmds[c].due \/ now) \in BOOLEAN
    BY Zenon
  <2>4. row \in Row
    BY <2>2, <2>3 DEF Row
  <2>5. /\ row.subject = cmds[c].subject /\ row.token = cmds[c].token
        /\ row.dead = cmds[c].dead /\ row.deliveries = cmds[c].deliveries
        /\ row.reaped = cmds[c].reaped
    BY <2>2 DEF Row
  <2>6. SoundRow(row) /\ row # None /\ ~row.dead
    BY <2>1, <2>2, <2>4, <2>5, NoneAssumption DEF SoundRow, NoneAssumption
  <2>. HIDE DEF row
  <2>7. /\ cmds' \in Table /\ Sound(cmds') /\ Rows(cmds') = Rows(cmds)
        /\ cmds'[c] = row /\ \A d \in CommandIds \ {c} : cmds'[d] = cmds[d]
    BY <1>1, <2>1, <2>4, <2>6 DEF Table, Sound, Rows
  <2>. QED  BY <2>1, <2>5, <2>6, <2>7 DEF Rows
<1>3. CASE AbsorbingItems(r) = {}
  <2> DEFINE row == NewRow(r, now)
  <2>1. c \notin Rows(cmds) /\ cmds' = [cmds EXCEPT ![c] = row]
    BY <1>3 DEF EnqueueContinue
  <2>2. row \in Row /\ SoundRow(row) /\ row.subject = r /\ row.token = None /\ row # None
    BY NewRowSound DEF Subjects
  <2>3. ~row.dead
    BY DEF NewRow
  <2>. HIDE DEF row
  <2>4. /\ cmds' \in Table /\ Sound(cmds') /\ Rows(cmds') = Rows(cmds) \cup {c}
        /\ cmds'[c] = row /\ \A d \in CommandIds \ {c} : cmds'[d] = cmds[d]
    BY <1>1, <2>1, <2>2 DEF Table, Sound, Rows
  <2>. QED  BY <2>1, <2>2, <2>3, <2>4 DEF Rows
<1>. QED  BY <1>2, <1>3

\* enqueueContinue: the item of the wake-up is queued, and no delivery of
\* another subject loses its freshness.
LEMMA EnqueueContinueInv ==
    ASSUME MemInv, NEW r \in Runs, NEW c \in CommandIds, NEW now \in BOOLEAN,
           EnqueueContinue(r, c, now)
    PROVE  MemInv'
<1>1. /\ cmds' \in Table /\ Sound(cmds')
      /\ \A d \in Rows(cmds) : /\ d \in Rows(cmds')
                               /\ cmds'[d].subject = cmds[d].subject
                               /\ cmds'[d].token = cmds[d].token
                               /\ cmds'[d].dead = cmds[d].dead
      /\ \A d \in Rows(cmds') \ Rows(cmds) : cmds'[d].token = None
      /\ c \in Rows(cmds') /\ cmds'[c].subject = r /\ cmds'[c].token = None
  BY EnqueuedItem
<1>2. \A w \in Workers : held'[w] = IF Busy(w) /\ held[w].subject = r
                                    THEN [held[w] EXCEPT !.fresh = FALSE] ELSE held[w]
  BY DEF EnqueueContinue
<1>3. ASSUME NEW w \in Workers, Busy(w), held[w].subject = r
      PROVE  /\ held'[w] \in Delivery
             /\ held'[w].cmd = held[w].cmd
             /\ held'[w].subject = held[w].subject
  <2>1. held[w] \in Delivery /\ held'[w] = [held[w] EXCEPT !.fresh = FALSE]
    BY <1>2, <1>3 DEF Busy, MemInv, MemTypeOK
  <2>. QED  BY <2>1 DEF Delivery
<1>4. \A w \in Workers : held'[w] \in Delivery \cup {None}
  BY <1>2, <1>3 DEF MemInv, MemTypeOK
<1>5. held' \in [Workers -> Delivery \cup {None}]
  BY <1>4 DEF EnqueueContinue
<1>6. \A w \in Workers :
        /\ Busy(w) <=> held'[w] # None
        /\ Busy(w) => /\ held'[w].cmd = held[w].cmd
                      /\ held'[w].subject = held[w].subject
                      /\ held[w].subject # r \/ r \in Attempts => held'[w].fresh = held[w].fresh
  BY <1>2, <1>3, IdleAssumption, DisjointAssumption DEF Busy, IdleAssumption, DisjointAssumption
<1>7. Deliverable(c)' /\ owed' = owed \cup {r} /\ givenBack' \subseteq givenBack /\ r \in Subjects
  BY <1>1 DEF Deliverable, EnqueueContinue, Subjects
<1>. QED  BY <1>1, <1>5, <1>6, <1>7, ProducerInv

\* Dispatch: an existing item of the attempt serves the request, because
\* attempt deliveries are never overtaken.
LEMMA DispatchInv ==
    ASSUME MemInv, NEW a \in Attempts, NEW c \in CommandIds, NEW now \in BOOLEAN,
           Dispatch(a, c, now)
    PROVE  MemInv'
<1>1. /\ cmds' \in Table /\ Sound(cmds')
      /\ \A d \in Rows(cmds) : d \in Rows(cmds') /\ cmds'[d] = cmds[d]
      /\ \A d \in Rows(cmds') \ Rows(cmds) : cmds'[d].token = None
      /\ AttemptRowExists(cmds, a) => cmds' = cmds
      /\ ~AttemptRowExists(cmds, a) => c \in Rows(cmds') /\ cmds'[c].subject = a
                                                         /\ cmds'[c].token = None
  BY DispatchAttemptSound, MemSoundTable DEF MemInv, MemTypeOK, Dispatch
<1>2. held' = held /\ owed' = owed \cup {a} /\ givenBack' \subseteq givenBack /\ a \in Subjects
  BY DEF Dispatch, Subjects
<1>3. \E d \in Rows(cmds') : cmds'[d].subject = a /\ (cmds'[d].dead \/ Deliverable(d)')
  <2>1. CASE AttemptRowExists(cmds, a)
    <3>1. PICK d \in Rows(cmds) : cmds[d].subject = a
      BY <2>1 DEF AttemptRowExists
    <3>2. cmds[d].token \in Workers \cup {None}
      BY RowsAreRows DEF MemInv, MemTypeOK, Row
    <3>3. Deliverable(d)'
      BY <1>1, <1>2, <2>1, <3>1, <3>2
      DEF Deliverable, MemInv, ClaimMatches, AttemptsFresh, Busy, MatchesClaim, Leased
    <3>. QED  BY <1>1, <3>1, <3>3
  <2>2. CASE ~AttemptRowExists(cmds, a)
    BY <1>1, <2>2 DEF Deliverable
  <2>. QED  BY <2>1, <2>2
<1>4. held' \in [Workers -> Delivery \cup {None}]
  BY <1>2 DEF MemInv, MemTypeOK
<1>. QED  BY <1>1, <1>2, <1>3, <1>4, ProducerInv DEF Busy

\* Steps that only delete items, and owe nothing whose item they deleted.
LEMMA DeletionInv ==
    ASSUME MemInv, cmds' \in Table,
           \A d \in CommandIds : cmds'[d] \in {cmds[d], None},
           owed' \subseteq owed, givenBack' \subseteq givenBack,
           \A d \in Rows(cmds) \ Rows(cmds') :
              cmds[d].subject \notin owed' \/ ~(cmds[d].dead \/ Deliverable(d)),
           held' \in [Workers -> Delivery \cup {None}],
           \A w \in Workers : held'[w] \in {held[w], None}
    PROVE  MemInv'
<1>. USE DEF MemInv
<1>1. \A d \in Rows(cmds') : d \in Rows(cmds) /\ cmds'[d] = cmds[d]
  BY DEF Rows
<1>2. MemTypeOK' /\ DeadExactlyAtThreshold' /\ ClaimedIsLive' /\ GivenBackIsQueued' /\ AttemptsFresh'
  BY <1>1 DEF MemTypeOK, DeadExactlyAtThreshold, ClaimedIsLive, GivenBackIsQueued, AttemptsFresh, Busy
<1>3. ClaimMatches'
  BY <1>1 DEF ClaimMatches, Busy, MatchesClaim, Leased
<1>4. OwedIsDeliverable'
  <2>. SUFFICES ASSUME NEW s \in owed'
                PROVE  \E d \in Rows(cmds') : cmds'[d].subject = s
                            /\ (cmds'[d].dead \/ Deliverable(d)')
    BY DEF OwedIsDeliverable
  <2>1. PICK d \in Rows(cmds) : cmds[d].subject = s /\ (cmds[d].dead \/ Deliverable(d))
    BY DEF OwedIsDeliverable
  <2>2. d \in Rows(cmds') /\ cmds'[d] = cmds[d]
    BY <1>1, <2>1
  <2>3. cmds[d].token \in Workers \cup {None}
    BY RowsAreRows DEF MemTypeOK, Row
  <2>4. Deliverable(d) => Deliverable(d)'
    BY <2>2, <2>3 DEF Deliverable
  <2>. QED  BY <2>1, <2>2, <2>4
<1>. QED  BY <1>2, <1>3, <1>4

\* An ack deletes the item only under its claim, and settles its subject
\* only if no wake-up came since.
LEMMA AckHeldInv ==
    ASSUME MemInv, NEW w \in Workers, AckHeld(w)
    PROVE  MemInv'
<1>1. PICK c \in CommandIds : held[w] \in Delivery /\ held[w].cmd = c
  BY DEF AckHeld, Busy, MemInv, MemTypeOK, Delivery
<1>2. /\ cmds' \in Table /\ \A d \in CommandIds : cmds'[d] \in {cmds[d], None}
      /\ owed' \subseteq owed /\ givenBack' \subseteq givenBack
      /\ held' \in [Workers -> Delivery \cup {None}]
      /\ \A v \in Workers : held'[v] \in {held[v], None}
  BY <1>1 DEF AckHeld, Ack, Drop, MemInv, MemTypeOK, Table
<1>3. ASSUME NEW d \in Rows(cmds) \ Rows(cmds')
      PROVE  cmds[d].subject \notin owed' \/ ~(cmds[d].dead \/ Deliverable(d))
  <2>1. d = c /\ Leased(cmds, c, w)
    BY <1>1 DEF AckHeld, Ack, Rows, MemInv, MemTypeOK, Table
  <2>2. cmds[c].token = w /\ ~cmds[c].dead /\ cmds[c].subject = held[w].subject /\ held[w] # None
    BY <1>1, <2>1, DisjointAssumption
    DEF MemInv, ClaimedIsLive, ClaimMatches, AckHeld, Busy, MatchesClaim, Leased, DisjointAssumption
  <2>3. held[w].fresh => cmds[d].subject \notin owed'
    BY <1>1, <2>1, <2>2 DEF AckHeld, MatchesClaim
  <2>4. ~held[w].fresh => ~Deliverable(c)
    BY <1>1, <2>2, DisjointAssumption DEF Deliverable, DisjointAssumption
  <2>. QED  BY <2>1, <2>2, <2>3, <2>4
<1>. QED  BY <1>2, <1>3, DeletionInv

\* deleteUnclaimed, deleteRun and the sweep of dead items.
LEMMA WithdrawInv ==
    ASSUME MemInv, \/ \E r \in Runs : DeleteUnclaimedOf(r) \/ DeleteRun(r)
                   \/ \E c \in CommandIds : SweepDead(c)
    PROVE  MemInv'
<1>1. /\ Withdrawn /\ cmds' \in Table
      /\ \A d \in CommandIds : cmds'[d] \in {cmds[d], None}
  BY DEF MemInv, MemTypeOK, Table, DeleteUnclaimedOf, DeleteUnclaimed, DeleteRun,
         DeleteRunCommands, SweepDead, SweepDeadCommand
<1>2. /\ owed' \subseteq owed /\ givenBack' \subseteq givenBack /\ held' = held
      /\ held' \in [Workers -> Delivery \cup {None}]
      /\ \A d \in Rows(cmds) \ Rows(cmds') : cmds[d].subject \notin owed'
  BY <1>1 DEF Withdrawn, MemInv, MemTypeOK
<1>. QED  BY <1>1, <1>2, DeletionInv

\* Every step of the in-memory queue preserves the invariant.
LEMMA MemNextInv == MemInv /\ [MemNext]_memVars => MemInv'
<1>. SUFFICES ASSUME MemInv, [MemNext]_memVars PROVE MemInv'
  OBVIOUS
<1>1. ASSUME NEW c \in CommandIds, NEW now \in BOOLEAN, NEW r \in Runs,
             EnqueueContinue(r, c, now)
      PROVE  MemInv'
  BY <1>1, EnqueueContinueInv
<1>2. ASSUME NEW c \in CommandIds, NEW now \in BOOLEAN, NEW a \in Attempts,
             Dispatch(a, c, now)
      PROVE  MemInv'
  BY <1>2, DispatchInv
<1>3. ASSUME NEW w \in Workers, WorkerStep(w)
      PROVE  MemInv'
  BY <1>3, ClaimCommandInv, ClaimNothingInv, AckHeldInv, SettleInv DEF WorkerStep
<1>4. CASE UNCHANGED memVars
  BY <1>4 DEF MemInv, memVars, MemTypeOK, DeadExactlyAtThreshold, ClaimedIsLive, ClaimMatches,
              AttemptsFresh, GivenBackIsQueued, OwedIsDeliverable, Deliverable, Rows, Busy,
              MatchesClaim, Leased
<1>. QED  BY <1>1, <1>2, <1>3, <1>4, WithdrawInv, ClockInv DEF MemNext

-----------------------------------------------------------------------------
\* The in-memory runtime keeps the queue contract: items stay well formed,
\* no wake-up is lost by folding, reclaiming, a late ack or a withdrawal,
\* and an item is dead exactly at the threshold.
THEOREM MemoryKeepsContract == MemSpec => []KeepsQueueContract
<1>1. MemInv => KeepsQueueContract
  BY DEF MemInv, KeepsQueueContract
<1>. QED  BY MemInitInv, MemNextInv, <1>1, PTL DEF MemSpec

\* A step that counts a delivery of an item counts one that was claimed
\* and not given back, by a reclaim or by a failed release.
LEMMA GivenBackUncounted ==
    ASSUME MemInv, MemNext, NEW c \in (givenBack \cup givenBack') \cap Rows(cmds) \cap Rows(cmds')
    PROVE  cmds'[c].deliveries <= cmds[c].deliveries
<1>1. /\ c \in CommandIds /\ cmds[c] \in Row /\ cmds[c].deliveries \in Nat
      /\ cmds \in Table /\ Sound(cmds)
      /\ c \in givenBack => cmds[c].token = None
  BY RowsAreRows, MemSoundTable, MaxDeliveriesAssumption
  DEF MemInv, MemTypeOK, GivenBackIsQueued, Row, MaxDeliveriesAssumption
<1>2. CASE cmds'[c] = cmds[c] \/ cmds'[c].deliveries = cmds[c].deliveries
  BY <1>1, <1>2
<1>3. CASE \E d \in CommandIds, now \in BOOLEAN, r \in Runs : EnqueueContinue(r, d, now)
  BY <1>2, <1>3, EnqueuedItem
<1>4. CASE \E d \in CommandIds, now \in BOOLEAN, a \in Attempts : Dispatch(a, d, now)
  <2>1. PICK d \in CommandIds, now \in BOOLEAN, a \in Attempts : Dispatch(a, d, now)
    BY <1>4
  <2>2. cmds'[c] = cmds[c]
    BY <1>1, <2>1, DispatchAttemptSound DEF Dispatch
  <2>. QED  BY <1>2, <2>2
<1>5. ASSUME NEW w \in Workers, WorkerStep(w)
      PROVE  cmds'[c].deliveries <= cmds[c].deliveries
  <2> DEFINE u == Reclaimed(w)
  <2>1. c \in givenBack => u[c] = cmds[c]
    BY <1>1, ReclaimedSound
  <2>2. ASSUME NEW d \in CommandIds, ClaimCommand(w, d)
        PROVE  cmds'[c].deliveries = cmds[c].deliveries
    <3>1. cmds' = [u EXCEPT ![d].token = w] /\ c \in givenBack
      BY <2>2 DEF ClaimCommand
    <3>2. u[c] \in Row /\ u \in Table
      BY <1>1, <2>1, <3>1, ReclaimedSound
    <3>. HIDE DEF u
    <3>. QED  BY <1>1, <2>1, <3>1, <3>2 DEF Row, Table
  <2>3. CASE ClaimNothing(w)
    BY <1>2, <2>1, <2>3 DEF ClaimNothing
  <2>4. CASE AckHeld(w)
    BY <1>1, <1>2, <2>4 DEF AckHeld, Ack, Rows, Table
  <2>5. CASE ReleaseHeld(w)
    <3>1. cmds'[c] = cmds[c] \/ cmds'[c] = ReleaseQueueItem(cmds[c], FALSE)
      BY <1>1, <2>5 DEF ReleaseHeld, Release, Table
    <3>. QED  BY <1>1, <1>2, <3>1 DEF ReleaseQueueItem, Row
  <2>6. CASE FailHeld(w)
    <3>1. c \in givenBack /\ (Leased(cmds, held[w].cmd, w) => held[w].cmd # c)
      BY <1>1, <2>6, DisjointAssumption DEF FailHeld, Leased, DisjointAssumption
    <3>. QED  BY <1>1, <1>2, <2>6, <3>1 DEF FailHeld, Release, MatchesClaim, Table
  <2>7. CASE HeartbeatHeld(w)
    <3>1. cmds'[c] = cmds[c] \/ cmds'[c] = [cmds[c] EXCEPT !.expired = FALSE]
      BY <1>1, <2>7 DEF HeartbeatHeld, Heartbeat, Table
    <3>. QED  BY <1>1, <1>2, <3>1 DEF Row
  <2>8. CASE Vanish(w)
    BY <1>2, <2>8 DEF Vanish
  <2>. QED  BY <1>2, <1>5, <2>2, <2>3, <2>4, <2>5, <2>6, <2>7, <2>8 DEF WorkerStep
<1>6. CASE \/ \E r \in Runs : DeleteUnclaimedOf(r) \/ DeleteRun(r)
           \/ \E d \in CommandIds : SweepDead(d)
  <2>1. cmds'[c] = cmds[c]
    BY <1>1, <1>6 DEF DeleteUnclaimedOf, DeleteUnclaimed, DeleteRun, DeleteRunCommands,
                      SweepDead, SweepDeadCommand, Rows, Table
  <2>. QED  BY <1>2, <2>1
<1>7. ASSUME NEW d \in CommandIds, MarkReaped(d) \/ LeaseExpires(d) \/ BecomesDue(d)
      PROVE  cmds'[c].deliveries <= cmds[c].deliveries
  <2>1. \/ cmds'[c] = cmds[c]
        \/ cmds'[c] = [cmds[c] EXCEPT !.reaped = TRUE]
        \/ cmds'[c] = [cmds[c] EXCEPT !.expired = TRUE]
        \/ cmds'[c] = [cmds[c] EXCEPT !.due = TRUE]
    BY <1>1, <1>7 DEF MarkReaped, MarkDeadCommandReaped, LeaseExpires, BecomesDue, Table
  <2>. QED  BY <1>1, <1>2, <2>1 DEF Row
<1>8. ASSUME NEW d \in CommandIds, RequeueDead(d)
      PROVE  cmds'[c].deliveries <= cmds[c].deliveries
  BY <1>1, <1>2, <1>8 DEF RequeueDead, NewRow, Table
<1>. QED  BY <1>3, <1>4, <1>5, <1>6, <1>7, <1>8 DEF MemNext

\* Where the Postgres queue fails: a dead item never absorbs a wake-up,
\* and a delivery that ended in a plain release is never counted.
THEOREM MemoryHoldsWherePostgresFails == MemSpec => HoldsWherePostgresFails
<1>1. MemInv /\ [MemNext]_memVars =>
        [\A r \in Runs : (\E c \in CommandIds, now \in BOOLEAN : EnqueueContinue(r, c, now))
            => \E c \in Rows(cmds') : cmds'[c].subject = r /\ ~cmds'[c].dead]_memVars
  <2>. SUFFICES ASSUME MemInv, NEW r \in Runs, NEW c \in CommandIds, NEW now \in BOOLEAN,
                       EnqueueContinue(r, c, now)
                PROVE  \E d \in Rows(cmds') : cmds'[d].subject = r /\ ~cmds'[d].dead
    OBVIOUS
  <2>. QED  BY EnqueuedItem
<1>2. MemInv /\ [MemNext]_memVars =>
        [\A c \in (givenBack \cup givenBack') \cap Rows(cmds) \cap Rows(cmds') :
            cmds'[c].deliveries <= cmds[c].deliveries]_memVars
  BY GivenBackUncounted
<1>. QED  BY MemInitInv, MemNextInv, <1>1, <1>2, PTL
          DEF MemSpec, HoldsWherePostgresFails, DeadNeverAbsorbs, PlainReleaseUncounted

-----------------------------------------------------------------------------
\* The rows of the tables.  No call puts a node or a child into
\* "cancelling", the one status on which the guards of waitNode differ.
NodeReached == NodeStatus \ {"cancelling"}

RunRow == [status : RunStatus, input : {1, 2}, parent : Nat, root : Nat, idem : BOOLEAN,
           scope : Scopes, version : Nat]
NodeRow == [status : NodeReached, version : Nat, case : {0, 1, 2}]
KidRow == [status : NodeReached, version : Nat, run : Nat, attempt : Nat, count : Nat]

StoreFields == {"runs", "nodes", "kids", "attempts", "leases", "keys", "ids"}

IsStore(d) ==
    /\ d = [f \in StoreFields |-> d[f]]
    /\ d.ids = [f \in {"run", "attempt", "token"} |-> d.ids[f]]
    /\ d.keys = [f \in {"idem", "active", "all"} |-> d.keys[f]]

\* Two stores that differ in their keys only.
Twin(m, p) ==
    /\ IsStore(m) /\ IsStore(p)
    /\ m.runs = p.runs /\ m.nodes = p.nodes /\ m.kids = p.kids
    /\ m.attempts = p.attempts /\ m.leases = p.leases /\ m.ids = p.ids

\* The runs are a forest: a run was created after its parent, which is
\* there, and has its root.
RunsOk(runs, n) ==
    /\ n \in 0..MaxRuns
    /\ runs \in [DOMAIN runs -> RunRow]
    /\ DOMAIN runs \subseteq 1..n
    /\ \A r \in DOMAIN runs :
         /\ runs[r].parent = 0 => runs[r].root = r
         /\ runs[r].parent # 0 => /\ runs[r].parent \in DOMAIN runs
                                  /\ runs[r].parent < r
                                  /\ runs[r].root = runs[runs[r].parent].root

NodesOk(nodes) == nodes \in [DOMAIN nodes -> NodeRow]

\* A child of a run's node names a child run of that run.
KidsOk(kids, runs) ==
    /\ kids \in [DOMAIN kids -> KidRow]
    /\ \A k \in DOMAIN kids :
         /\ k[1] \in DOMAIN runs
         /\ kids[k].run # 0 => kids[k].run \in DOMAIN runs /\ runs[kids[k].run].parent = k[1]

\* Every map of the in-memory store names the one run the index of
\* Postgres has, or none.
Names(x, S) == S = IF x = 0 THEN {} ELSE {x}

HasIdem(runs) == {r \in DOMAIN runs : runs[r].idem}
HasActive(runs) == {r \in DOMAIN runs : runs[r].scope = "active" /\ runs[r].status \notin Terminal}
HasAll(runs) == {r \in DOMAIN runs : runs[r].scope = "all"}

KeysOk(keys, runs) ==
    /\ Names(keys.idem, HasIdem(runs))
    /\ Names(keys.active, HasActive(runs))
    /\ Names(keys.all, HasAll(runs))

Pair(m, p) ==
    /\ Twin(m, p)
    /\ RunsOk(p.runs, p.ids.run) /\ p.ids.attempt \in Nat
    /\ NodesOk(p.nodes) /\ KidsOk(p.kids, p.runs)
    /\ KeysOk(m.keys, m.runs)

\* A call that keeps the stores a pair, gives the same answer from both
\* and deletes no run.
InStep(p, a, b) ==
    /\ Pair(a.db, b.db)
    /\ a.answer = b.answer
    /\ DOMAIN p.runs \subseteq DOMAIN b.db.runs

-----------------------------------------------------------------------------
(* Guards.                                                                 *)

\* waitNode, completeNode, failNode and cancelNode guard a node alike.
LEMMA NodeMaySame ==
    ASSUME NEW from \in NodeReached, NEW to \in {"waiting"} \cup Terminal
    PROVE  NodeMay("mem", from, to) <=> NodeMay("pg", from, to)
<1>1. CASE to = "waiting"
  BY <1>1 DEF NodeMay, MemNodeMay, PgNodeMay, NodeSources, NodeReached, NodeStatus, Terminal
<1>2. CASE to \in Terminal
  BY <1>2 DEF NodeMay, MemNodeMay, PgNodeMay, NodeSources, NodeReached, NodeStatus, Terminal
<1> QED BY <1>1, <1>2

\* The status changes of a run are guarded alike.
LEMMA RunMaySame ==
    ASSUME NEW from \in RunStatus, NEW to \in {"running", "waiting", "cancelling"} \cup Terminal
    PROVE  MemRunMay(from, to) <=> PgRunMay(from, to)
BY DEF MemRunMay, PgRunMay, RunSources, RunStatus, Terminal

\* The node of a new attempt starts running alike.
LEMMA NodeRunsSame ==
    ASSUME NEW from \in NodeReached
    PROVE  MemNodeRuns(from) <=> PgNodeRuns(from)
BY DEF MemNodeRuns, PgNodeRuns, NodeSources, NodeReached, NodeStatus

-----------------------------------------------------------------------------
(* Rows.                                                                   *)

\* A node row that moves is a node row.
LEMMA MovedNode ==
    ASSUME NEW row \in NodeRow, NEW to \in NodeReached
    PROVE  Moved(row, to) \in NodeRow
<1>1. row = [status |-> row.status, version |-> row.version, case |-> row.case]
  BY DEF NodeRow
<1>2. [row EXCEPT !.status = to] = [status |-> to, version |-> row.version, case |-> row.case]
  BY <1>1
<1>3. Moved(row, to) = [[row EXCEPT !.status = to] EXCEPT !.version = row.version + 1]
  BY <1>1 DEF Moved
<1>4. Moved(row, to) = [status |-> to, version |-> row.version + 1, case |-> row.case]
  BY <1>2, <1>3
<1> QED BY <1>4 DEF NodeRow

\* A child row that moves keeps its child run.
LEMMA MovedKid ==
    ASSUME NEW row \in KidRow, NEW to \in NodeReached
    PROVE  Moved(row, to) \in KidRow /\ Moved(row, to).run = row.run
<1>1. row = [status |-> row.status, version |-> row.version, run |-> row.run, attempt |-> row.attempt,
        count |-> row.count]
  BY DEF KidRow
<1>2. [row EXCEPT !.status = to] = [status |-> to, version |-> row.version, run |-> row.run,
        attempt |-> row.attempt, count |-> row.count]
  BY <1>1
<1>3. Moved(row, to) = [[row EXCEPT !.status = to] EXCEPT !.version = row.version + 1]
  BY <1>1 DEF Moved
<1>4. Moved(row, to) = [status |-> to, version |-> row.version + 1, run |-> row.run, attempt |-> row.attempt,
        count |-> row.count]
  BY <1>2, <1>3
<1> QED BY <1>4 DEF KidRow

\* A run row that moves changes its status and version alone.
LEMMA MovedRun ==
    ASSUME NEW row \in RunRow, NEW to \in RunStatus
    PROVE  /\ Moved(row, to) \in RunRow
           /\ Moved(row, to).status = to
           /\ Moved(row, to).parent = row.parent
           /\ Moved(row, to).root = row.root
           /\ Moved(row, to).idem = row.idem
           /\ Moved(row, to).scope = row.scope
<1>1. row = [status |-> row.status, input |-> row.input, parent |-> row.parent, root |-> row.root,
             idem |-> row.idem, scope |-> row.scope, version |-> row.version]
  BY DEF RunRow
<1>2. [row EXCEPT !.status = to] =
        [status |-> to, input |-> row.input, parent |-> row.parent, root |-> row.root,
         idem |-> row.idem, scope |-> row.scope, version |-> row.version]
  BY <1>1
<1>3. Moved(row, to) = [[row EXCEPT !.status = to] EXCEPT !.version = row.version + 1]
  BY <1>1 DEF Moved
<1>4. Moved(row, to) =
        [status |-> to, input |-> row.input, parent |-> row.parent, root |-> row.root,
         idem |-> row.idem, scope |-> row.scope, version |-> row.version + 1]
  BY <1>2, <1>3
<1> QED BY <1>4 DEF RunRow

\* The child row of a new attempt, and of a new child run.
LEMMA AttemptedKid ==
    ASSUME NEW row \in KidRow, NEW a \in Nat
    PROVE  Attempted(row, a) \in KidRow /\ Attempted(row, a).run = row.run
<1>1. row = [status |-> row.status, version |-> row.version, run |-> row.run, attempt |-> row.attempt,
        count |-> row.count]
  BY DEF KidRow
<1> DEFINE r1 == [row EXCEPT !.status = "running"]
           r2 == [r1 EXCEPT !.attempt = a]
           r3 == [r2 EXCEPT !.count = row.count + 1]
           new == Attempted(row, a)
<1>2. r1 = [status |-> "running", version |-> row.version, run |-> row.run, attempt |-> row.attempt,
        count |-> row.count]
  BY <1>1
<1>3. new = [r3 EXCEPT !.version = row.version + 1]
  BY <1>1 DEF Attempted
<1> HIDE DEF r1, new
<1>4. r2 = [status |-> "running", version |-> row.version, run |-> row.run, attempt |-> a, count |-> row.count]
  BY <1>2
<1> HIDE DEF r2
<1>5. r3 = [status |-> "running", version |-> row.version, run |-> row.run, attempt |-> a, count |-> row.count + 1]
  BY <1>4
<1> HIDE DEF r3
<1>6. new = [status |-> "running", version |-> row.version + 1, run |-> row.run, attempt |-> a,
        count |-> row.count + 1]
  BY <1>3, <1>5
<1> QED BY <1>6 DEF new, KidRow, NodeReached, NodeStatus

\* The child row of a new child run.
LEMMA LinkedKid ==
    ASSUME NEW row \in KidRow, NEW x \in Nat
    PROVE  Linked(row, x) \in KidRow /\ Linked(row, x).run = x
<1>1. row = [status |-> row.status, version |-> row.version, run |-> row.run, attempt |-> row.attempt,
        count |-> row.count]
  BY DEF KidRow
<1> DEFINE r1 == [row EXCEPT !.run = x]
           r2 == [r1 EXCEPT !.status = "running"]
           new == Linked(row, x)
<1>2. r1 = [status |-> row.status, version |-> row.version, run |-> x, attempt |-> row.attempt, count |-> row.count]
  BY <1>1
<1>3. new = [r2 EXCEPT !.version = row.version + 1]
  BY <1>1 DEF Linked
<1> HIDE DEF r1, new
<1>4. r2 = [status |-> "running", version |-> row.version, run |-> x, attempt |-> row.attempt, count |-> row.count]
  BY <1>2
<1> HIDE DEF r2
<1>5. new = [status |-> "running", version |-> row.version + 1, run |-> x, attempt |-> row.attempt,
        count |-> row.count]
  BY <1>3, <1>4
<1> QED BY <1>5 DEF new, KidRow, NodeReached, NodeStatus

\* A node row whose input was set.
LEMMA TouchedNode ==
    ASSUME NEW row \in NodeRow
    PROVE  Touched(row) \in NodeRow
BY DEF Touched, NodeRow

\* A node row whose case was selected.
LEMMA CasedNode ==
    ASSUME NEW row \in NodeRow, NEW case \in {1, 2}
    PROVE  Cased(row, case) \in NodeRow
<1>1. row = [status |-> row.status, version |-> row.version, case |-> row.case]
  BY DEF NodeRow
<1>2. [row EXCEPT !.case = case] = [status |-> row.status, version |-> row.version, case |-> case]
  BY <1>1
<1>3. Cased(row, case) = [[row EXCEPT !.case = case] EXCEPT !.version = row.version + 1]
  BY <1>1 DEF Cased
<1>4. Cased(row, case) = [status |-> row.status, version |-> row.version + 1, case |-> case]
  BY <1>2, <1>3
<1> QED BY <1>4 DEF NodeRow

-----------------------------------------------------------------------------
(* Tables.                                                                 *)

\* A call that changes nothing.
LEMMA StillStep ==
    ASSUME NEW m, NEW p, NEW x, Pair(m, p)
    PROVE  InStep(p, Done(m, x), Done(p, x))
BY DEF Pair, InStep, Done

\* A call that leaves a pair of stores and no run out.
LEMMA DoneStep ==
    ASSUME NEW p, NEW e, NEW f, NEW x, Pair(e, f), DOMAIN p.runs \subseteq DOMAIN f.runs
    PROVE  InStep(p, Done(e, x), Done(f, x))
BY DEF InStep, Done

\* Another nodes table.
LEMMA PutNodes ==
    ASSUME NEW m, NEW p, NEW N, Pair(m, p), NodesOk(N)
    PROVE  LET e == [m EXCEPT !.nodes = N]
               f == [p EXCEPT !.nodes = N]
           IN  Pair(e, f) /\ f.runs = p.runs /\ e.nodes = N /\ f.nodes = N
<1> DEFINE e == [m EXCEPT !.nodes = N]
           f == [p EXCEPT !.nodes = N]
<1>1. /\ Twin(e, f) /\ f.runs = p.runs /\ e.runs = m.runs /\ f.ids = p.ids /\ e.keys = m.keys
      /\ f.nodes = N /\ e.nodes = N /\ f.kids = p.kids
  BY DEF Pair, Twin, IsStore, StoreFields
<1> QED BY <1>1 DEF Pair

\* Another children table.
LEMMA PutKids ==
    ASSUME NEW m, NEW p, NEW K, Pair(m, p), KidsOk(K, p.runs)
    PROVE  LET e == [m EXCEPT !.kids = K]
               f == [p EXCEPT !.kids = K]
           IN  Pair(e, f) /\ f.runs = p.runs /\ e.kids = K /\ f.kids = K /\ f.nodes = p.nodes /\ e.nodes = p.nodes
<1> DEFINE e == [m EXCEPT !.kids = K]
           f == [p EXCEPT !.kids = K]
<1>1. /\ Twin(e, f) /\ f.runs = p.runs /\ e.runs = m.runs /\ f.ids = p.ids /\ e.keys = m.keys
      /\ f.nodes = p.nodes /\ e.nodes = p.nodes /\ f.kids = K /\ e.kids = K
  BY DEF Pair, Twin, IsStore, StoreFields
<1> QED BY <1>1 DEF Pair

\* Another attempts table.
LEMMA PutAttempts ==
    ASSUME NEW m, NEW p, NEW A, Pair(m, p)
    PROVE  LET e == [m EXCEPT !.attempts = A]
               f == [p EXCEPT !.attempts = A]
           IN  Pair(e, f) /\ f.runs = p.runs /\ e.kids = m.kids /\ f.kids = p.kids /\ e.nodes = m.nodes
                   /\ f.nodes = p.nodes
<1> DEFINE e == [m EXCEPT !.attempts = A]
           f == [p EXCEPT !.attempts = A]
<1>1. /\ Twin(e, f) /\ f.runs = p.runs /\ e.runs = m.runs /\ f.ids = p.ids /\ e.keys = m.keys
      /\ f.nodes = p.nodes /\ e.nodes = m.nodes /\ f.kids = p.kids /\ e.kids = m.kids
  BY DEF Pair, Twin, IsStore, StoreFields
<1> QED BY <1>1 DEF Pair

\* Another leases table.
LEMMA PutLeases ==
    ASSUME NEW m, NEW p, NEW L, Pair(m, p)
    PROVE  LET e == [m EXCEPT !.leases = L]
               f == [p EXCEPT !.leases = L]
           IN  Pair(e, f) /\ f.runs = p.runs
<1> DEFINE e == [m EXCEPT !.leases = L]
           f == [p EXCEPT !.leases = L]
<1>1. /\ Twin(e, f) /\ f.runs = p.runs /\ e.runs = m.runs /\ f.ids = p.ids /\ e.keys = m.keys
      /\ f.nodes = p.nodes /\ f.kids = p.kids
  BY DEF Pair, Twin, IsStore, StoreFields
<1> QED BY <1>1 DEF Pair

\* Another lease token given out.
LEMMA PutToken ==
    ASSUME NEW m, NEW p, NEW t, Pair(m, p)
    PROVE  LET e == [m EXCEPT !.ids.token = t]
               f == [p EXCEPT !.ids.token = t]
           IN  Pair(e, f) /\ f.runs = p.runs /\ e.leases = m.leases /\ f.leases = p.leases
<1> DEFINE e == [m EXCEPT !.ids.token = t]
           f == [p EXCEPT !.ids.token = t]
<1>1. /\ Twin(e, f) /\ f.runs = p.runs /\ e.runs = m.runs /\ f.ids.run = p.ids.run /\ f.ids.attempt = p.ids.attempt
      /\ e.keys = m.keys /\ e.leases = m.leases /\ f.leases = p.leases
      /\ f.nodes = p.nodes /\ f.kids = p.kids
  BY DEF Pair, Twin, IsStore, StoreFields
<1> QED BY <1>1 DEF Pair

\* Another attempt identifier given out.
LEMMA PutAttemptId ==
    ASSUME NEW m, NEW p, NEW a \in Nat, Pair(m, p)
    PROVE  LET e == [m EXCEPT !.ids.attempt = a]
               f == [p EXCEPT !.ids.attempt = a]
           IN  /\ Pair(e, f) /\ f.runs = p.runs /\ e.attempts = m.attempts /\ f.attempts = p.attempts
               /\ e.kids = m.kids /\ f.kids = p.kids /\ e.nodes = m.nodes /\ f.nodes = p.nodes
<1> DEFINE e == [m EXCEPT !.ids.attempt = a]
           f == [p EXCEPT !.ids.attempt = a]
<1>1. /\ Twin(e, f) /\ f.runs = p.runs /\ e.runs = m.runs /\ f.ids.run = p.ids.run /\ f.ids.attempt = a
      /\ e.keys = m.keys
      /\ f.nodes = p.nodes /\ f.kids = p.kids /\ e.nodes = m.nodes /\ e.kids = m.kids
      /\ e.attempts = m.attempts /\ f.attempts = p.attempts
  BY DEF Pair, Twin, IsStore, StoreFields
<1> QED BY <1>1 DEF Pair

-----------------------------------------------------------------------------
(* Nodes.                                                                  *)

\* A call that moves one node row.
LEMMA NodeRowStep ==
    ASSUME NEW m, NEW p, Pair(m, p), NEW r, NEW row \in NodeRow, NEW x
    PROVE  LET N == [p.nodes EXCEPT ![r] = row]
           IN  InStep(p, Done([m EXCEPT !.nodes = N], x), Done([p EXCEPT !.nodes = N], x))
<1> DEFINE N == [p.nodes EXCEPT ![r] = row]
<1>1. NodesOk(N)
  BY DEF NodesOk, Pair
<1> HIDE DEF N
<1>2. Pair([m EXCEPT !.nodes = N], [p EXCEPT !.nodes = N]) /\ [p EXCEPT !.nodes = N].runs = p.runs
  BY <1>1, PutNodes
<1>3. InStep(p, Done([m EXCEPT !.nodes = N], x), Done([p EXCEPT !.nodes = N], x))
  BY <1>2, DoneStep
<1> QED BY <1>3 DEF N

\* The nodes table is the one that was put.
LEMMA NodesField ==
    ASSUME NEW d, NEW N, IsStore(d)
    PROVE  [d EXCEPT !.nodes = N].nodes = N
BY DEF IsStore, StoreFields

\* The children table is the one that was put.
LEMMA KidsField ==
    ASSUME NEW d, NEW K, IsStore(d)
    PROVE  [d EXCEPT !.kids = K].kids = K
BY DEF IsStore, StoreFields

\* completeNode, failNode, waitNode and cancelNode.
LEMMA SetNodeStep ==
    ASSUME NEW m, NEW p, Pair(m, p), NEW r, NEW to \in {"waiting"} \cup Terminal
    PROVE  InStep(p, SetNode("mem", m, r, to), SetNode("pg", p, r, to))
<1> DEFINE row == Moved(p.nodes[r], to)
           N == [p.nodes EXCEPT ![r] = row]
<1>1. m.nodes = p.nodes /\ NodesOk(p.nodes) /\ IsStore(m) /\ IsStore(p)
  BY DEF Pair, Twin
<1>2. CASE r \notin DOMAIN p.nodes
  BY <1>1, <1>2, StillStep DEF SetNode
<1>3. CASE r \in DOMAIN p.nodes
  <2>1. p.nodes[r] \in NodeRow /\ to \in NodeReached
    BY <1>1, <1>3 DEF NodesOk, Terminal, NodeStatus, NodeReached
  <2>2. NodeMay("mem", p.nodes[r].status, to) <=> NodeMay("pg", p.nodes[r].status, to)
    BY <2>1, NodeMaySame DEF NodeRow
  <2>3. CASE ~NodeMay("pg", p.nodes[r].status, to)
    BY <1>1, <1>3, <2>2, <2>3, StillStep DEF SetNode
  <2>4. CASE NodeMay("pg", p.nodes[r].status, to)
    <3>1. row \in NodeRow
      BY <2>1, MovedNode
    <3>2. SetNode("mem", m, r, to) = Done([m EXCEPT !.nodes = N], <<"row", N[r]>>)
      BY <1>1, <1>3, <2>2, <2>4, NodesField DEF SetNode
    <3>3. SetNode("pg", p, r, to) = Done([p EXCEPT !.nodes = N], <<"row", N[r]>>)
      BY <1>1, <1>3, <2>4, NodesField DEF SetNode
    <3> HIDE DEF row
    <3>4. InStep(p, Done([m EXCEPT !.nodes = N], <<"row", N[r]>>), Done([p EXCEPT !.nodes = N], <<"row", N[r]>>))
      BY <3>1, NodeRowStep
    <3> HIDE DEF N
    <3> QED BY <3>2, <3>3, <3>4
  <2> QED BY <2>3, <2>4
<1> QED BY <1>2, <1>3

\* createNode.
LEMMA CreateNodeStep ==
    ASSUME NEW m, NEW p, Pair(m, p), NEW r
    PROVE  InStep(p, CreateNode(m, r), CreateNode(p, r))
<1> DEFINE row == [status |-> "pending", version |-> 1, case |-> 0]
           N == WithRows(p.nodes, {r}, row)
<1>1. m.nodes = p.nodes /\ NodesOk(p.nodes) /\ IsStore(m) /\ IsStore(p)
  BY DEF Pair, Twin
<1>2. CASE r \in DOMAIN p.nodes
  BY <1>1, <1>2, StillStep DEF CreateNode
<1>3. CASE r \notin DOMAIN p.nodes
  <2>1. row \in NodeRow
    BY DEF NodeRow, NodeReached, NodeStatus
  <2>2. CreateNode(m, r) = Done([m EXCEPT !.nodes = N], <<"row", N[r]>>)
    BY <1>1, <1>3, NodesField DEF CreateNode
  <2>3. CreateNode(p, r) = Done([p EXCEPT !.nodes = N], <<"row", N[r]>>)
    BY <1>1, <1>3, NodesField DEF CreateNode
  <2> HIDE DEF row
  <2>4. NodesOk(N)
    BY <1>1, <2>1 DEF NodesOk, WithRows
  <2> HIDE DEF N
  <2>5. Pair([m EXCEPT !.nodes = N], [p EXCEPT !.nodes = N]) /\ [p EXCEPT !.nodes = N].runs = p.runs
    BY <2>4, PutNodes
  <2>6. InStep(p, Done([m EXCEPT !.nodes = N], <<"row", N[r]>>), Done([p EXCEPT !.nodes = N], <<"row", N[r]>>))
    BY <2>5, DoneStep
  <2> QED BY <2>2, <2>3, <2>6
<1> QED BY <1>2, <1>3

\* setNodeInput.
LEMMA SetNodeInputStep ==
    ASSUME NEW m, NEW p, Pair(m, p), NEW r
    PROVE  InStep(p, SetNodeInput(m, r), SetNodeInput(p, r))
<1> DEFINE row == Touched(p.nodes[r])
           N == [p.nodes EXCEPT ![r] = row]
<1>1. m.nodes = p.nodes /\ NodesOk(p.nodes) /\ IsStore(m) /\ IsStore(p)
  BY DEF Pair, Twin
<1>2. CASE r \notin DOMAIN p.nodes
  BY <1>1, <1>2, StillStep DEF SetNodeInput, Throw
<1>3. CASE r \in DOMAIN p.nodes /\ p.nodes[r].status \in Terminal
  BY <1>1, <1>3, StillStep DEF SetNodeInput
<1>4. CASE r \in DOMAIN p.nodes /\ p.nodes[r].status \notin Terminal
  <2>1. row \in NodeRow
    BY <1>1, <1>4, TouchedNode DEF NodesOk
  <2>2. SetNodeInput(m, r) = Done([m EXCEPT !.nodes = N], <<"row", N[r]>>)
    BY <1>1, <1>4, NodesField DEF SetNodeInput
  <2>3. SetNodeInput(p, r) = Done([p EXCEPT !.nodes = N], <<"row", N[r]>>)
    BY <1>1, <1>4, NodesField DEF SetNodeInput
  <2> HIDE DEF row
  <2>4. InStep(p, Done([m EXCEPT !.nodes = N], <<"row", N[r]>>), Done([p EXCEPT !.nodes = N], <<"row", N[r]>>))
    BY <2>1, NodeRowStep
  <2> HIDE DEF N
  <2> QED BY <2>2, <2>3, <2>4
<1> QED BY <1>2, <1>3, <1>4

\* selectNodeCase.
LEMMA SelectNodeCaseStep ==
    ASSUME NEW m, NEW p, Pair(m, p), NEW r, NEW case \in {1, 2}
    PROVE  InStep(p, SelectNodeCase(m, r, case), SelectNodeCase(p, r, case))
<1> DEFINE old == p.nodes[r]
           row == Cased(old, case)
           N == [p.nodes EXCEPT ![r] = row]
<1>1. m.nodes = p.nodes /\ NodesOk(p.nodes) /\ IsStore(m) /\ IsStore(p)
  BY DEF Pair, Twin
<1>2. CASE r \notin DOMAIN p.nodes
  BY <1>1, <1>2, StillStep DEF SelectNodeCase
<1>3. CASE r \in DOMAIN p.nodes /\ (old.status \in Terminal \/ old.case = case)
  BY <1>1, <1>3, StillStep DEF SelectNodeCase
<1>4. CASE r \in DOMAIN p.nodes /\ ~(old.status \in Terminal \/ old.case = case) /\ old.case # 0
  BY <1>1, <1>4, StillStep DEF SelectNodeCase, Throw
<1>5. CASE r \in DOMAIN p.nodes /\ ~(old.status \in Terminal \/ old.case = case) /\ old.case = 0
  <2>2. SelectNodeCase(m, r, case) = Done([m EXCEPT !.nodes = N], <<"row", N[r]>>)
    BY <1>1, <1>5, NodesField DEF SelectNodeCase
  <2>3. SelectNodeCase(p, r, case) = Done([p EXCEPT !.nodes = N], <<"row", N[r]>>)
    BY <1>1, <1>5, NodesField DEF SelectNodeCase
  <2>1. row \in NodeRow
    BY <1>1, <1>5, CasedNode DEF NodesOk
  <2> HIDE DEF row
  <2>4. InStep(p, Done([m EXCEPT !.nodes = N], <<"row", N[r]>>), Done([p EXCEPT !.nodes = N], <<"row", N[r]>>))
    BY <2>1, NodeRowStep
  <2> HIDE DEF N
  <2> QED BY <2>2, <2>3, <2>4
<1> QED BY <1>2, <1>3, <1>4, <1>5

-----------------------------------------------------------------------------
(* Children.                                                               *)

\* A call that moves one child row.
LEMMA KidRowOk ==
    ASSUME NEW kids, NEW runs, KidsOk(kids, runs), NEW k, NEW row \in KidRow,
           k \in DOMAIN kids => row.run = kids[k].run
    PROVE  KidsOk([kids EXCEPT ![k] = row], runs)
<1> DEFINE K == [kids EXCEPT ![k] = row]
<1>1. K \in [DOMAIN K -> KidRow] /\ DOMAIN K = DOMAIN kids
  BY DEF KidsOk
<1>2. \A j \in DOMAIN kids : K[j].run = kids[j].run
  BY DEF KidsOk
<1> HIDE DEF K
<1>3. KidsOk(K, runs)
  BY <1>1, <1>2 DEF KidsOk
<1> QED BY <1>3 DEF K

\* A call that moves one child row.
LEMMA KidRowStep ==
    ASSUME NEW m, NEW p, Pair(m, p), NEW k, NEW row \in KidRow, NEW x,
           k \in DOMAIN p.kids => row.run = p.kids[k].run
    PROVE  LET K == [p.kids EXCEPT ![k] = row]
           IN  InStep(p, Done([m EXCEPT !.kids = K], x), Done([p EXCEPT !.kids = K], x))
<1> DEFINE K == [p.kids EXCEPT ![k] = row]
<1>1. KidsOk(K, p.runs)
  BY KidRowOk DEF Pair
<1> HIDE DEF K
<1>2. Pair([m EXCEPT !.kids = K], [p EXCEPT !.kids = K]) /\ [p EXCEPT !.kids = K].runs = p.runs
  BY <1>1, PutKids
<1>3. InStep(p, Done([m EXCEPT !.kids = K], x), Done([p EXCEPT !.kids = K], x))
  BY <1>2, DoneStep
<1> QED BY <1>3 DEF K

\* completeNodeChild and failNodeChild.
LEMMA SetKidStep ==
    ASSUME NEW m, NEW p, Pair(m, p), NEW k, NEW to \in Terminal
    PROVE  InStep(p, SetKid("mem", m, k, to), SetKid("pg", p, k, to))
<1> DEFINE row == Moved(p.kids[k], to)
           K == [p.kids EXCEPT ![k] = row]
<1>1. m.kids = p.kids /\ KidsOk(p.kids, p.runs) /\ IsStore(m) /\ IsStore(p)
  BY DEF Pair, Twin
<1>2. CASE k \notin DOMAIN p.kids
  BY <1>1, <1>2, StillStep DEF SetKid
<1>3. CASE k \in DOMAIN p.kids
  <2>1. p.kids[k] \in KidRow /\ to \in NodeReached
    BY <1>1, <1>3 DEF KidsOk, Terminal, NodeStatus, NodeReached
  <2>2. NodeMay("mem", p.kids[k].status, to) <=> NodeMay("pg", p.kids[k].status, to)
    BY <2>1, NodeMaySame DEF KidRow
  <2>3. CASE ~NodeMay("pg", p.kids[k].status, to)
    BY <1>1, <1>3, <2>2, <2>3, StillStep DEF SetKid
  <2>4. CASE NodeMay("pg", p.kids[k].status, to)
    <3>1. row \in KidRow /\ row.run = p.kids[k].run
      BY <2>1, MovedKid
    <3>2. SetKid("mem", m, k, to) = Done([m EXCEPT !.kids = K], <<"row", K[k]>>)
      BY <1>1, <1>3, <2>2, <2>4, KidsField DEF SetKid
    <3>3. SetKid("pg", p, k, to) = Done([p EXCEPT !.kids = K], <<"row", K[k]>>)
      BY <1>1, <1>3, <2>4, KidsField DEF SetKid
    <3> HIDE DEF row
    <3>4. InStep(p, Done([m EXCEPT !.kids = K], <<"row", K[k]>>), Done([p EXCEPT !.kids = K], <<"row", K[k]>>))
      BY <3>1, KidRowStep
    <3> HIDE DEF K
    <3> QED BY <3>2, <3>3, <3>4
  <2> QED BY <2>3, <2>4
<1> QED BY <1>2, <1>3

\* ensureNodeChildren: the children of a run that is there.
LEMMA EnsureNodeChildrenStep ==
    ASSUME NEW m, NEW p, Pair(m, p), NEW r \in DOMAIN p.runs, NEW keys
    PROVE  InStep(p, EnsureNodeChildren(m, r, keys), EnsureNodeChildren(p, r, keys))
<1> DEFINE existing == {k \in DOMAIN p.kids : k[1] = r}
           wanted == {<<r, key>> : key \in keys}
           row == [status |-> "pending", version |-> 1, run |-> 0, attempt |-> 0, count |-> 0]
           K == WithRows(p.kids, wanted, row)
<1>1. m.kids = p.kids /\ m.nodes = p.nodes /\ KidsOk(p.kids, p.runs)
  BY DEF Pair, Twin
<1>2. CASE r \notin DOMAIN p.nodes \/ existing # {}
  BY <1>1, <1>2, StillStep DEF EnsureNodeChildren, Throw
<1>3. CASE r \in DOMAIN p.nodes /\ existing = {}
  <2>1. EnsureNodeChildren(m, r, keys) = Done([m EXCEPT !.kids = K], <<"children", wanted>>)
    BY <1>1, <1>3 DEF EnsureNodeChildren
  <2>2. EnsureNodeChildren(p, r, keys) = Done([p EXCEPT !.kids = K], <<"children", wanted>>)
    BY <1>1, <1>3 DEF EnsureNodeChildren
  <2>3. row \in KidRow /\ row.run = 0
    BY DEF KidRow, NodeReached, NodeStatus
  <2>4. \A k \in wanted : k[1] = r
    OBVIOUS
  <2> HIDE DEF row, wanted, existing
  <2>5. K \in [DOMAIN K -> KidRow] /\ DOMAIN K = DOMAIN p.kids \cup wanted
    BY <1>1, <2>3 DEF KidsOk, WithRows
  <2>6. \A k \in DOMAIN K : K[k] = IF k \in wanted THEN row ELSE p.kids[k]
    BY DEF WithRows
  <2>7. KidsOk(K, p.runs)
    BY <1>1, <2>3, <2>4, <2>5, <2>6 DEF KidsOk
  <2> HIDE DEF K
  <2>8. Pair([m EXCEPT !.kids = K], [p EXCEPT !.kids = K]) /\ [p EXCEPT !.kids = K].runs = p.runs
    BY <2>7, PutKids
  <2>9. InStep(p, Done([m EXCEPT !.kids = K], <<"children", wanted>>),
          Done([p EXCEPT !.kids = K], <<"children", wanted>>))
    BY <2>8, DoneStep
  <2> QED BY <2>1, <2>2, <2>9
<1> QED BY <1>2, <1>3

\* cancelNonTerminalRunNodes.
LEMMA CancelNonTerminalRunNodesStep ==
    ASSUME NEW m, NEW p, Pair(m, p), NEW r
    PROVE  InStep(p, CancelNonTerminalRunNodes("mem", m, r), CancelNonTerminalRunNodes("pg", p, r))
<1> DEFINE hit(row) == NodeMay("pg", row.status, "cancelled")
           N == [n \in DOMAIN p.nodes |-> IF n = r /\ hit(p.nodes[n])
                   THEN Moved(p.nodes[n], "cancelled") ELSE p.nodes[n]]
           K == [k \in DOMAIN p.kids |-> IF k[1] = r /\ hit(p.kids[k])
                   THEN Moved(p.kids[k], "cancelled") ELSE p.kids[k]]
           x == <<"nodes", {n \in DOMAIN p.nodes : n = r /\ hit(p.nodes[n])}>>
<1>1. /\ m.kids = p.kids /\ m.nodes = p.nodes /\ KidsOk(p.kids, p.runs) /\ NodesOk(p.nodes)
      /\ IsStore(m) /\ IsStore(p)
  BY DEF Pair, Twin
<1>2. \A n \in DOMAIN p.nodes : p.nodes[n] \in NodeRow
  BY <1>1 DEF NodesOk
<1>3. \A k \in DOMAIN p.kids : p.kids[k] \in KidRow
  BY <1>1 DEF KidsOk
<1>4. "cancelled" \in NodeReached /\ "cancelled" \in Terminal
  BY DEF NodeReached, NodeStatus, Terminal
<1>5. \A n \in DOMAIN p.nodes : NodeMay("mem", p.nodes[n].status, "cancelled") <=> hit(p.nodes[n])
  BY <1>2, <1>4, NodeMaySame DEF NodeRow
<1>6. \A k \in DOMAIN p.kids : NodeMay("mem", p.kids[k].status, "cancelled") <=> hit(p.kids[k])
  BY <1>3, <1>4, NodeMaySame DEF KidRow
<1>7. NodesOk(N)
  <2>1. \A n \in DOMAIN p.nodes : Moved(p.nodes[n], "cancelled") \in NodeRow
    BY <1>2, <1>4, MovedNode
  <2> QED BY <1>2, <2>1 DEF NodesOk
<1>8. KidsOk(K, p.runs)
  <2>1. \A k \in DOMAIN p.kids : Moved(p.kids[k], "cancelled") \in KidRow
          /\ Moved(p.kids[k], "cancelled").run = p.kids[k].run
    BY <1>3, <1>4, MovedKid
  <2>2. K \in [DOMAIN K -> KidRow] /\ DOMAIN K = DOMAIN p.kids
    BY <1>3, <2>1
  <2>3. \A k \in DOMAIN p.kids : K[k].run = p.kids[k].run
    BY <2>1
  <2> HIDE DEF K
  <2> QED BY <1>1, <2>2, <2>3 DEF KidsOk
<1>9. CancelNonTerminalRunNodes("pg", p, r) = Done([p EXCEPT !.nodes = N, !.kids = K], x)
  BY <1>1 DEF CancelNonTerminalRunNodes
<1>10. CancelNonTerminalRunNodes("mem", m, r) = Done([m EXCEPT !.nodes = N, !.kids = K], x)
  <2>1. N = [n \in DOMAIN p.nodes |-> IF n = r /\ NodeMay("mem", p.nodes[n].status, "cancelled")
          THEN Moved(p.nodes[n], "cancelled") ELSE p.nodes[n]]
    BY <1>5
  <2>2. K = [k \in DOMAIN p.kids |-> IF k[1] = r /\ NodeMay("mem", p.kids[k].status, "cancelled")
          THEN Moved(p.kids[k], "cancelled") ELSE p.kids[k]]
    BY <1>6
  <2>3. x = <<"nodes", {n \in DOMAIN p.nodes : n = r /\ NodeMay("mem", p.nodes[n].status, "cancelled")}>>
    BY <1>5
  <2> HIDE DEF N, K, x
  <2> QED BY <1>1, <2>1, <2>2, <2>3 DEF CancelNonTerminalRunNodes
<1> HIDE DEF N, K, x
<1> DEFINE m1 == [m EXCEPT !.nodes = N]
           p1 == [p EXCEPT !.nodes = N]
<1>11. [m EXCEPT !.nodes = N, !.kids = K] = [m1 EXCEPT !.kids = K]
  BY <1>1 DEF IsStore, StoreFields
<1>12. [p EXCEPT !.nodes = N, !.kids = K] = [p1 EXCEPT !.kids = K]
  BY <1>1 DEF IsStore, StoreFields
<1>13. Pair(m1, p1) /\ p1.runs = p.runs
  BY <1>7, PutNodes
<1> HIDE DEF m1, p1
<1>14. Pair([m1 EXCEPT !.kids = K], [p1 EXCEPT !.kids = K]) /\ [p1 EXCEPT !.kids = K].runs = p.runs
  BY <1>8, <1>13, PutKids
<1>15. InStep(p, Done([m1 EXCEPT !.kids = K], x), Done([p1 EXCEPT !.kids = K], x))
  BY <1>14, DoneStep
<1> QED BY <1>9, <1>10, <1>11, <1>12, <1>15

-----------------------------------------------------------------------------
(* Attempts.                                                               *)

\* createChildAttempt: the attempt, its child and, unless it ended, its node.
LEMMA CreateChildAttemptStep ==
    ASSUME NEW m, NEW p, Pair(m, p), NEW k \in DOMAIN p.kids
    PROVE  InStep(p, CreateChildAttempt("mem", m, k), CreateChildAttempt("pg", p, k))
<1> DEFINE r == k[1]
           a == p.ids.attempt + 1
           A == WithRows(p.attempts, {a}, [kid |-> k, status |-> "started", number |-> p.kids[k].count + 1])
           row == Attempted(p.kids[k], a)
           K == [p.kids EXCEPT ![k] = row]
           runs == r \in DOMAIN p.nodes /\ PgNodeRuns(p.nodes[r].status)
           N == [p.nodes EXCEPT ![r] = Moved(@, "running")]
           m1 == [m EXCEPT !.ids.attempt = a]
           p1 == [p EXCEPT !.ids.attempt = a]
           m2 == [m1 EXCEPT !.attempts = A]
           p2 == [p1 EXCEPT !.attempts = A]
           m3 == [m2 EXCEPT !.kids = K]
           p3 == [p2 EXCEPT !.kids = K]
           m4 == [m3 EXCEPT !.nodes = N]
           p4 == [p3 EXCEPT !.nodes = N]
<1>1. /\ m.kids = p.kids /\ m.nodes = p.nodes /\ m.attempts = p.attempts /\ m.ids = p.ids
      /\ KidsOk(p.kids, p.runs) /\ NodesOk(p.nodes) /\ a \in Nat
      /\ IsStore(m) /\ IsStore(p)
  BY DEF Pair, Twin
<1>2. row \in KidRow /\ row.run = p.kids[k].run
  BY <1>1, AttemptedKid DEF KidsOk
<1>3. KidsOk(K, p.runs)
  <2> HIDE DEF row
  <2> QED BY <1>1, <1>2, KidRowOk
<1>4. r \in DOMAIN p.nodes => NodesOk(N)
  <2>1. ASSUME r \in DOMAIN p.nodes PROVE Moved(p.nodes[r], "running") \in NodeRow
    BY <1>1, <2>1, MovedNode DEF NodesOk, NodeReached, NodeStatus
  <2> QED BY <1>1, <2>1 DEF NodesOk
<1>5. runs <=> r \in DOMAIN m.nodes /\ MemNodeRuns(m.nodes[r].status)
  BY <1>1, NodeRunsSame DEF NodesOk, NodeRow
<1>6. [m EXCEPT !.ids.attempt = a, !.attempts = A, !.kids[k] = Attempted(@, a)] = m3
  <2> HIDE DEF A, a
  <2> QED BY <1>1 DEF IsStore, StoreFields
<1>7. [p EXCEPT !.ids.attempt = a, !.attempts = A, !.kids[k] = Attempted(@, a)] = p3
  <2> HIDE DEF A, a
  <2> QED BY <1>1 DEF IsStore, StoreFields
<1>8. Pair(m1, p1) /\ p1.runs = p.runs /\ m1.nodes = m.nodes /\ p1.nodes = p.nodes
  <2> HIDE DEF a
  <2> QED BY <1>1, PutAttemptId
<1> HIDE DEF m1, p1, A
<1>9. Pair(m2, p2) /\ p2.runs = p.runs /\ m2.nodes = m.nodes /\ p2.nodes = p.nodes
  BY <1>8, PutAttempts
<1> HIDE DEF m2, p2, K
<1>10. Pair(m3, p3) /\ p3.runs = p.runs /\ m3.nodes = p.nodes /\ p3.nodes = p.nodes
  BY <1>3, <1>9, PutKids
<1> HIDE DEF m3, p3
<1>11. CASE ~runs
  <2>1. CreateChildAttempt("mem", m, k) = Done(m3, <<"attempt", a>>)
    BY <1>1, <1>5, <1>6, <1>11 DEF CreateChildAttempt, A
  <2>2. CreateChildAttempt("pg", p, k) = Done(p3, <<"attempt", a>>)
    BY <1>1, <1>7, <1>11 DEF CreateChildAttempt, A
  <2>3. InStep(p, Done(m3, <<"attempt", a>>), Done(p3, <<"attempt", a>>))
    BY <1>10, DoneStep
  <2> QED BY <2>1, <2>2, <2>3
<1>12. CASE runs
  <2>1. CreateChildAttempt("mem", m, k) = Done([m3 EXCEPT !.nodes[r] = Moved(@, "running")], <<"attempt", a>>)
    BY <1>1, <1>5, <1>6, <1>12 DEF CreateChildAttempt, A
  <2>2. CreateChildAttempt("pg", p, k) = Done([p3 EXCEPT !.nodes[r] = Moved(@, "running")], <<"attempt", a>>)
    BY <1>1, <1>7, <1>12 DEF CreateChildAttempt, A
  <2>3. [m3 EXCEPT !.nodes[r] = Moved(@, "running")] = m4 /\ [p3 EXCEPT !.nodes[r] = Moved(@, "running")] = p4
    BY <1>10
  <2>4. NodesOk(N)
    BY <1>4, <1>12
  <2> HIDE DEF N
  <2>5. Pair(m4, p4) /\ p4.runs = p3.runs
    BY <1>10, <2>4, PutNodes
  <2> HIDE DEF m4, p4
  <2>6. InStep(p, Done(m4, <<"attempt", a>>), Done(p4, <<"attempt", a>>))
    BY <1>10, <2>5, DoneStep
  <2> QED BY <2>1, <2>2, <2>3, <2>6
<1> QED BY <1>11, <1>12

\* createAttempt.
LEMMA CreateAttemptStep ==
    ASSUME NEW m, NEW p, Pair(m, p), NEW k
    PROVE  InStep(p, CreateAttempt("mem", m, k), CreateAttempt("pg", p, k))
<1>1. m.kids = p.kids
  BY DEF Pair, Twin
<1>2. CASE k \notin DOMAIN p.kids \/ p.kids[k].status \in Terminal
  BY <1>1, <1>2, StillStep DEF CreateAttempt, Throw
<1>3. CASE ~(k \notin DOMAIN p.kids \/ p.kids[k].status \in Terminal)
  BY <1>1, <1>3, CreateChildAttemptStep DEF CreateAttempt
<1> QED BY <1>2, <1>3

\* ensureChildAttempt.
LEMMA EnsureChildAttemptStep ==
    ASSUME NEW m, NEW p, Pair(m, p), NEW k
    PROVE  InStep(p, EnsureChildAttempt("mem", m, k), EnsureChildAttempt("pg", p, k))
<1>1. m.kids = p.kids
  BY DEF Pair, Twin
<1>2. CASE k \in DOMAIN p.kids /\ p.kids[k].count > 0
  BY <1>1, <1>2, StillStep DEF EnsureChildAttempt
<1>3. CASE ~(k \in DOMAIN p.kids /\ p.kids[k].count > 0)
  BY <1>1, <1>3, CreateAttemptStep DEF EnsureChildAttempt
<1> QED BY <1>2, <1>3

\* completeCurrentAttempt, failCurrentAttempt and timeoutCurrentAttempt.
LEMMA SettleCurrentAttemptStep ==
    ASSUME NEW m, NEW p, Pair(m, p), NEW a, NEW to \in {"completed", "failed", "timedOut"}
    PROVE  InStep(p, SettleCurrentAttempt(m, a, to), SettleCurrentAttempt(p, a, to))
<1> DEFINE k == p.attempts[a].kid
           A == [p.attempts EXCEPT ![a].status = to]
           m1 == [m EXCEPT !.attempts = A]
           p1 == [p EXCEPT !.attempts = A]
           K == [p.kids EXCEPT ![k] = Moved(@, to)]
           m2 == [m1 EXCEPT !.kids = K]
           p2 == [p1 EXCEPT !.kids = K]
<1>1. m.kids = p.kids /\ m.attempts = p.attempts /\ KidsOk(p.kids, p.runs)
  BY DEF Pair, Twin
<1>2. FencedCurrentAttempt(m, a) <=> FencedCurrentAttempt(p, a)
  BY <1>1 DEF FencedCurrentAttempt
<1>3. Pair(m1, p1) /\ p1.runs = p.runs /\ m1.kids = m.kids /\ p1.kids = p.kids
  <2> HIDE DEF A
  <2> QED BY PutAttempts
<1>4. [m EXCEPT !.attempts[a].status = to] = m1 /\ [p EXCEPT !.attempts[a].status = to] = p1
  BY <1>1
<1> HIDE DEF m1, p1
<1>5. CASE ~FencedCurrentAttempt(p, a)
  BY <1>2, <1>5, StillStep DEF SettleCurrentAttempt
<1>6. CASE FencedCurrentAttempt(p, a) /\ to # "completed"
  <2>1. SettleCurrentAttempt(m, a, to) = Done(m1, <<"settled">>)
    BY <1>2, <1>4, <1>6 DEF SettleCurrentAttempt
  <2>2. SettleCurrentAttempt(p, a, to) = Done(p1, <<"settled">>)
    BY <1>4, <1>6 DEF SettleCurrentAttempt
  <2>3. InStep(p, Done(m1, <<"settled">>), Done(p1, <<"settled">>))
    BY <1>3, DoneStep
  <2> QED BY <2>1, <2>2, <2>3
<1>7. CASE FencedCurrentAttempt(p, a) /\ to = "completed"
  <2>1. SettleCurrentAttempt(m, a, to) = Done([m1 EXCEPT !.kids[k] = Moved(@, to)], <<"settled">>)
    BY <1>1, <1>2, <1>4, <1>7 DEF SettleCurrentAttempt
  <2>2. SettleCurrentAttempt(p, a, to) = Done([p1 EXCEPT !.kids[k] = Moved(@, to)], <<"settled">>)
    BY <1>4, <1>7 DEF SettleCurrentAttempt
  <2>3. [m1 EXCEPT !.kids[k] = Moved(@, to)] = m2 /\ [p1 EXCEPT !.kids[k] = Moved(@, to)] = p2
    BY <1>1, <1>3
  <2>4. KidsOk(K, p1.runs)
    <3>1. CASE k \in DOMAIN p.kids
      <4>1. Moved(p.kids[k], to) \in KidRow /\ Moved(p.kids[k], to).run = p.kids[k].run
        BY <1>1, <1>7, <3>1, MovedKid DEF KidsOk, NodeReached, NodeStatus
      <4> HIDE DEF k
      <4> QED BY <1>1, <1>3, <4>1, KidRowOk
    <3>2. CASE k \notin DOMAIN p.kids
      <4>1. K = p.kids
        BY <1>1, <3>2 DEF KidsOk
      <4> QED BY <1>1, <1>3, <4>1
    <3> QED BY <3>1, <3>2
  <2> HIDE DEF K
  <2>5. Pair(m2, p2) /\ p2.runs = p1.runs
    BY <1>3, <2>4, PutKids
  <2> HIDE DEF m2, p2
  <2>6. InStep(p, Done(m2, <<"settled">>), Done(p2, <<"settled">>))
    BY <1>3, <2>5, DoneStep
  <2> QED BY <2>1, <2>2, <2>3, <2>6
<1> QED BY <1>5, <1>6, <1>7

-----------------------------------------------------------------------------
(* Run leases.                                                             *)

\* A call that changes the leases alone.
LEMMA LeasesStep ==
    ASSUME NEW m, NEW p, Pair(m, p), NEW L, NEW x
    PROVE  InStep(p, Done([m EXCEPT !.leases = L], x), Done([p EXCEPT !.leases = L], x))
<1>1. Pair([m EXCEPT !.leases = L], [p EXCEPT !.leases = L]) /\ [p EXCEPT !.leases = L].runs = p.runs
  BY PutLeases
<1> QED BY <1>1, DoneStep

\* acquireRunLease.
LEMMA AcquireRunLeaseStep ==
    ASSUME NEW m, NEW p, Pair(m, p), NEW r
    PROVE  InStep(p, AcquireRunLease(m, r), AcquireRunLease(p, r))
<1> DEFINE lease == [token |-> p.ids.token + 1, version |-> p.runs[r].version, live |-> TRUE]
           L == WithRows(p.leases, {r}, lease)
           t == p.ids.token + 1
           m1 == [m EXCEPT !.ids.token = t]
           p1 == [p EXCEPT !.ids.token = t]
           m2 == [m1 EXCEPT !.leases = L]
           p2 == [p1 EXCEPT !.leases = L]
<1>1. m.leases = p.leases /\ m.runs = p.runs /\ m.ids = p.ids /\ IsStore(m) /\ IsStore(p)
  BY DEF Pair, Twin
<1>2. CASE r \in DOMAIN p.leases /\ p.leases[r].live
  BY <1>1, <1>2, StillStep DEF AcquireRunLease
<1>3. CASE ~(r \in DOMAIN p.leases /\ p.leases[r].live)
  <2>1. [m EXCEPT !.ids.token = @ + 1, !.leases = L] = m2
    <3> HIDE DEF L
    <3> QED BY <1>1 DEF IsStore, StoreFields
  <2>2. [p EXCEPT !.ids.token = @ + 1, !.leases = L] = p2
    <3> HIDE DEF L
    <3> QED BY <1>1 DEF IsStore, StoreFields
  <2>3. AcquireRunLease(m, r) = Done(m2, <<"row", lease>>)
    BY <1>1, <1>3, <2>1 DEF AcquireRunLease
  <2>4. AcquireRunLease(p, r) = Done(p2, <<"row", lease>>)
    BY <1>1, <1>3, <2>2 DEF AcquireRunLease
  <2>5. Pair(m1, p1) /\ p1.runs = p.runs
    <3> HIDE DEF t
    <3> QED BY PutToken
  <2> HIDE DEF m1, p1, L, lease
  <2>6. Pair(m2, p2) /\ p2.runs = p1.runs
    BY <2>5, PutLeases
  <2> HIDE DEF m2, p2
  <2>7. InStep(p, Done(m2, <<"row", lease>>), Done(p2, <<"row", lease>>))
    BY <2>5, <2>6, DoneStep
  <2> QED BY <2>3, <2>4, <2>7
<1> QED BY <1>2, <1>3

\* renewRunLease.
LEMMA RenewRunLeaseStep ==
    ASSUME NEW m, NEW p, Pair(m, p), NEW r, NEW t
    PROVE  InStep(p, RenewRunLease(m, r, t), RenewRunLease(p, r, t))
<1> DEFINE L == [p.leases EXCEPT ![r].live = TRUE]
<1>1. m.leases = p.leases /\ (Holds(m, r, t) <=> Holds(p, r, t))
  BY DEF Pair, Twin, Holds
<1>2. CASE ~Holds(p, r, t)
  BY <1>1, <1>2, StillStep DEF RenewRunLease
<1>3. CASE Holds(p, r, t)
  <2>1. RenewRunLease(m, r, t) = Done([m EXCEPT !.leases = L], <<"renewed">>)
    BY <1>1, <1>3 DEF RenewRunLease
  <2>2. RenewRunLease(p, r, t) = Done([p EXCEPT !.leases = L], <<"renewed">>)
    BY <1>1, <1>3 DEF RenewRunLease
  <2> HIDE DEF L
  <2> QED BY <2>1, <2>2, LeasesStep
<1> QED BY <1>2, <1>3

\* releaseRunLease.
LEMMA ReleaseRunLeaseStep ==
    ASSUME NEW m, NEW p, Pair(m, p), NEW r, NEW t
    PROVE  InStep(p, ReleaseRunLease(m, r, t), ReleaseRunLease(p, r, t))
<1> DEFINE L == Without(p.leases, {r})
<1>1. m.leases = p.leases /\ (Holds(m, r, t) <=> Holds(p, r, t))
  BY DEF Pair, Twin, Holds
<1>2. CASE ~Holds(p, r, t)
  BY <1>1, <1>2, StillStep DEF ReleaseRunLease
<1>3. CASE Holds(p, r, t)
  <2>1. ReleaseRunLease(m, r, t) = Done([m EXCEPT !.leases = L], Nothing)
    BY <1>1, <1>3 DEF ReleaseRunLease
  <2>2. ReleaseRunLease(p, r, t) = Done([p EXCEPT !.leases = L], Nothing)
    BY <1>1, <1>3 DEF ReleaseRunLease
  <2> HIDE DEF L
  <2> QED BY <2>1, <2>2, LeasesStep
<1> QED BY <1>2, <1>3

\* A lease that runs out.
LEMMA RunLeaseExpiresStep ==
    ASSUME NEW m, NEW p, Pair(m, p), NEW r
    PROVE  InStep(p, RunLeaseExpires(m, r), RunLeaseExpires(p, r))
<1> DEFINE L == [p.leases EXCEPT ![r].live = FALSE]
<1>1. m.leases = p.leases
  BY DEF Pair, Twin
<1>2. CASE r \notin DOMAIN p.leases
  BY <1>1, <1>2, StillStep DEF RunLeaseExpires
<1>3. CASE r \in DOMAIN p.leases
  <2>1. RunLeaseExpires(m, r) = Done([m EXCEPT !.leases = L], Nothing)
    BY <1>1, <1>3 DEF RunLeaseExpires
  <2>2. RunLeaseExpires(p, r) = Done([p EXCEPT !.leases = L], Nothing)
    BY <1>1, <1>3 DEF RunLeaseExpires
  <2> HIDE DEF L
  <2> QED BY <2>1, <2>2, LeasesStep
<1> QED BY <1>2, <1>3

-----------------------------------------------------------------------------
(* The runs table and the keys of the in-memory store.                     *)

IsKeys(keys) == keys = [f \in {"idem", "active", "all"} |-> keys[f]]

WithRuns(d, R, keys) == [d EXCEPT !.runs = R, !.keys = keys]

\* Another runs table, with the keys that name its runs.
LEMMA PutRuns ==
    ASSUME NEW m, NEW p, Pair(m, p), NEW R, NEW ks, NEW kp, IsKeys(ks), IsKeys(kp),
           RunsOk(R, p.ids.run), KidsOk(p.kids, R), KeysOk(ks, R)
    PROVE  /\ Pair(WithRuns(m, R, ks), WithRuns(p, R, kp))
           /\ WithRuns(m, R, ks).runs = R /\ WithRuns(p, R, kp).runs = R
<1> DEFINE m1 == [m EXCEPT !.runs = R]
           p1 == [p EXCEPT !.runs = R]
           m2 == [m1 EXCEPT !.keys = ks]
           p2 == [p1 EXCEPT !.keys = kp]
<1>1. IsStore(m) /\ IsStore(p) /\ Twin(m, p)
  BY DEF Pair, Twin
<1>2. Twin(m1, p1) /\ m1.runs = R /\ p1.runs = R /\ p1.ids = p.ids /\ p1.nodes = p.nodes /\ p1.kids = p.kids
  BY <1>1 DEF Twin, IsStore, StoreFields
<1>3. WithRuns(m, R, ks) = m2 /\ WithRuns(p, R, kp) = p2
  BY <1>1 DEF IsStore, StoreFields, WithRuns
<1> HIDE DEF m1, p1
<1>4. Twin(m2, p2) /\ m2.runs = R /\ p2.runs = R /\ p2.ids = p.ids /\ p2.nodes = p.nodes /\ p2.kids = p.kids
        /\ m2.keys = ks
  BY <1>2 DEF Twin, IsStore, StoreFields, IsKeys
<1> HIDE DEF m2, p2
<1>5. Pair(m2, p2)
  BY <1>4 DEF Pair
<1> QED BY <1>3, <1>4, <1>5

\* Moving a run.
OnlyMoved(R, runs, r, to) ==
    /\ DOMAIN R = DOMAIN runs
    /\ R[r].status = to
    /\ \A x \in DOMAIN runs :
         /\ R[x].parent = runs[x].parent
         /\ R[x].idem = runs[x].idem
         /\ R[x].scope = runs[x].scope
         /\ x # r => R[x] = runs[x]

\* A run that moves leaves the forest as it is.
LEMMA MovedRuns ==
    ASSUME NEW runs, NEW n, RunsOk(runs, n), NEW r \in DOMAIN runs, NEW to \in RunStatus
    PROVE  LET R == [runs EXCEPT ![r] = Moved(@, to)]
           IN  RunsOk(R, n) /\ OnlyMoved(R, runs, r, to)
<1> DEFINE R == [runs EXCEPT ![r] = Moved(@, to)]
<1>1. \A x \in DOMAIN runs : runs[x] \in RunRow
  BY DEF RunsOk
<1>2. /\ Moved(runs[r], to) \in RunRow
      /\ Moved(runs[r], to).status = to
      /\ Moved(runs[r], to).parent = runs[r].parent
      /\ Moved(runs[r], to).root = runs[r].root
      /\ Moved(runs[r], to).idem = runs[r].idem
      /\ Moved(runs[r], to).scope = runs[r].scope
  BY <1>1, MovedRun
<1>3. DOMAIN R = DOMAIN runs /\ R \in [DOMAIN R -> RunRow] /\ R[r] = Moved(runs[r], to)
  BY <1>1, <1>2 DEF RunsOk
<1>4. \A x \in DOMAIN runs : x # r => R[x] = runs[x]
  OBVIOUS
<1> HIDE DEF R
<1>5. \A x \in DOMAIN runs : R[x].parent = runs[x].parent /\ R[x].root = runs[x].root
        /\ R[x].idem = runs[x].idem /\ R[x].scope = runs[x].scope
  BY <1>2, <1>3, <1>4
<1>6. RunsOk(R, n)
  BY <1>3, <1>5 DEF RunsOk
<1>7. R[r].status = to
  BY <1>2, <1>3
<1>8. OnlyMoved(R, runs, r, to)
  BY <1>3, <1>4, <1>5, <1>7 DEF OnlyMoved
<1> QED BY <1>6, <1>8 DEF R

\* Children still name child runs while no run goes and no parent changes.
LEMMA KidsOkKept ==
    ASSUME NEW kids, NEW runs, NEW R, KidsOk(kids, runs), DOMAIN runs \subseteq DOMAIN R,
           \A x \in DOMAIN runs : R[x].parent = runs[x].parent
    PROVE  KidsOk(kids, R)
BY DEF KidsOk

\* What a map names is what the index finds.
LEMMA NamesIs ==
    ASSUME NEW x, NEW S, Names(x, S)
    PROVE  x = IF S = {} THEN 0 ELSE CHOOSE r \in S : TRUE
BY DEF Names

\* releaseActiveUniqueKey keeps the map of active keys true to the runs.
LEMMA ReleasedKeys ==
    ASSUME NEW keys, NEW runs, IsKeys(keys), KeysOk(keys, runs), NEW n, RunsOk(runs, n),
           NEW r \in DOMAIN runs, NEW to \in RunStatus, runs[r].status \notin Terminal
    PROVE  LET ks == ReleaseActiveUniqueKey("mem", keys, r, to)
           IN  IsKeys(ks) /\ KeysOk(ks, [runs EXCEPT ![r] = Moved(@, to)])
<1> DEFINE R == [runs EXCEPT ![r] = Moved(@, to)]
           ks == ReleaseActiveUniqueKey("mem", keys, r, to)
<1>1. OnlyMoved(R, runs, r, to)
  BY MovedRuns
<1> HIDE DEF R
<1>2. HasIdem(R) = HasIdem(runs) /\ HasAll(R) = HasAll(runs)
  BY <1>1 DEF HasIdem, HasAll, OnlyMoved
<1>3. r # 0
  BY DEF RunsOk
<1>4. CASE to \notin Terminal
  <2>1. HasActive(R) = HasActive(runs)
    BY <1>1, <1>4 DEF HasActive, OnlyMoved
  <2>2. ks = keys
    BY <1>4 DEF ReleaseActiveUniqueKey
  <2> HIDE DEF ks
  <2>3. IsKeys(ks) /\ KeysOk(ks, R)
    BY <1>2, <2>1, <2>2 DEF KeysOk
  <2> QED BY <2>3 DEF ks, R
<1>5. CASE to \in Terminal
  <2>1. HasActive(R) = HasActive(runs) \ {r}
    BY <1>1, <1>5 DEF HasActive, OnlyMoved
  <2>2. ks.idem = keys.idem /\ ks.all = keys.all /\ IsKeys(ks) /\ ks.active = IF keys.active = r
          THEN 0 ELSE keys.active
    BY <1>5 DEF ReleaseActiveUniqueKey, IsKeys
  <2> HIDE DEF ks
  <2>3. Names(ks.active, HasActive(R))
    BY <1>3, <2>1, <2>2 DEF KeysOk, Names
  <2>4. IsKeys(ks) /\ KeysOk(ks, R)
    BY <1>2, <2>2, <2>3 DEF KeysOk
  <2> QED BY <2>4 DEF ks, R
<1> QED BY <1>4, <1>5

\* markRunRunning, markRunWaiting, requestRunCancellation and the ends of a run.
LEMMA SetRunStep ==
    ASSUME NEW m, NEW p, Pair(m, p), NEW r \in DOMAIN p.runs,
           NEW to \in {"running", "waiting", "cancelling"} \cup Terminal
    PROVE  InStep(p, SetRun("mem", m, r, to), SetRun("pg", p, r, to))
<1> DEFINE R == [p.runs EXCEPT ![r] = Moved(@, to)]
           ks == ReleaseActiveUniqueKey("mem", m.keys, r, to)
           e == WithRuns(m, R, ks)
           f == WithRuns(p, R, p.keys)
<1>1. /\ m.runs = p.runs /\ RunsOk(p.runs, p.ids.run) /\ KidsOk(p.kids, p.runs) /\ KeysOk(m.keys, p.runs)
      /\ IsKeys(m.keys) /\ IsKeys(p.keys)
  BY DEF Pair, Twin, IsStore, IsKeys
<1>2. p.runs[r].status \in RunStatus
  BY <1>1 DEF RunsOk, RunRow
<1>3. MemRunMay(p.runs[r].status, to) <=> PgRunMay(p.runs[r].status, to)
  BY <1>2, RunMaySame
<1>4. CASE ~PgRunMay(p.runs[r].status, to)
  BY <1>1, <1>3, <1>4, StillStep DEF SetRun
<1>5. CASE PgRunMay(p.runs[r].status, to)
  <2>1. p.runs[r].status \notin Terminal /\ to \in RunStatus
    BY <1>2, <1>5 DEF PgRunMay, RunSources, RunStatus, Terminal
  <2>2. RunsOk(R, p.ids.run) /\ OnlyMoved(R, p.runs, r, to)
    BY <1>1, <2>1, MovedRuns
  <2>3. IsKeys(ks) /\ KeysOk(ks, R)
    BY <1>1, <2>1, ReleasedKeys
  <2>4. [m EXCEPT !.runs[r] = Moved(@, to), !.keys = ReleaseActiveUniqueKey("mem", @, r, to)] = e
    BY <1>1 DEF WithRuns
  <2>5. [p EXCEPT !.runs[r] = Moved(@, to), !.keys = ReleaseActiveUniqueKey("pg", @, r, to)] = f
    BY <1>1 DEF ReleaseActiveUniqueKey, WithRuns
  <2> HIDE DEF R, ks
  <2>6. KidsOk(p.kids, R)
    BY <1>1, <2>2, KidsOkKept DEF OnlyMoved
  <2>7. Pair(e, f) /\ e.runs = R /\ f.runs = R
    BY <1>1, <2>2, <2>3, <2>6, PutRuns
  <2> HIDE DEF e, f
  <2>8. SetRun("mem", m, r, to) = Done(e, <<"row", R[r]>>)
    BY <1>1, <1>3, <1>5, <2>4, <2>7 DEF SetRun
  <2>9. SetRun("pg", p, r, to) = Done(f, <<"row", R[r]>>)
    BY <1>5, <2>5, <2>7 DEF SetRun
  <2>10. InStep(p, Done(e, <<"row", R[r]>>), Done(f, <<"row", R[r]>>))
    BY <2>2, <2>7, DoneStep DEF OnlyMoved
  <2> QED BY <2>8, <2>9, <2>10
<1> QED BY <1>4, <1>5

-----------------------------------------------------------------------------
(* Creating a run.                                                         *)

CreateInput == [input : {1, 2}, idem : BOOLEAN, scope : Scopes, join : BOOLEAN, parent : Nat, root : Nat]

\* The parent of a new run, if it has one, is there and has its root.
HasParent(d, in) ==
    in.parent # 0 => in.parent \in DOMAIN d.runs /\ in.root = d.runs[in.parent].root

NewRunRow(in, r) ==
    [status |-> "queued", input |-> in.input, parent |-> in.parent,
     root |-> IF in.parent = 0 THEN r ELSE in.root,
     idem |-> in.idem, scope |-> in.scope, version |-> 1]

NewKeys(s, keys, in, r) ==
    [idem   |-> IF s = "mem" /\ in.idem THEN r ELSE keys.idem,
     active |-> IF s = "mem" /\ in.scope = "active" THEN r ELSE keys.active,
     all    |-> IF s = "mem" /\ in.scope = "all" THEN r ELSE keys.all]

\* The runs are still a forest with a new run.
LEMMA NewRuns ==
    ASSUME NEW runs, NEW n, RunsOk(runs, n), n < MaxRuns, NEW in \in CreateInput,
           in.parent # 0 => in.parent \in DOMAIN runs /\ in.root = runs[in.parent].root
    PROVE  RunsOk(WithRows(runs, {n + 1}, NewRunRow(in, n + 1)), n + 1)
<1> DEFINE r == n + 1
           row == NewRunRow(in, r)
           R == WithRows(runs, {r}, row)
<1>1. n \in Nat /\ MaxRuns \in Nat /\ DOMAIN runs \subseteq 1..n
  BY StoreAssumption DEF RunsOk
<1>2. r \notin DOMAIN runs /\ r \in 1..MaxRuns
  BY <1>1
<1>3. /\ row \in RunRow /\ row.parent = in.parent
      /\ row.root = IF in.parent = 0 THEN r ELSE in.root
  BY <1>1, <1>2 DEF NewRunRow, RunRow, CreateInput, RunStatus
<1>4. DOMAIN R = DOMAIN runs \cup {r} /\ R[r] = row /\ \A x \in DOMAIN runs : R[x] = runs[x]
  BY <1>2 DEF WithRows
<1>5. \A x \in DOMAIN runs : runs[x] \in RunRow
  BY DEF RunsOk
<1>6. R \in [DOMAIN R -> RunRow]
  <2> HIDE DEF row
  <2> QED BY <1>3, <1>4, <1>5 DEF WithRows
<1>7. DOMAIN R \subseteq 1..r
  BY <1>1, <1>4
<1> HIDE DEF R, row
<1>8. ASSUME NEW x \in DOMAIN R
      PROVE  /\ R[x].parent = 0 => R[x].root = x
             /\ R[x].parent # 0 => /\ R[x].parent \in DOMAIN R
                                   /\ R[x].parent < x
                                   /\ R[x].root = R[R[x].parent].root
  <2>1. CASE x = r
    <3>1. CASE in.parent = 0
      BY <1>3, <1>4, <2>1, <3>1
    <3>2. CASE in.parent # 0
      <4>1. in.parent \in DOMAIN runs /\ in.parent < r
        BY <1>1, <3>2
      <4> HIDE DEF r
      <4> QED BY <1>3, <1>4, <2>1, <3>2, <4>1
    <3> QED BY <3>1, <3>2
  <2>2. CASE x \in DOMAIN runs
    BY <1>4, <2>2 DEF RunsOk
  <2> QED BY <1>4, <2>1, <2>2
<1>9. r \in 0..MaxRuns
  BY <1>2
<1>10. RunsOk(R, r)
  <2> HIDE DEF r
  <2> QED BY <1>6, <1>7, <1>8, <1>9 DEF RunsOk
<1> QED BY <1>10 DEF R, row

\* The maps name a new run that took a free key.
LEMMA NewRunKeys ==
    ASSUME NEW runs, NEW n, RunsOk(runs, n), NEW keys, IsKeys(keys), KeysOk(keys, runs),
           NEW in \in CreateInput,
           in.idem => HasIdem(runs) = {},
           in.scope = "active" => HasActive(runs) = {},
           in.scope = "all" => HasAll(runs) = {}
    PROVE  KeysOk(NewKeys("mem", keys, in, n + 1), WithRows(runs, {n + 1}, NewRunRow(in, n + 1)))
<1> DEFINE r == n + 1
           row == NewRunRow(in, r)
           R == WithRows(runs, {r}, row)
           ks == NewKeys("mem", keys, in, r)
<1>1. n \in Nat /\ DOMAIN runs \subseteq 1..n
  BY DEF RunsOk
<1>2. r \notin DOMAIN runs /\ r # 0
  BY <1>1
<1>3. row.idem = in.idem /\ row.scope = in.scope /\ row.status \notin Terminal
  BY DEF NewRunRow, Terminal
<1>4. DOMAIN R = DOMAIN runs \cup {r} /\ R[r] = row /\ \A x \in DOMAIN runs : R[x] = runs[x]
  BY <1>2 DEF WithRows
<1>5. /\ ks.idem = IF in.idem THEN r ELSE keys.idem
      /\ ks.active = IF in.scope = "active" THEN r ELSE keys.active
      /\ ks.all = IF in.scope = "all" THEN r ELSE keys.all
  BY DEF NewKeys
<1>6. in.idem \in BOOLEAN
  BY DEF CreateInput
<1> HIDE DEF R, row, ks, r
<1>7. HasIdem(R) = HasIdem(runs) \cup (IF in.idem THEN {r} ELSE {})
  BY <1>3, <1>4 DEF HasIdem
<1>8. HasActive(R) = HasActive(runs) \cup (IF in.scope = "active" THEN {r} ELSE {})
  BY <1>3, <1>4 DEF HasActive
<1>9. HasAll(R) = HasAll(runs) \cup (IF in.scope = "all" THEN {r} ELSE {})
  BY <1>3, <1>4 DEF HasAll
<1>10. Names(ks.idem, HasIdem(R))
  BY <1>2, <1>5, <1>7 DEF KeysOk, Names
<1>11. Names(ks.active, HasActive(R))
  BY <1>2, <1>5, <1>8 DEF KeysOk, Names
<1>12. Names(ks.all, HasAll(R))
  BY <1>2, <1>5, <1>9 DEF KeysOk, Names
<1>13. KeysOk(ks, R)
  BY <1>10, <1>11, <1>12 DEF KeysOk
<1> QED BY <1>13 DEF ks, R, row, r

\* insertStoredRun: the key of the run is free.
LEMMA InsertPair ==
    ASSUME NEW m, NEW p, Pair(m, p), p.ids.run < MaxRuns, NEW in \in CreateInput, HasParent(p, in),
           in.idem => HasIdem(p.runs) = {},
           in.scope = "active" => HasActive(p.runs) = {},
           in.scope = "all" => HasAll(p.runs) = {}
    PROVE  LET e == InsertStoredRun("mem", m, in)
               f == InsertStoredRun("pg", p, in)
               r == p.ids.run + 1
           IN  /\ Pair(e, f)
               /\ f.kids = p.kids /\ e.kids = p.kids
               /\ DOMAIN f.runs = DOMAIN p.runs \cup {r}
               /\ f.runs[r].parent = in.parent
<1> DEFINE n == p.ids.run
           r == n + 1
           R == WithRows(p.runs, {r}, NewRunRow(in, r))
           ks == NewKeys("mem", m.keys, in, r)
           kp == NewKeys("pg", p.keys, in, r)
           m1 == [m EXCEPT !.ids.run = r]
           p1 == [p EXCEPT !.ids.run = r]
           e == WithRuns(m1, R, ks)
           f == WithRuns(p1, R, kp)
<1>1. /\ m.runs = p.runs /\ m.ids = p.ids /\ m.kids = p.kids /\ RunsOk(p.runs, n) /\ KidsOk(p.kids, p.runs)
        /\ KeysOk(m.keys, p.runs)
      /\ IsKeys(m.keys) /\ IsKeys(p.keys) /\ IsStore(m) /\ IsStore(p) /\ Twin(m, p)
  BY DEF Pair, Twin, IsStore, IsKeys
<1>2. n \in Nat /\ DOMAIN p.runs \subseteq 1..n
  BY <1>1 DEF RunsOk
<1>3. RunsOk(R, r)
  BY <1>1, NewRuns DEF HasParent
<1>4. KeysOk(ks, R)
  BY <1>1, NewRunKeys
<1>5. IsKeys(ks) /\ IsKeys(kp)
  BY DEF IsKeys, NewKeys
<1>6. r \notin DOMAIN p.runs
  BY <1>2
<1>7. DOMAIN R = DOMAIN p.runs \cup {r} /\ R[r] = NewRunRow(in, r) /\ \A x \in DOMAIN p.runs : R[x] = p.runs[x]
  BY <1>6 DEF WithRows
<1>8. R[r].parent = in.parent
  BY <1>7 DEF NewRunRow
<1>9. InsertStoredRun("mem", m, in) = e
  <2>1. InsertStoredRun("mem", m, in) = [m EXCEPT !.ids.run = r, !.runs = R, !.keys = ks]
    BY <1>1 DEF InsertStoredRun, NewRunRow, NewKeys
  <2> HIDE DEF R, ks, r
  <2> QED BY <1>1, <2>1 DEF WithRuns, IsStore, StoreFields
<1>10. InsertStoredRun("pg", p, in) = f
  <2>1. InsertStoredRun("pg", p, in) = [p EXCEPT !.ids.run = r, !.runs = R, !.keys = kp]
    BY <1>1 DEF InsertStoredRun, NewRunRow, NewKeys
  <2> HIDE DEF R, kp, r
  <2> QED BY <1>1, <2>1 DEF WithRuns, IsStore, StoreFields
<1>11. KidsOk(p.kids, R)
  <2> HIDE DEF R
  <2> QED BY <1>1, <1>7, KidsOkKept
<1>12. /\ Twin(m1, p1) /\ p1.ids.run = r /\ p1.ids.attempt = p.ids.attempt /\ p1.nodes = p.nodes /\ p1.kids = p.kids
  <2> HIDE DEF r
  <2> QED BY <1>1 DEF Twin, IsStore, StoreFields
<1> HIDE DEF m1, p1, R, ks, kp, r
<1>13. /\ Twin(e, f) /\ e.runs = R /\ f.runs = R /\ f.ids = p1.ids /\ f.nodes = p.nodes /\ f.kids = p.kids
        /\ e.keys = ks
  <2> DEFINE m2 == [m1 EXCEPT !.runs = R]
             p2 == [p1 EXCEPT !.runs = R]
  <2>1. Twin(m2, p2) /\ m2.runs = R /\ p2.runs = R /\ p2.ids = p1.ids /\ p2.nodes = p.nodes /\ p2.kids = p.kids
    BY <1>12 DEF Twin, IsStore, StoreFields
  <2>2. e = [m2 EXCEPT !.keys = ks] /\ f = [p2 EXCEPT !.keys = kp]
    BY <1>12 DEF Twin, IsStore, StoreFields, WithRuns
  <2> HIDE DEF m2, p2, e, f
  <2> QED BY <1>5, <2>1, <2>2 DEF Twin, IsStore, StoreFields, IsKeys
<1> HIDE DEF e, f
<1>14. Pair(e, f)
  BY <1>1, <1>3, <1>4, <1>11, <1>12, <1>13 DEF Pair
<1>15. e.kids = p.kids
  BY <1>13 DEF Twin
<1>16. f.runs[r].parent = in.parent /\ DOMAIN f.runs = DOMAIN p.runs \cup {r}
  BY <1>7, <1>8, <1>13
<1> QED BY <1>9, <1>10, <1>13, <1>14, <1>15, <1>16 DEF r

\* The maps and the indexes find the same run.
LEMMA SameIdempotentRun ==
    ASSUME NEW m, NEW p, Pair(m, p)
    PROVE  /\ IdempotentRun("mem", m) = IdempotentRun("pg", p)
           /\ Names(IdempotentRun("pg", p), HasIdem(p.runs))
<1>1. Names(m.keys.idem, HasIdem(p.runs))
  BY DEF Pair, Twin, KeysOk
<1>2. m.keys.idem = IF HasIdem(p.runs) = {} THEN 0 ELSE CHOOSE r \in HasIdem(p.runs) : TRUE
  BY <1>1, NamesIs
<1>3. IdempotentRun("pg", p) = IF HasIdem(p.runs) = {} THEN 0 ELSE CHOOSE r \in HasIdem(p.runs) : TRUE
  BY DEF IdempotentRun, PgIdempotentRun, HasIdem
<1>4. IdempotentRun("mem", m) = m.keys.idem
  BY DEF IdempotentRun, MemIdempotentRun
<1>5. IdempotentRun("pg", p) = m.keys.idem
  BY <1>2, <1>3, Zenon
<1> QED BY <1>1, <1>4, <1>5

\* The maps and the indexes find the same holder of a unique key.
LEMMA SameUniqueRun ==
    ASSUME NEW m, NEW p, Pair(m, p), NEW scope \in Scopes
    PROVE  /\ UniqueRun("mem", m, scope) = UniqueRun("pg", p, scope)
           /\ scope = "none" => UniqueRun("pg", p, scope) = 0
           /\ scope = "active" => Names(UniqueRun("pg", p, scope), HasActive(p.runs))
           /\ scope = "all" => Names(UniqueRun("pg", p, scope), HasAll(p.runs))
<1>1. /\ Names(m.keys.active, HasActive(p.runs)) /\ Names(m.keys.all, HasAll(p.runs))
      /\ m.runs = p.runs /\ 0 \notin DOMAIN p.runs
  BY DEF Pair, Twin, KeysOk, RunsOk
<1>2. CASE scope = "none"
  BY <1>2 DEF UniqueRun
<1>3. CASE scope = "active"
  <2>1. m.keys.active = IF HasActive(p.runs) = {} THEN 0 ELSE CHOOSE r \in HasActive(p.runs) : TRUE
    BY <1>1, NamesIs
  <2>2. UniqueRun("pg", p, scope) = IF HasActive(p.runs) = {} THEN 0 ELSE CHOOSE r \in HasActive(p.runs) : TRUE
    BY <1>3 DEF UniqueRun, PgUniqueRun, HasActive
  <2>3. UniqueRun("mem", m, scope) = IF m.keys.active \in DOMAIN m.runs THEN m.keys.active ELSE 0
    BY <1>3 DEF UniqueRun, MemUniqueRun
  <2>4. m.keys.active = 0 \/ m.keys.active \in DOMAIN m.runs
    BY <1>1 DEF Names, HasActive
  <2> QED BY <1>1, <1>3, <2>1, <2>2, <2>3, <2>4
<1>4. CASE scope = "all"
  <2>1. m.keys.all = IF HasAll(p.runs) = {} THEN 0 ELSE CHOOSE r \in HasAll(p.runs) : TRUE
    BY <1>1, NamesIs
  <2>2. UniqueRun("pg", p, scope) = IF HasAll(p.runs) = {} THEN 0 ELSE CHOOSE r \in HasAll(p.runs) : TRUE
    BY <1>4 DEF UniqueRun, PgUniqueRun, HasAll
  <2>3. UniqueRun("mem", m, scope) = IF m.keys.all \in DOMAIN m.runs THEN m.keys.all ELSE 0
    BY <1>4 DEF UniqueRun, MemUniqueRun
  <2>4. m.keys.all = 0 \/ m.keys.all \in DOMAIN m.runs
    BY <1>1 DEF Names, HasAll
  <2> QED BY <1>1, <1>4, <2>1, <2>2, <2>3, <2>4
<1> QED BY <1>2, <1>3, <1>4 DEF Scopes

\* A created run is one the caller asked for.
Created(p, in, a, b) ==
    /\ InStep(p, a, b)
    /\ a.db.kids = p.kids /\ b.db.kids = p.kids
    /\ \/ b.answer = <<"throws">>
       \/ \E x \in DOMAIN b.db.runs :
            b.answer = <<"run", x>> /\ (in.scope = "none" => b.db.runs[x].parent = in.parent)

\* createRunWithState.
LEMMA CreateRunStep ==
    ASSUME NEW m, NEW p, Pair(m, p), p.ids.run < MaxRuns, NEW in \in CreateInput, HasParent(p, in)
    PROVE  Created(p, in, CreateRunWithState("mem", m, in), CreateRunWithState("pg", p, in))
<1> DEFINE i == IF in.idem THEN IdempotentRun("pg", p) ELSE 0
           u == UniqueRun("pg", p, in.scope)
           matches == i \in DOMAIN p.runs /\ RunMatchesCreateInput(p.runs[i], in, i)
           a == CreateRunWithState("mem", m, in)
           b == CreateRunWithState("pg", p, in)
<1>1. m.runs = p.runs /\ m.kids = p.kids /\ m.ids = p.ids
  BY DEF Pair, Twin
<1>2. i = (IF in.idem THEN IdempotentRun("mem", m) ELSE 0) /\ (in.idem => Names(i, HasIdem(p.runs)))
  BY SameIdempotentRun
<1>3. in.scope \in Scopes
  BY DEF CreateInput
<1>4. u = UniqueRun("mem", m, in.scope)
  BY <1>3, SameUniqueRun
<1>5. /\ in.scope = "none" => u = 0
      /\ in.scope = "active" => Names(u, HasActive(p.runs))
      /\ in.scope = "all" => Names(u, HasAll(p.runs))
  BY <1>3, SameUniqueRun
<1>6. a = IF i # 0 THEN IF matches THEN Done(m, <<"run", i>>) ELSE Throw(m)
          ELSE IF u # 0 THEN IF in.join THEN Done(m, <<"run", u>>) ELSE Throw(m)
          ELSE Done(InsertStoredRun("mem", m, in), <<"run", p.ids.run + 1>>)
  BY <1>1, <1>2, <1>4 DEF CreateRunWithState
<1>7. b = IF i # 0 THEN IF matches THEN Done(p, <<"run", i>>) ELSE Throw(p)
          ELSE IF u # 0 THEN IF in.join THEN Done(p, <<"run", u>>) ELSE Throw(p)
          ELSE Done(InsertStoredRun("pg", p, in), <<"run", p.ids.run + 1>>)
  BY DEF CreateRunWithState
<1> HIDE DEF i, u, a, b
<1>8. CASE i # 0 /\ matches
  <2>1. a = Done(m, <<"run", i>>) /\ b = Done(p, <<"run", i>>)
    BY <1>6, <1>7, <1>8
  <2>2. InStep(p, Done(m, <<"run", i>>), Done(p, <<"run", i>>))
    BY StillStep
  <2>3. i \in DOMAIN p.runs /\ p.runs[i].parent = in.parent
    BY <1>8 DEF RunMatchesCreateInput
  <2>4. a.db = m /\ b.db = p /\ b.answer = <<"run", i>>
    BY <2>1 DEF Done
  <2>5. Created(p, in, a, b)
    BY <1>1, <2>1, <2>2, <2>3, <2>4 DEF Created
  <2> QED BY <2>5 DEF a, b
<1>9. CASE (i # 0 /\ ~matches) \/ (i = 0 /\ u # 0 /\ ~in.join)
  <2>1. a = Done(m, <<"throws">>) /\ b = Done(p, <<"throws">>)
    BY <1>6, <1>7, <1>9 DEF Throw
  <2>2. InStep(p, Done(m, <<"throws">>), Done(p, <<"throws">>))
    BY StillStep
  <2>3. a.db = m /\ b.db = p /\ b.answer = <<"throws">>
    BY <2>1 DEF Done
  <2>4. Created(p, in, a, b)
    BY <1>1, <2>1, <2>2, <2>3 DEF Created
  <2> QED BY <2>4 DEF a, b
<1>10. CASE i = 0 /\ u # 0 /\ in.join
  <2>1. a = Done(m, <<"run", u>>) /\ b = Done(p, <<"run", u>>)
    BY <1>6, <1>7, <1>10
  <2>2. InStep(p, Done(m, <<"run", u>>), Done(p, <<"run", u>>))
    BY StillStep
  <2>3. u \in DOMAIN p.runs /\ in.scope # "none"
    BY <1>3, <1>5, <1>10 DEF Names, HasActive, HasAll, Scopes
  <2>4. a.db = m /\ b.db = p /\ b.answer = <<"run", u>>
    BY <2>1 DEF Done
  <2>5. Created(p, in, a, b)
    BY <1>1, <2>1, <2>2, <2>3, <2>4 DEF Created
  <2> QED BY <2>5 DEF a, b
<1>11. CASE i = 0 /\ u = 0
  <2> DEFINE e == InsertStoredRun("mem", m, in)
             f == InsertStoredRun("pg", p, in)
             r == p.ids.run + 1
  <2>1. a = Done(e, <<"run", r>>) /\ b = Done(f, <<"run", r>>)
    BY <1>6, <1>7, <1>11
  <2>2. /\ in.idem => HasIdem(p.runs) = {}
        /\ in.scope = "active" => HasActive(p.runs) = {}
        /\ in.scope = "all" => HasAll(p.runs) = {}
    BY <1>2, <1>5, <1>11 DEF Names
  <2>3. /\ Pair(e, f) /\ f.kids = p.kids /\ e.kids = p.kids
        /\ DOMAIN f.runs = DOMAIN p.runs \cup {r} /\ f.runs[r].parent = in.parent
    BY <2>2, InsertPair
  <2> HIDE DEF e, f, r
  <2>4. InStep(p, Done(e, <<"run", r>>), Done(f, <<"run", r>>))
    BY <2>3, DoneStep
  <2>5. a.db = e /\ b.db = f /\ b.answer = <<"run", r>>
    BY <2>1 DEF Done
  <2>6. Created(p, in, a, b)
    BY <2>1, <2>3, <2>4, <2>5 DEF Created
  <2> QED BY <2>6 DEF a, b
<1> QED BY <1>8, <1>9, <1>10, <1>11

\* ensureChildRun: a fresh run, or the one that the child is linked to.
LEMMA EnsureChildRunStep ==
    ASSUME NEW m, NEW p, Pair(m, p), p.ids.run < MaxRuns, NEW r \in DOMAIN p.runs, NEW key,
           NEW input \in {1, 2}, NEW idem \in BOOLEAN
    PROVE  LET in == [input |-> input, idem |-> idem]
           IN  InStep(p, EnsureChildRun("mem", m, <<r, key>>, in), EnsureChildRun("pg", p, <<r, key>>, in))
<1> DEFINE in == [input |-> input, idem |-> idem]
           k == <<r, key>>
           full == [input |-> input, idem |-> idem, scope |-> "none", join |-> FALSE,
                    parent |-> r, root |-> p.runs[r].root]
           a == CreateRunWithState("mem", m, full)
           b == CreateRunWithState("pg", p, full)
           child == p.kids[k]
           linked == p.runs[child.run]
           ma == EnsureChildRun("mem", m, k, in)
           mb == EnsureChildRun("pg", p, k, in)
<1>1. m.runs = p.runs /\ m.kids = p.kids /\ KidsOk(p.kids, p.runs) /\ RunsOk(p.runs, p.ids.run)
  BY DEF Pair, Twin
<1>2. r \in Nat \ {0} /\ p.runs[r].root \in Nat
  BY <1>1 DEF RunsOk, RunRow
<1>3. full \in CreateInput /\ HasParent(p, full) /\ full.scope = "none" /\ full.parent = r
  BY <1>2 DEF CreateInput, HasParent, Scopes
<1>4. ma = IF k \notin DOMAIN p.kids THEN Throw(m)
           ELSE IF child.run # 0
           THEN IF linked.input = input /\ linked.idem = idem THEN Done(m, <<"run", child.run>>)
                ELSE Throw(m)
           ELSE IF child.status \in Terminal \/ a.answer = <<"throws">> THEN Throw(m)
           ELSE Done([a.db EXCEPT !.kids[k] = Linked(@, a.answer[2])], a.answer)
  BY <1>1 DEF EnsureChildRun
<1>5. mb = IF k \notin DOMAIN p.kids THEN Throw(p)
           ELSE IF child.run # 0
           THEN IF linked.input = input /\ linked.idem = idem THEN Done(p, <<"run", child.run>>)
                ELSE Throw(p)
           ELSE IF child.status \in Terminal \/ b.answer = <<"throws">> THEN Throw(p)
           ELSE Done([b.db EXCEPT !.kids[k] = Linked(@, b.answer[2])], b.answer)
  BY DEF EnsureChildRun
<1> HIDE DEF full
<1>6. Created(p, full, a, b)
  BY <1>3, CreateRunStep
<1>7. a.answer = b.answer
  BY <1>6 DEF Created, InStep
<1> HIDE DEF a, b, ma, mb
<1>8. CASE k \notin DOMAIN p.kids \/ child.run # 0 \/ child.status \in Terminal \/ b.answer = <<"throws">>
  <2>1. (ma = Throw(m) /\ mb = Throw(p)) \/ (ma = Done(m, <<"run", child.run>>) /\ mb = Done(p, <<"run", child.run>>))
    BY <1>4, <1>5, <1>7, <1>8
  <2>2. InStep(p, ma, mb)
    BY <2>1, StillStep DEF Throw
  <2> QED BY <2>2 DEF ma, mb
<1>9. CASE ~(k \notin DOMAIN p.kids \/ child.run # 0 \/ child.status \in Terminal \/ b.answer = <<"throws">>)
  <2>1. PICK x \in DOMAIN b.db.runs : b.answer = <<"run", x>> /\ b.db.runs[x].parent = r
    BY <1>3, <1>6, <1>9 DEF Created
  <2> DEFINE K == [p.kids EXCEPT ![k] = Linked(@, x)]
             e == [a.db EXCEPT !.kids = K]
             f == [b.db EXCEPT !.kids = K]
  <2>2. b.answer[2] = x /\ a.db.kids = p.kids /\ b.db.kids = p.kids
    BY <1>6, <2>1 DEF Created
  <2>3. ma = Done(e, b.answer)
    BY <1>4, <1>7, <1>9, <2>2
  <2>4. mb = Done(f, b.answer)
    BY <1>5, <1>9, <2>2
  <2>5. Pair(a.db, b.db) /\ DOMAIN p.runs \subseteq DOMAIN b.db.runs
    BY <1>6 DEF Created, InStep
  <2>6. KidsOk(p.kids, b.db.runs) /\ x \in Nat
    BY <2>2, <2>5 DEF Pair, RunsOk
  <2>7. Linked(p.kids[k], x) \in KidRow /\ Linked(p.kids[k], x).run = x
    BY <1>9, <2>6, LinkedKid DEF KidsOk
  <2>8. k[1] = r /\ k \in DOMAIN p.kids
    BY <1>9
  <2> HIDE DEF k
  <2>9. DOMAIN K = DOMAIN p.kids /\ K \in [DOMAIN K -> KidRow] /\ K[k].run = x
    BY <2>6, <2>7, <2>8 DEF KidsOk
  <2>10. \A j \in DOMAIN p.kids : j # k => K[j] = p.kids[j]
    OBVIOUS
  <2> HIDE DEF K
  <2>11. KidsOk(K, b.db.runs)
    BY <2>1, <2>6, <2>8, <2>9, <2>10 DEF KidsOk
  <2>12. Pair(e, f) /\ f.runs = b.db.runs
    BY <2>5, <2>11, PutKids
  <2> HIDE DEF e, f
  <2>13. InStep(p, Done(e, b.answer), Done(f, b.answer))
    BY <2>5, <2>12, DoneStep
  <2>14. InStep(p, ma, mb)
    BY <2>3, <2>4, <2>13
  <2> QED BY <2>14 DEF ma, mb, k
<1> QED BY <1>8, <1>9

-----------------------------------------------------------------------------
(* Induction over the naturals.                                            *)

\* Every set of naturals has a least member.
LEMMA LeastNatural ==
    ASSUME NEW T, T \subseteq Nat, T # {} PROVE \E m \in T : \A k \in T : m <= k
  <1> DEFINE R == OpToRel(<, Nat)
  <1>1. IsWellFoundedOn(R, Nat)
    BY NatLessThanWellFounded, Zenon
  <1>2. PICK x \in T : \A y \in T : ~(<<y, x>> \in R)
    <2> HIDE DEF R
    <2> QED BY <1>1, WFMin
  <1>3. \A y \in T : ~(y < x)
    BY <1>2, Zenon DEF OpToRel
  <1> QED BY <1>3

\* A set with 0 and all successors has every natural.
LEMMA InductionOnSets ==
    ASSUME NEW S, 0 \in S, \A n \in Nat : n \in S => n + 1 \in S PROVE \A n \in Nat : n \in S
  <1> SUFFICES ASSUME NEW b \in Nat, b \notin S PROVE FALSE
    OBVIOUS
  <1> DEFINE T == {n \in Nat : n \notin S}
  <1>1. PICK m \in T : \A k \in T : m <= k
    <2>1. T \subseteq Nat /\ T # {}
      OBVIOUS
    <2> HIDE DEF T
    <2> QED BY <2>1, LeastNatural
  <1>2. m # 0 /\ m - 1 \in Nat
    OBVIOUS
  <1>3. m - 1 \notin T
    BY <1>1, <1>2
  <1> QED BY <1>1, <1>2, <1>3


\* What holds of 0 and is passed on up to N holds of N.
LEMMA InductionUpTo ==
    ASSUME NEW N \in Nat, NEW S, 0 \in S, \A n \in 0..N : n \in S /\ n < N => n + 1 \in S
    PROVE  N \in S
  <1> DEFINE T == {n \in Nat : n <= N => n \in S}
  <1>1. 0 \in T
    OBVIOUS
  <1>2. ASSUME NEW n \in Nat, n \in T PROVE n + 1 \in T
    BY <1>2
  <1> HIDE DEF T
  <1>3. \A n \in Nat : n \in T
    BY <1>1, <1>2, InductionOnSets
  <1> QED BY <1>3 DEF T

-----------------------------------------------------------------------------
(* The tree of a root.                                                     *)

\* g is the collection of a tree, generation by generation.
TreeBy(d, R, g) ==
    /\ RunTree(d, R) = g[MaxRuns]
    /\ g[0] = R
    /\ \A n \in 1..MaxRuns : g[n] = g[n - 1] \cup {r \in DOMAIN d.runs : d.runs[r].parent \in g[n - 1]}

\* The collection of a tree is the function its equation says.
LEMMA TreeGrows ==
    ASSUME NEW d, NEW R
    PROVE  \E g : TreeBy(d, R, g)
  <1> DEFINE Grown(G) == G \cup {r \in DOMAIN d.runs : d.runs[r].parent \in G}
             Eq(g, m) == g = [n \in 0..m |-> IF n = 0 THEN R ELSE Grown(g[n - 1])]
             P == CHOOSE g : Eq(g, MaxRuns)
  <1>1. MaxRuns \in Nat
    BY StoreAssumption
  <1>2. RunTree(d, R) = P[MaxRuns]
    BY DEF RunTree
  <1> HIDE DEF Grown
  <1>3. \A m \in Nat : \E g : Eq(g, m)
    <2> DEFINE S == {m \in Nat : \E g : Eq(g, m)}
    <2>1. 0 \in S
      <3> DEFINE g == [i \in 0..0 |-> R]
      <3>1. Eq(g, 0)
        OBVIOUS
      <3> QED BY <3>1
    <2>2. ASSUME NEW m \in Nat, m \in S PROVE m + 1 \in S
      <3>1. PICK g : Eq(g, m)
        BY <2>2
      <3> DEFINE h == [i \in 0..(m + 1) |-> IF i = m + 1 THEN Grown(g[m]) ELSE g[i]]
      <3>2. \A i \in 0..m : h[i] = g[i]
        OBVIOUS
      <3>3. \A i \in 0..(m + 1) : h[i] = IF i = 0 THEN R ELSE Grown(h[i - 1])
        <4> TAKE i \in 0..(m + 1)
        <4>1. CASE i = m + 1
          BY <3>2, <4>1
        <4>2. CASE i # m + 1
          <5>1. i \in 0..m /\ h[i] = g[i] /\ (i # 0 => i - 1 \in 0..m)
            BY <4>2
          <5>2. g[i] = IF i = 0 THEN R ELSE Grown(g[i - 1])
            BY <3>1, <5>1
          <5>3. i # 0 => h[i - 1] = g[i - 1]
            BY <3>2, <5>1
          <5> HIDE DEF h
          <5> QED BY <5>1, <5>2, <5>3
        <4> QED BY <4>1, <4>2
      <3>4. Eq(h, m + 1)
        BY <3>3
      <3>5. \E f : Eq(f, m + 1)
        BY <3>4
      <3> QED BY <3>5
    <2> HIDE DEF S
    <2>3. \A m \in Nat : m \in S
      BY <2>1, <2>2, InductionOnSets
    <2> QED BY <2>3 DEF S
  <1>4. Eq(P, MaxRuns)
    <2>1. \E g : Eq(g, MaxRuns)
      BY <1>1, <1>3
    <2> HIDE DEF Eq
    <2> QED BY <2>1
  <1> HIDE DEF P
  <1>5. P[0] = R /\ \A n \in 1..MaxRuns : P[n] = Grown(P[n - 1])
    BY <1>1, <1>4
  <1>6. TreeBy(d, R, P)
    BY <1>2, <1>5 DEF TreeBy, Grown
  <1> QED BY <1>6

\* The tree of roots is what has one of them as its root.
LEMMA TreeIs ==
    ASSUME NEW d, NEW k, RunsOk(d.runs, k), NEW R, R \subseteq DOMAIN d.runs,
           \A r \in R : d.runs[r].parent = 0
    PROVE  RunTree(d, R) = {x \in DOMAIN d.runs : d.runs[x].root \in R}
  <1> DEFINE runs == d.runs
             T == {x \in DOMAIN runs : runs[x].root \in R}
  <1>1. PICK g : TreeBy(d, R, g)
    BY TreeGrows
  <1>2. /\ RunTree(d, R) = g[MaxRuns] /\ g[0] = R /\ MaxRuns \in Nat
        /\ \A n \in 1..MaxRuns : g[n] = g[n - 1] \cup {r \in DOMAIN runs : runs[r].parent \in g[n - 1]}
    BY <1>1, StoreAssumption DEF TreeBy
  <1>3. /\ DOMAIN runs \subseteq 1..k /\ k \in 0..MaxRuns
        /\ \A r \in DOMAIN runs : runs[r].parent \in Nat
        /\ \A r \in DOMAIN runs :
             /\ runs[r].parent = 0 => runs[r].root = r
             /\ runs[r].parent # 0 => /\ runs[r].parent \in DOMAIN runs
                                      /\ runs[r].parent < r
                                      /\ runs[r].root = runs[runs[r].parent].root
    BY DEF RunsOk, RunRow
  <1>4. R \subseteq T
    BY <1>3
  <1> DEFINE S == {n \in 0..MaxRuns : R \subseteq g[n] /\ g[n] \subseteq T /\ \A x \in T : x <= n => x \in g[n]}
  <1>5. 0 \in S
    BY <1>2, <1>3, <1>4
  <1>6. ASSUME NEW n \in 0..MaxRuns, n \in S, n < MaxRuns PROVE n + 1 \in S
    <2>1. n + 1 \in 1..MaxRuns /\ (n + 1) - 1 = n
      BY <1>2, <1>6
    <2>2. g[n + 1] = g[n] \cup {r \in DOMAIN runs : runs[r].parent \in g[n]}
      BY <1>2, <2>1
    <2>3. R \subseteq g[n] /\ g[n] \subseteq T /\ \A x \in T : x <= n => x \in g[n]
      BY <1>6
    <2>4. R \subseteq g[n + 1]
      BY <2>2, <2>3
    <2>5. ASSUME NEW x \in DOMAIN runs, runs[x].parent \in g[n] PROVE x \in T
      <3>1. runs[x].parent \in T /\ runs[x].parent # 0
        BY <1>3, <2>3, <2>5
      <3> QED BY <1>3, <3>1
    <2>6. ASSUME NEW x \in T, x <= n + 1 PROVE x \in g[n + 1]
      <3>1. CASE x <= n
        BY <2>2, <2>3, <3>1
      <3>2. CASE x = n + 1 /\ runs[x].parent = 0
        BY <1>3, <2>4, <3>2
      <3>3. CASE x = n + 1 /\ runs[x].parent # 0
        <4>1. runs[x].parent \in T /\ runs[x].parent <= n
          BY <1>3, <2>6, <3>3
        <4> QED BY <2>2, <2>3, <4>1
      <3>4. x \in Nat
        BY <1>3
      <3> QED BY <2>6, <3>1, <3>2, <3>3, <3>4
    <2>7. g[n + 1] \subseteq T
      BY <2>2, <2>3, <2>5
    <2> QED BY <2>1, <2>4, <2>6, <2>7
  <1>7. MaxRuns \in S
    <2> HIDE DEF S
    <2> QED BY <1>2, <1>5, <1>6, InductionUpTo
  <1>8. \A x \in T : x <= MaxRuns
    BY <1>2, <1>3
  <1> QED BY <1>2, <1>7, <1>8

\* A set of runs that has a run's parent exactly when it has the run.
Family(gone, runs) ==
    /\ gone \subseteq DOMAIN runs
    /\ \A x \in DOMAIN runs : runs[x].parent # 0 => (x \in gone <=> runs[x].parent \in gone)

\* With a run, the tree of roots has its parent.
LEMMA TreeIsFamily ==
    ASSUME NEW d, NEW k, RunsOk(d.runs, k), NEW R, R \subseteq DOMAIN d.runs,
           \A r \in R : d.runs[r].parent = 0
    PROVE  Family(RunTree(d, R), d.runs)
  <1>1. RunTree(d, R) = {x \in DOMAIN d.runs : d.runs[x].root \in R}
    BY TreeIs
  <1> QED BY <1>1 DEF Family, RunsOk

\* Through parents, all that has the root is reached.
LEMMA DescendantsAre ==
    ASSUME NEW d, NEW k, RunsOk(d.runs, k), NEW r \in DOMAIN d.runs, d.runs[r].parent = 0
    PROVE  Descendants(d, r) = RunTree(d, {r})
  <1> DEFINE R == {r}
  <1>1. R \subseteq DOMAIN d.runs /\ \A x \in R : d.runs[x].parent = 0
    OBVIOUS
  <1> HIDE DEF R
  <1>2. RunTree(d, R) = {x \in DOMAIN d.runs : d.runs[x].root \in R}
    BY <1>1, TreeIs
  <1> QED BY <1>2 DEF Descendants, R

-----------------------------------------------------------------------------
(* Deletion.                                                               *)

MemDeleted(d, runs, leases, nodes, keys, attempts, kids) ==
    [d EXCEPT !.runs = runs, !.leases = leases, !.nodes = nodes, !.keys = keys,
              !.attempts = attempts, !.kids = kids]

PgDeleted(d, runs, leases, nodes, attempts, kids) ==
    [d EXCEPT !.runs = runs, !.leases = leases, !.nodes = nodes,
              !.attempts = attempts, !.kids = kids]

\* The tables after a deletion in memory.
LEMMA MemDeletedFields ==
    ASSUME NEW d, IsStore(d), NEW runs, NEW leases, NEW nodes, NEW keys, IsKeys(keys), NEW attempts, NEW kids
    PROVE  LET e == MemDeleted(d, runs, leases, nodes, keys, attempts, kids)
           IN  /\ IsStore(e)
               /\ e.runs = runs /\ e.leases = leases /\ e.nodes = nodes /\ e.keys = keys
               /\ e.attempts = attempts /\ e.kids = kids /\ e.ids = d.ids
BY DEF MemDeleted, IsStore, StoreFields, IsKeys

\* The tables after a deletion in Postgres.
LEMMA PgDeletedFields ==
    ASSUME NEW d, IsStore(d), NEW runs, NEW leases, NEW nodes, NEW attempts, NEW kids
    PROVE  LET e == PgDeleted(d, runs, leases, nodes, attempts, kids)
           IN  /\ IsStore(e)
               /\ e.runs = runs /\ e.leases = leases /\ e.nodes = nodes
               /\ e.attempts = attempts /\ e.kids = kids /\ e.ids = d.ids
BY DEF PgDeleted, IsStore, StoreFields

KeptKey(x, gone) == IF x \in gone THEN 0 ELSE x
KeptKeys(keys, gone) ==
    [idem |-> KeptKey(keys.idem, gone), active |-> KeptKey(keys.active, gone), all |-> KeptKey(keys.all, gone)]

\* A key whose run went names no run.
LEMMA KeptName ==
    ASSUME NEW x, NEW S, NEW gone, Names(x, S), 0 \notin gone
    PROVE  Names(KeptKey(x, gone), S \ gone)
BY DEF Names, KeptKey

\* The maps of the in-memory store stay true to the runs that stay.
LEMMA KeptKeysOk ==
    ASSUME NEW keys, NEW runs, NEW gone, KeysOk(keys, runs), 0 \notin gone
    PROVE  IsKeys(KeptKeys(keys, gone)) /\ KeysOk(KeptKeys(keys, gone), Without(runs, gone))
<1> DEFINE R == Without(runs, gone)
           ks == KeptKeys(keys, gone)
<1>1. DOMAIN R = DOMAIN runs \ gone /\ \A x \in DOMAIN R : R[x] = runs[x]
  BY DEF Without
<1>2. /\ ks.idem = KeptKey(keys.idem, gone) /\ ks.active = KeptKey(keys.active, gone)
      /\ ks.all = KeptKey(keys.all, gone) /\ IsKeys(ks)
  BY DEF KeptKeys, IsKeys
<1> HIDE DEF R, ks
<1>3. HasIdem(R) = HasIdem(runs) \ gone /\ HasActive(R) = HasActive(runs) \ gone /\ HasAll(R) = HasAll(runs) \ gone
  BY <1>1 DEF HasIdem, HasActive, HasAll
<1>4. Names(ks.idem, HasIdem(R)) /\ Names(ks.active, HasActive(R)) /\ Names(ks.all, HasAll(R))
  BY <1>2, <1>3, KeptName DEF KeysOk
<1> QED BY <1>2, <1>4 DEF KeysOk, R, ks

\* What stays is a forest.
LEMMA KeptRuns ==
    ASSUME NEW runs, NEW n, RunsOk(runs, n), NEW gone, Family(gone, runs)
    PROVE  RunsOk(Without(runs, gone), n)
<1> DEFINE R == Without(runs, gone)
<1>1. DOMAIN R = DOMAIN runs \ gone /\ \A x \in DOMAIN R : R[x] = runs[x]
  BY DEF Without
<1>2. R \in [DOMAIN R -> RunRow]
  BY DEF RunsOk, Without
<1> HIDE DEF R
<1>3. RunsOk(R, n)
  BY <1>1, <1>2 DEF RunsOk, Family
<1> QED BY <1>3 DEF R

\* A child that stays keeps its child run, so unlinking it changes
\* nothing and no other child goes.
LEMMA KeptKids ==
    ASSUME NEW kids, NEW runs, NEW n, RunsOk(runs, n), KidsOk(kids, runs), NEW gone, Family(gone, runs)
    PROVE  LET K == Without(kids, {k \in DOMAIN kids : k[1] \in gone \/ kids[k].run \in gone})
           IN  /\ K = [k \in {j \in DOMAIN kids : j[1] \notin gone} |-> Unlinked(kids[k], gone)]
               /\ KidsOk(K, Without(runs, gone))
<1> DEFINE cut == {k \in DOMAIN kids : k[1] \in gone \/ kids[k].run \in gone}
           K == Without(kids, cut)
           stay == {j \in DOMAIN kids : j[1] \notin gone}
           L == [k \in stay |-> Unlinked(kids[k], gone)]
           R == Without(runs, gone)
<1>1. 0 \notin gone
  BY DEF Family, RunsOk
<1>2. ASSUME NEW k \in DOMAIN kids, k[1] \notin gone PROVE kids[k].run \notin gone
  <2>1. CASE kids[k].run = 0
    BY <1>1, <2>1
  <2>2. CASE kids[k].run # 0
    <3>1. kids[k].run \in DOMAIN runs /\ runs[kids[k].run].parent = k[1] /\ k[1] \in DOMAIN runs
      BY <2>2 DEF KidsOk
    <3>2. k[1] # 0
      BY <3>1 DEF RunsOk
    <3> QED BY <1>2, <3>1, <3>2 DEF Family
  <2> QED BY <2>1, <2>2
<1>3. DOMAIN kids \ cut = stay
  BY <1>2
<1>4. \A k \in stay : Unlinked(kids[k], gone) = kids[k]
  <2> SUFFICES ASSUME NEW k \in stay PROVE Unlinked(kids[k], gone) = kids[k]
    OBVIOUS
  <2>1. kids[k] \in KidRow /\ kids[k].run \notin gone
    BY <1>2 DEF KidsOk
  <2> DEFINE row == kids[k]
  <2> HIDE DEF row
  <2>2. Unlinked(row, gone) = row
    BY <2>1 DEF Unlinked, KidRow, row
  <2> QED BY <2>2 DEF row
<1> HIDE DEF cut, stay
<1>5. K = L
  BY <1>3, <1>4 DEF Without
<1>6. DOMAIN K = stay /\ \A k \in stay : K[k] = kids[k]
  BY <1>3 DEF Without
<1>7. \A k \in stay : k \in DOMAIN kids /\ k[1] \notin gone
  BY DEF stay
<1>8. K \in [DOMAIN K -> KidRow]
  BY <1>3, <1>7 DEF KidsOk, Without
<1>9. DOMAIN R = DOMAIN runs \ gone /\ \A x \in DOMAIN R : R[x] = runs[x]
  BY DEF Without
<1> HIDE DEF K, R, L
<1>10. KidsOk(K, R)
  BY <1>2, <1>6, <1>7, <1>8, <1>9 DEF KidsOk
<1> QED BY <1>5, <1>10 DEF K, L, R, cut, stay

\* Deleting the same trees from both stores.
LEMMA DeletePair ==
    ASSUME NEW m, NEW p, Pair(m, p), NEW R, Family(RunTree(p, R), p.runs)
    PROVE  LET gone == RunTree(p, R)
           IN  /\ Pair(MemDeleteRunTrees(m, gone), PgDeleteRuns(p, R))
               /\ PgDeleteRuns(p, R).runs = Without(p.runs, gone)
<1> DEFINE gone == RunTree(p, R)
           runs == Without(p.runs, gone)
           leases == Without(p.leases, gone)
           nodes == Without(p.nodes, gone)
           attempts == Without(p.attempts, {a \in DOMAIN p.attempts : p.attempts[a].kid[1] \in gone})
           kids == Without(p.kids, {k \in DOMAIN p.kids : k[1] \in gone \/ p.kids[k].run \in gone})
           left == [k \in {j \in DOMAIN p.kids : j[1] \notin gone} |-> Unlinked(p.kids[k], gone)]
           keys == KeptKeys(m.keys, gone)
           e == MemDeleted(m, runs, leases, nodes, keys, attempts, kids)
           f == PgDeleted(p, runs, leases, nodes, attempts, kids)
<1>1. /\ m.runs = p.runs /\ m.nodes = p.nodes /\ m.kids = p.kids /\ m.attempts = p.attempts
      /\ m.leases = p.leases /\ m.ids = p.ids /\ IsStore(m) /\ IsStore(p)
      /\ RunsOk(p.runs, p.ids.run) /\ KidsOk(p.kids, p.runs) /\ NodesOk(p.nodes) /\ KeysOk(m.keys, p.runs)
      /\ p.ids.attempt \in Nat
  BY DEF Pair, Twin
<1>2. PgDeleteRuns(p, R) = PgDeleted(p, runs, leases, nodes, attempts, left)
  BY DEF PgDeleteRuns, PgDeleted
<1>3. MemDeleteRunTrees(m, gone) = e
  BY <1>1 DEF MemDeleteRunTrees, MemDeleted, KeptKeys, KeptKey
<1> HIDE DEF gone
<1>4. kids = left /\ KidsOk(kids, runs)
  BY <1>1, KeptKids DEF gone
<1>5. RunsOk(runs, p.ids.run)
  BY <1>1, KeptRuns DEF gone
<1>6. 0 \notin gone
  BY <1>1 DEF Family, RunsOk, gone
<1>7. IsKeys(keys) /\ KeysOk(keys, runs)
  BY <1>1, <1>6, KeptKeysOk
<1>8. NodesOk(nodes)
  BY <1>1 DEF NodesOk, Without
<1> HIDE DEF runs, leases, nodes, attempts, kids, keys, left
<1>9. /\ IsStore(e) /\ e.runs = runs /\ e.leases = leases /\ e.nodes = nodes /\ e.keys = keys
      /\ e.attempts = attempts /\ e.kids = kids /\ e.ids = m.ids
  BY <1>1, <1>7, MemDeletedFields
<1>10. /\ IsStore(f) /\ f.runs = runs /\ f.leases = leases /\ f.nodes = nodes
       /\ f.attempts = attempts /\ f.kids = kids /\ f.ids = p.ids
  BY <1>1, PgDeletedFields
<1> HIDE DEF e, f
<1>11. Twin(e, f)
  BY <1>1, <1>9, <1>10 DEF Twin
<1>12. Pair(e, f)
  BY <1>1, <1>4, <1>5, <1>7, <1>8, <1>9, <1>10, <1>11 DEF Pair
<1>13. PgDeleteRuns(p, R) = f
  BY <1>2, <1>4 DEF f
<1> QED BY <1>3, <1>10, <1>12, <1>13 DEF gone, runs

\* kept is the filtering of s, member by member.
PickedBy(s, S, kept) ==
    /\ Picked(s, S) = kept[Len(s)]
    /\ kept[0] = <<>>
    /\ \A n \in 1..Len(s) : kept[n] = IF s[n] \in S THEN Append(kept[n - 1], s[n]) ELSE kept[n - 1]

\* The filtering of a sequence is the function its equation says.
LEMMA PickedGrows ==
    ASSUME NEW s, NEW S, Len(s) \in Nat
    PROVE  \E kept : PickedBy(s, S, kept)
  <1> DEFINE N == Len(s)
             Put(k, n) == IF s[n] \in S THEN Append(k, s[n]) ELSE k
             Eq(g, m) == g = [n \in 0..m |-> IF n = 0 THEN <<>> ELSE Put(g[n - 1], n)]
             P == CHOOSE g : Eq(g, N)
  <1>2. Picked(s, S) = P[N]
    <2> DEFINE Q == CHOOSE g : g = [n \in 0..Len(s) |-> IF n = 0 THEN <<>>
                                      ELSE IF s[n] \in S THEN Append(g[n - 1], s[n]) ELSE g[n - 1]]
    <2>1. Picked(s, S) = Q[Len(s)]
      BY DEF Picked
    <2>2. Q = P
      OBVIOUS
    <2> QED BY <2>1, <2>2
  <1> HIDE DEF Put
  <1>3. \A m \in Nat : \E g : Eq(g, m)
    <2> DEFINE T == {m \in Nat : \E g : Eq(g, m)}
    <2>1. 0 \in T
      <3> DEFINE g == [i \in 0..0 |-> <<>>]
      <3>1. Eq(g, 0)
        OBVIOUS
      <3> QED BY <3>1
    <2>2. ASSUME NEW m \in Nat, m \in T PROVE m + 1 \in T
      <3>1. PICK g : Eq(g, m)
        BY <2>2
      <3> DEFINE h == [i \in 0..(m + 1) |-> IF i = m + 1 THEN Put(g[m], m + 1) ELSE g[i]]
      <3>2. \A i \in 0..m : h[i] = g[i]
        OBVIOUS
      <3>3. \A i \in 0..(m + 1) : h[i] = IF i = 0 THEN <<>> ELSE Put(h[i - 1], i)
        <4> TAKE i \in 0..(m + 1)
        <4>1. CASE i = m + 1
          BY <3>2, <4>1
        <4>2. CASE i # m + 1
          <5>1. i \in 0..m /\ h[i] = g[i] /\ (i # 0 => i - 1 \in 0..m)
            BY <4>2
          <5>2. g[i] = IF i = 0 THEN <<>> ELSE Put(g[i - 1], i)
            BY <3>1, <5>1
          <5>3. i # 0 => h[i - 1] = g[i - 1]
            BY <3>2, <5>1
          <5> HIDE DEF h
          <5> QED BY <5>1, <5>2, <5>3
        <4> QED BY <4>1, <4>2
      <3>4. Eq(h, m + 1)
        BY <3>3
      <3>5. \E f : Eq(f, m + 1)
        BY <3>4
      <3> QED BY <3>5
    <2> HIDE DEF T
    <2>3. \A m \in Nat : m \in T
      BY <2>1, <2>2, InductionOnSets
    <2> QED BY <2>3 DEF T
  <1>4. Eq(P, N)
    <2>1. \E g : Eq(g, N)
      BY <1>3
    <2> HIDE DEF Eq
    <2> QED BY <2>1
  <1> HIDE DEF P
  <1>5. P[0] = <<>> /\ \A n \in 1..N : P[n] = Put(P[n - 1], n)
    BY <1>4
  <1>6. PickedBy(s, S, P)
    BY <1>2, <1>5 DEF PickedBy, Put
  <1> QED BY <1>6

\* A filtered sequence has members of the set only.
LEMMA PickedType ==
    ASSUME NEW A, NEW s \in Seq(A), NEW S
    PROVE  Picked(s, S) \in Seq(A \cap S)
  <1>0. Len(s) \in Nat
    OBVIOUS
  <1>1. PICK kept : PickedBy(s, S, kept)
    BY <1>0, PickedGrows
  <1> DEFINE T == {n \in 0..Len(s) : kept[n] \in Seq(A \cap S)}
  <1>2. 0 \in T
    <2>1. <<>> \in Seq(A \cap S)
      OBVIOUS
    <2>2. kept[0] = <<>>
      BY <1>1 DEF PickedBy
    <2>3. kept[0] \in Seq(A \cap S)
      BY <2>1, <2>2
    <2>4. 0 \in 0..Len(s)
      BY <1>0
    <2> QED BY <2>3, <2>4
  <1>3. ASSUME NEW n \in 0..Len(s), n \in T, n < Len(s) PROVE n + 1 \in T
    <2>1. n + 1 \in 1..Len(s) /\ (n + 1) - 1 = n /\ s[n + 1] \in A
      BY <1>3
    <2>2. kept[n + 1] = IF s[n + 1] \in S THEN Append(kept[n], s[n + 1]) ELSE kept[n]
      BY <1>1, <2>1 DEF PickedBy
    <2>3. kept[n] \in Seq(A \cap S)
      BY <1>3
    <2>4. kept[n + 1] \in Seq(A \cap S)
      <3>1. CASE s[n + 1] \in S
        BY <2>1, <2>2, <2>3, <3>1
      <3>2. CASE s[n + 1] \notin S
        BY <2>2, <2>3, <3>2
      <3> QED BY <3>1, <3>2
    <2> QED BY <2>1, <2>4
  <1>4. Len(s) \in T
    <2> HIDE DEF T
    <2> QED BY <1>0, <1>2, <1>3, InductionUpTo
  <1> QED BY <1>1, <1>4 DEF PickedBy

\* Two sets that have the same members of a sequence filter it alike.
LEMMA PickedSame ==
    ASSUME NEW A, NEW s \in Seq(A), NEW S, NEW T, \A i \in 1..Len(s) : s[i] \in S <=> s[i] \in T
    PROVE  Picked(s, S) = Picked(s, T)
  <1>0. Len(s) \in Nat
    OBVIOUS
  <1>1. PICK f : PickedBy(s, S, f)
    BY <1>0, PickedGrows
  <1>2. PICK g : PickedBy(s, T, g)
    BY <1>0, PickedGrows
  <1> DEFINE E == {n \in 0..Len(s) : f[n] = g[n]}
  <1>3. 0 \in E
    BY <1>1, <1>2 DEF PickedBy
  <1>4. ASSUME NEW n \in 0..Len(s), n \in E, n < Len(s) PROVE n + 1 \in E
    <2>1. n + 1 \in 1..Len(s) /\ (n + 1) - 1 = n
      BY <1>4
    <2>2. f[n + 1] = IF s[n + 1] \in S THEN Append(f[n], s[n + 1]) ELSE f[n]
      BY <1>1, <2>1 DEF PickedBy
    <2>3. g[n + 1] = IF s[n + 1] \in T THEN Append(g[n], s[n + 1]) ELSE g[n]
      BY <1>2, <2>1 DEF PickedBy
    <2>4. f[n] = g[n]
      BY <1>4
    <2>5. f[n + 1] = g[n + 1]
      BY <2>1, <2>2, <2>3, <2>4
    <2> QED BY <2>1, <2>5
  <1>5. Len(s) \in E
    <2> HIDE DEF E
    <2> QED BY <1>0, <1>3, <1>4, InductionUpTo
  <1> QED BY <1>1, <1>2, <1>5 DEF PickedBy

-----------------------------------------------------------------------------
(* What a call leaves of the runs that have not ended.                     *)

Survive(p, q) ==
    \A r \in DOMAIN p.runs : p.runs[r].status \notin Terminal =>
        /\ r \in DOMAIN q.runs
        /\ p.runs[r].parent # 0 => p.runs[r].parent \in DOMAIN q.runs

Agreed(p, a, b) ==
    /\ Pair(a.db, b.db)
    /\ a.answer = b.answer
    /\ Survive(p, b.db)

\* A call that deletes no run.
LEMMA StepAgreed ==
    ASSUME NEW m, NEW p, Pair(m, p), NEW a, NEW b, InStep(p, a, b)
    PROVE  Agreed(p, a, b)
BY DEF InStep, Agreed, Survive, Pair, RunsOk

\* A deletion of whole trees that have ended.
LEMMA DeletionSurvived ==
    ASSUME NEW m, NEW p, Pair(m, p), NEW q, NEW gone, Family(gone, p.runs),
           \A x \in gone : p.runs[x].status \in Terminal,
           q.runs = Without(p.runs, gone)
    PROVE  Survive(p, q)
<1>1. DOMAIN q.runs = DOMAIN p.runs \ gone
  BY DEF Without
<1> QED BY <1>1 DEF Survive, Family, Pair, RunsOk

\* deleteRun: a root whose tree has ended, in both stores.
LEMMA DeleteStoredRunAgreed ==
    ASSUME NEW m, NEW p, Pair(m, p), NEW r \in DOMAIN p.runs
    PROVE  Agreed(p, DeleteStoredRun("mem", m, r), DeleteStoredRun("pg", p, r))
<1> DEFINE gone == RunTree(p, {r})
           a == DeleteStoredRun("mem", m, r)
           b == DeleteStoredRun("pg", p, r)
<1>1. m.runs = p.runs /\ RunsOk(p.runs, p.ids.run) /\ RunsOk(m.runs, p.ids.run)
  BY DEF Pair, Twin
<1>2. CASE p.runs[r].parent # 0
  <2>1. a = Throw(m) /\ b = Throw(p)
    BY <1>1, <1>2 DEF DeleteStoredRun
  <2> HIDE DEF a, b
  <2>2. InStep(p, a, b)
    BY <2>1, StillStep DEF Throw
  <2>3. Agreed(p, a, b)
    BY <2>2, StepAgreed
  <2> QED BY <2>3 DEF a, b
<1>3. CASE p.runs[r].parent = 0
  <2> DEFINE R == {r}
  <2>0. R \subseteq DOMAIN p.runs /\ R \subseteq DOMAIN m.runs /\ (\A x \in R : p.runs[x].parent = 0)
          /\ (\A x \in R : m.runs[x].parent = 0)
    BY <1>1, <1>3
  <2>1. Descendants(p, r) = gone /\ Descendants(m, r) = RunTree(m, {r})
    BY <1>1, <1>3, DescendantsAre
  <2> HIDE DEF R
  <2>2. RunTree(m, R) = {x \in DOMAIN m.runs : m.runs[x].root \in R}
    BY <1>1, <2>0, TreeIs
  <2>3. RunTree(p, R) = {x \in DOMAIN p.runs : p.runs[x].root \in R}
    BY <1>1, <2>0, TreeIs
  <2>4. Descendants(m, r) = gone
    BY <1>1, <2>1, <2>2, <2>3 DEF R
  <2>5. Family(RunTree(p, R), p.runs)
    BY <1>1, <2>0, TreeIsFamily
  <2>6. Family(gone, p.runs)
    BY <2>5 DEF R
  <2>7. CASE \E x \in gone : p.runs[x].status \notin Terminal
    <3>1. a = Throw(m) /\ b = Throw(p)
      BY <1>1, <1>3, <2>1, <2>4, <2>7 DEF DeleteStoredRun
    <3> HIDE DEF a, b
    <3>2. InStep(p, a, b)
      BY <3>1, StillStep DEF Throw
    <3>3. Agreed(p, a, b)
      BY <3>2, StepAgreed
    <3> QED BY <3>3 DEF a, b
  <2>8. CASE ~ \E x \in gone : p.runs[x].status \notin Terminal
    <3> DEFINE e == MemDeleteRunTrees(m, gone)
               f == PgDeleteRuns(p, {r})
    <3>1. a = Done(e, <<"deleted">>)
      BY <1>1, <1>3, <2>4, <2>8 DEF DeleteStoredRun
    <3>2. b = Done(f, <<"deleted">>)
      BY <1>1, <1>3, <2>1, <2>8 DEF DeleteStoredRun
    <3>3. Pair(MemDeleteRunTrees(m, RunTree(p, R)), PgDeleteRuns(p, R))
            /\ PgDeleteRuns(p, R).runs = Without(p.runs, RunTree(p, R))
      BY <2>5, DeletePair
    <3>4. Pair(e, f) /\ f.runs = Without(p.runs, gone)
      BY <3>3 DEF R
    <3>5. \A x \in gone : p.runs[x].status \in Terminal
      BY <2>8
    <3> HIDE DEF gone, e, f, a, b
    <3>6. Survive(p, f)
      BY <2>6, <3>4, <3>5, DeletionSurvived
    <3>7. Agreed(p, a, b)
      BY <3>1, <3>2, <3>4, <3>6 DEF Agreed, Done
    <3> QED BY <3>7 DEF a, b
  <2> QED BY <2>7, <2>8
<1> QED BY <1>2, <1>3

\* A batch of the roots that may go.
BatchOf(S, old, size) ==
    LET roots == Picked(old, S)
    IN  SubSeq(roots, 1, IF Len(roots) < size THEN Len(roots) ELSE size)

MemRoots(d) == {r \in DOMAIN d.runs : MemPrunable(d, r)}
PgRoots(d) == {r \in DOMAIN d.runs : PgPrunable(d, r)}

\* A batch has roots that may go.
LEMMA BatchIn ==
    ASSUME NEW A, NEW S, NEW old \in Seq(A), NEW size \in Nat
    PROVE  Range(BatchOf(S, old, size)) \subseteq S
<1> DEFINE roots == Picked(old, S)
           n == IF Len(roots) < size THEN Len(roots) ELSE size
           batch == SubSeq(roots, 1, n)
<1>1. roots \in Seq(A \cap S)
  BY PickedType
<1> HIDE DEF roots
<1>2. n \in 0..Len(roots)
  BY <1>1
<1>3. \A i \in 1..Len(roots) : roots[i] \in S
  BY <1>1
<1>4. batch = [i \in 1..n |-> roots[i]]
  BY <1>1, <1>2
<1> HIDE DEF batch, n
<1>5. \A i \in DOMAIN batch : batch[i] \in S
  BY <1>1, <1>2, <1>3, <1>4
<1>6. Range(batch) \subseteq S
  BY <1>5 DEF Range
<1> QED BY <1>6 DEF BatchOf, batch, n, roots

\* pruneTerminalRuns of Postgres deletes a batch.
LEMMA PgPruneIs ==
    ASSUME NEW d, NEW old, NEW size
    PROVE  LET B == BatchOf(PgRoots(d), old, size)
           IN  PruneTerminalRuns("pg", d, old, size) = Done(PgDeleteRuns(d, Range(B)), <<"deleted", Len(B)>>)
BY DEF PruneTerminalRuns, BatchOf, PgRoots, DeleteRuns

\* pruneTerminalRuns in memory deletes the trees of a batch.
LEMMA MemPruneIs ==
    ASSUME NEW d, NEW old, NEW size
    PROVE  LET B == BatchOf(MemRoots(d), old, size)
           IN  PruneTerminalRuns("mem", d, old, size) =
                   Done(MemDeleteRunTrees(d, RunTree(d, Range(B))), <<"deleted", Len(B)>>)
BY DEF PruneTerminalRuns, BatchOf, MemRoots, DeleteRuns

\* Retention of Postgres takes whole trees that have ended.
LEMMA PgPruneSurvived ==
    ASSUME NEW m, NEW p, Pair(m, p), NEW A, NEW old \in Seq(A), NEW size \in Nat
    PROVE  LET R == Range(BatchOf(PgRoots(p), old, size))
           IN  /\ R \subseteq DOMAIN p.runs /\ \A r \in R : p.runs[r].parent = 0
               /\ Family(RunTree(p, R), p.runs)
               /\ Survive(p, PruneTerminalRuns("pg", p, old, size).db)
<1> DEFINE B == BatchOf(PgRoots(p), old, size)
           R == Range(B)
           gone == RunTree(p, R)
           f == PgDeleteRuns(p, R)
<1>1. R \subseteq PgRoots(p)
  BY BatchIn
<1>2. RunsOk(p.runs, p.ids.run)
  BY DEF Pair
<1>3. PruneTerminalRuns("pg", p, old, size).db = f
  BY PgPruneIs DEF Done
<1> HIDE DEF B, R
<1>4. /\ R \subseteq DOMAIN p.runs /\ \A r \in R : p.runs[r].parent = 0
      /\ \A r \in R : \A x \in DOMAIN p.runs : p.runs[x].root = r => p.runs[x].status \in Terminal
  BY <1>1 DEF PgRoots, PgPrunable
<1>5. gone = {x \in DOMAIN p.runs : p.runs[x].root \in R}
  BY <1>2, <1>4, TreeIs
<1>6. Family(gone, p.runs)
  BY <1>2, <1>4, TreeIsFamily
<1>7. f.runs = Without(p.runs, gone)
  BY <1>6, DeletePair
<1>8. \A x \in gone : p.runs[x].status \in Terminal
  BY <1>4, <1>5
<1> HIDE DEF gone, f
<1>9. Survive(p, f)
  BY <1>6, <1>7, <1>8, DeletionSurvived
<1> QED BY <1>3, <1>4, <1>6, <1>9 DEF R, B, gone

\* Retention takes the same from both stores when no ended root has a live descendant.
LEMMA PruneTerminalRunsAgreed ==
    ASSUME NEW m, NEW p, Pair(m, p), NEW A, NEW old \in Seq(A), NEW size \in Nat,
           \A i \in DOMAIN old : MemPrunable(m, old[i]) => PgPrunable(p, old[i])
    PROVE  Agreed(p, PruneTerminalRuns("mem", m, old, size), PruneTerminalRuns("pg", p, old, size))
<1> DEFINE B == BatchOf(PgRoots(p), old, size)
           R == Range(B)
           e == MemDeleteRunTrees(m, RunTree(m, R))
           f == PgDeleteRuns(p, R)
           a == PruneTerminalRuns("mem", m, old, size)
           b == PruneTerminalRuns("pg", p, old, size)
<1>1. m.runs = p.runs /\ RunsOk(p.runs, p.ids.run) /\ RunsOk(m.runs, p.ids.run)
  BY DEF Pair, Twin
<1>2. \A i \in 1..Len(old) : old[i] \in PgRoots(p) <=> old[i] \in MemRoots(m)
  <2>1. DOMAIN old = 1..Len(old)
    OBVIOUS
  <2> QED BY <1>1, <2>1 DEF PgRoots, MemRoots, PgPrunable, MemPrunable
<1>3. Picked(old, PgRoots(p)) = Picked(old, MemRoots(m))
  BY <1>2, PickedSame
<1>4. BatchOf(MemRoots(m), old, size) = B
  BY <1>3 DEF BatchOf
<1>5. a = Done(e, <<"deleted", Len(B)>>) /\ b = Done(f, <<"deleted", Len(B)>>)
  BY <1>4, MemPruneIs, PgPruneIs
<1>6. /\ R \subseteq DOMAIN p.runs /\ \A r \in R : p.runs[r].parent = 0
      /\ Family(RunTree(p, R), p.runs)
      /\ Survive(p, b.db)
  BY PgPruneSurvived
<1> HIDE DEF B, R, a, b
<1>7. RunTree(m, R) = RunTree(p, R)
  <2>1. RunTree(p, R) = {x \in DOMAIN p.runs : p.runs[x].root \in R}
    BY <1>1, <1>6, TreeIs
  <2>2. R \subseteq DOMAIN m.runs /\ \A r \in R : m.runs[r].parent = 0
    BY <1>1, <1>6
  <2>3. RunTree(m, R) = {x \in DOMAIN m.runs : m.runs[x].root \in R}
    BY <1>1, <2>2, TreeIs
  <2> QED BY <1>1, <2>1, <2>3
<1>8. Pair(e, f)
  BY <1>6, <1>7, DeletePair
<1> HIDE DEF e, f
<1>9. Agreed(p, a, b)
  BY <1>5, <1>6, <1>8 DEF Agreed, Done
<1> QED BY <1>9 DEF a, b

-----------------------------------------------------------------------------
(* Reading.                                                                *)

\* A page, and the page cut out of one row more, of any list.
LEMMA PagesSame ==
    ASSUME NEW A, NEW F \in Seq(A), NEW limit \in Nat \ {0}, NEW offset \in Nat
    PROVE  LET page == SubSeq(F, offset + 1, Least(offset + limit, Len(F)))
               rows == SubSeq(F, offset + 1, Least(offset + limit + 1, Len(F)))
           IN  /\ page = SubSeq(rows, 1, Least(limit, Len(rows)))
               /\ (IF offset + Len(page) < Len(F) THEN offset + Len(page) ELSE 0)
                     = (IF Len(rows) > limit THEN offset + limit ELSE 0)
<1> DEFINE L == Len(F)
           x == Least(offset + limit, L)
           y == Least(offset + limit + 1, L)
           page == SubSeq(F, offset + 1, x)
           rows == SubSeq(F, offset + 1, y)
<1>1. L \in Nat /\ DOMAIN F = 1..L
  OBVIOUS
<1> HIDE DEF L
<1>2. x \in Nat /\ y \in Nat /\ x <= y /\ y <= L
  BY <1>1 DEF Least
<1> HIDE DEF x, y
<1>3. page = [i \in 1..(1 + x - (offset + 1)) |-> F[i + (offset + 1) - 1]]
  BY <1>2
<1>4. rows = [i \in 1..(1 + y - (offset + 1)) |-> F[i + (offset + 1) - 1]]
  BY <1>2
<1>5. CASE L <= offset
  <2>1. x <= offset /\ y <= offset
    BY <1>1, <1>5 DEF x, y, Least
  <2>2. page = <<>> /\ rows = <<>>
    BY <1>2, <1>3, <1>4, <2>1
  <2> HIDE DEF page, rows
  <2>3. Len(page) = 0 /\ Len(rows) = 0 /\ SubSeq(rows, 1, 0) = <<>>
    BY <2>2
  <2>4. Least(limit, 0) = 0
    BY DEF Least
  <2>5. /\ page = SubSeq(rows, 1, Least(limit, Len(rows)))
        /\ (IF offset + Len(page) < Len(F) THEN offset + Len(page) ELSE 0)
              = (IF Len(rows) > limit THEN offset + limit ELSE 0)
    BY <1>1, <1>5, <2>2, <2>3, <2>4 DEF L
  <2> QED BY <2>5 DEF page, rows, x, y, L
<1>6. CASE offset < L
  <2> DEFINE a == x - offset
             b == y - offset
  <2>1. a \in Nat /\ b \in Nat /\ a = Least(limit, b) /\ (b > limit <=> offset + limit < L)
          /\ (b > limit => a = limit)
        /\ (offset + a < L <=> offset + limit < L)
    BY <1>1, <1>6 DEF x, y, Least
  <2>2. page = [i \in 1..a |-> F[i + offset]]
    BY <1>1, <1>2, <1>3
  <2>3. rows = [i \in 1..b |-> F[i + offset]]
    BY <1>1, <1>2, <1>4
  <2> HIDE DEF page, rows, a, b
  <2>4. \A i \in 1..b : F[i + offset] \in A
    <3>1. \A i \in 1..b : i + offset \in 1..L
      BY <1>1, <1>2, <2>1 DEF b
    <3> QED BY <1>1, <3>1
  <2>5. rows \in Seq(A) /\ Len(rows) = b
    BY <2>1, <2>3, <2>4
  <2>6. a \in 0..b /\ Len(page) = a
    BY <2>1, <2>2 DEF Least
  <2>7. SubSeq(rows, 1, a) = [i \in 1..a |-> rows[i]]
    BY <2>5, <2>6
  <2>8. \A i \in 1..a : rows[i] = F[i + offset]
    BY <2>1, <2>3, <2>6
  <2>9. SubSeq(rows, 1, a) = page
    BY <2>2, <2>7, <2>8
  <2>10. /\ page = SubSeq(rows, 1, Least(limit, Len(rows)))
         /\ (IF offset + Len(page) < Len(F) THEN offset + Len(page) ELSE 0)
               = (IF Len(rows) > limit THEN offset + limit ELSE 0)
    BY <2>1, <2>5, <2>6, <2>9 DEF L
  <2> QED BY <2>10 DEF page, rows, x, y, L
<1>7. L <= offset \/ offset < L
  BY <1>1
<1> QED BY <1>5, <1>6, <1>7

Filtered(d, filter) == Picked(Newest(d), {r \in DOMAIN d.runs : RunMatchesFilter(d, r, filter)})

\* The filtered list of runs is a sequence.
LEMMA FilteredIsSeq ==
    ASSUME NEW d, NEW filter, d.ids.run \in Nat
    PROVE  Filtered(d, filter) \in Seq(Int)
<1> DEFINE n == d.ids.run
           down == [i \in 1..n |-> n + 1 - i]
           S == {r \in DOMAIN d.runs : RunMatchesFilter(d, r, filter)}
<1>1. down \in Seq(Int)
  OBVIOUS
<1>2. Newest(d) = Picked(down, DOMAIN d.runs)
  BY DEF Newest
<1> HIDE DEF down, S
<1>3. Picked(down, DOMAIN d.runs) \in Seq(Int \cap DOMAIN d.runs)
  BY <1>1, PickedType
<1>4. Newest(d) \in Seq(Int \cap DOMAIN d.runs)
  BY <1>2, <1>3
<1>5. Picked(Newest(d), S) \in Seq((Int \cap DOMAIN d.runs) \cap S)
  BY <1>4, PickedType
<1>6. Picked(Newest(d), S) \in Seq(Int)
  BY <1>5
<1> QED BY <1>6 DEF Filtered, S

\* listRuns and listRunSummaries give the same page and the same next offset.
LEMMA ListRunsSame ==
    ASSUME NEW m, NEW p, Pair(m, p), NEW filter, NEW limit \in Nat \ {0}, NEW offset \in Nat
    PROVE  MemListRuns(m, filter, limit, offset) = PgListRuns(p, filter, limit, offset)
<1> DEFINE F == Filtered(p, filter)
<1>1. m.runs = p.runs /\ m.ids = p.ids /\ p.ids.run \in Nat
  BY DEF Pair, Twin, RunsOk
<1>2. Newest(m) = Newest(p)
  BY <1>1 DEF Newest
<1>3. \A r : RunMatchesFilter(m, r, filter) = RunMatchesFilter(p, r, filter)
  BY <1>1 DEF RunMatchesFilter
<1>4. Filtered(m, filter) = F
  BY <1>1, <1>2, <1>3 DEF Filtered
<1>5. F \in Seq(Int)
  BY <1>1, FilteredIsSeq
<1> DEFINE page == SubSeq(F, offset + 1, Least(offset + limit, Len(F)))
           rows == SubSeq(F, offset + 1, Least(offset + limit + 1, Len(F)))
           cut == SubSeq(rows, 1, Least(limit, Len(rows)))
           x == IF offset + Len(page) < Len(F) THEN offset + Len(page) ELSE 0
           y == IF Len(rows) > limit THEN offset + limit ELSE 0
<1>6. MemListRuns(m, filter, limit, offset) = [runs |-> page, next |-> x]
  BY <1>4 DEF MemListRuns, Filtered
<1>7. PgListRuns(p, filter, limit, offset) = [runs |-> cut, next |-> y]
  BY DEF PgListRuns, Filtered
<1> HIDE DEF F
<1>8. page = cut /\ x = y
  BY <1>5, PagesSame
<1> HIDE DEF page, cut, x, y
<1> QED BY <1>6, <1>7, <1>8

\* The counted nodes of a run are the joined ones.
LEMMA SummarySame ==
    ASSUME NEW m, NEW p, Pair(m, p), NEW r
    PROVE  MemRunSummary(m, r) = PgRunSummary(p, r)
<1> DEFINE its == {n \in DOMAIN p.nodes : n = r}
           ended == {n \in its : p.nodes[n].status = "completed"}
<1>1. m.runs = p.runs /\ m.nodes = p.nodes
  BY DEF Pair, Twin
<1>2. Cardinality({}) = 0 /\ Cardinality({r}) = 1
  BY FS_EmptySet, FS_Singleton
<1>3. Cardinality(its) = IF r \in DOMAIN p.nodes THEN 1 ELSE 0
  <2>1. its = IF r \in DOMAIN p.nodes THEN {r} ELSE {}
    OBVIOUS
  <2> QED BY <1>2, <2>1
<1>4. Cardinality(ended) = IF r \in DOMAIN p.nodes THEN IF p.nodes[r].status = "completed" THEN 1 ELSE 0 ELSE 0
  <2>1. ended = IF r \in DOMAIN p.nodes THEN IF p.nodes[r].status = "completed" THEN {r} ELSE {} ELSE {}
    OBVIOUS
  <2> QED BY <1>2, <2>1
<1>5. MemRunSummary(m, r) = [run |-> p.runs[r], total |-> Cardinality(its), completed |-> Cardinality(ended)]
  BY <1>1 DEF MemRunSummary
<1> HIDE DEF its, ended
<1> QED BY <1>3, <1>4, <1>5 DEF PgRunSummary

\* loadRunSnapshot and loadNodeSnapshot.
LEMMA SnapshotSame ==
    ASSUME NEW m, NEW p, Pair(m, p), NEW r
    PROVE  LoadRunSnapshot(m, r) = LoadRunSnapshot(p, r) /\ LoadNodeSnapshot(m, r) = LoadNodeSnapshot(p, r)
<1>1. m.runs = p.runs /\ m.nodes = p.nodes /\ m.kids = p.kids /\ m.attempts = p.attempts
  BY DEF Pair, Twin
<1>2. LoadRunSnapshot(m, r) = LoadRunSnapshot(p, r)
  BY <1>1 DEF LoadRunSnapshot
<1> QED BY <1>1, <1>2 DEF LoadNodeSnapshot

\* loadRunDetail, with the child runs.
LEMMA RunDetailSame ==
    ASSUME NEW m, NEW p, Pair(m, p), NEW r
    PROVE  MemLoadRunDetail(m, r) = PgLoadRunDetail(p, r)
<1> DEFINE ids == {m.kids[k].run : k \in {j \in DOMAIN m.kids : j[1] = r}}
           C == {x \in DOMAIN m.runs : x \in ids}
           D == {x \in DOMAIN p.runs : \E k \in DOMAIN p.kids : k[1] = r /\ p.kids[k].run = x}
<1>1. m.runs = p.runs /\ m.kids = p.kids
  BY DEF Pair, Twin
<1>2. C = D
  BY <1>1
<1>3. \A c : MemRunSummary(m, c) = PgRunSummary(p, c)
  BY SummarySame
<1>4. LoadRunSnapshot(m, r) = LoadRunSnapshot(p, r)
  BY SnapshotSame
<1>5. MemLoadRunDetail(m, r) = <<MemRunSummary(m, r), LoadRunSnapshot(m, r), {MemRunSummary(m, c) : c \in C}>>
  BY DEF MemLoadRunDetail
<1>6. PgLoadRunDetail(p, r) = <<PgRunSummary(p, r), LoadRunSnapshot(p, r), {PgRunSummary(p, c) : c \in D}>>
  BY DEF PgLoadRunDetail
<1> HIDE DEF C, D
<1>7. {MemRunSummary(m, c) : c \in C} = {PgRunSummary(p, c) : c \in D}
  BY <1>2, <1>3
<1> QED BY <1>3, <1>4, <1>5, <1>6, <1>7

\* listRunFamily.
LEMMA FamilySame ==
    ASSUME NEW m, NEW p, Pair(m, p), NEW r \in DOMAIN p.runs
    PROVE  MemListRunFamily(m, r) = PgListRunFamily(p, r)
<1>1. m.runs = p.runs
  BY DEF Pair, Twin
<1> QED BY <1>1 DEF MemListRunFamily, PgListRunFamily

-----------------------------------------------------------------------------
(* The stores.                                                             *)

StoreInv == ~pruned => same /\ Pair(mem, pg)

Kept == same' /\ Pair(mem', pg') /\ Survive(pg, pg')

\* The empty stores are a pair.
LEMMA StoreInitInv == StoreInit => StoreInv
<1> SUFFICES ASSUME StoreInit PROVE Pair(EmptyStore, EmptyStore) /\ same /\ mem = EmptyStore /\ pg = EmptyStore
  BY DEF StoreInv
<1>1. /\ EmptyStore.runs = <<>> /\ EmptyStore.nodes = <<>> /\ EmptyStore.kids = <<>>
      /\ EmptyStore.ids.run = 0 /\ EmptyStore.ids.attempt = 0
      /\ EmptyStore.keys.idem = 0 /\ EmptyStore.keys.active = 0 /\ EmptyStore.keys.all = 0
  BY DEF EmptyStore
<1>2. Twin(EmptyStore, EmptyStore)
  BY DEF Twin, IsStore, StoreFields, EmptyStore
<1>3. DOMAIN <<>> = {} /\ \A S : <<>> \in [{} -> S]
  OBVIOUS
<1>4. RunsOk(<<>>, 0) /\ NodesOk(<<>>) /\ KidsOk(<<>>, <<>>)
  BY <1>3, StoreAssumption DEF RunsOk, NodesOk, KidsOk
<1>5. KeysOk(EmptyStore.keys, <<>>)
  BY <1>1, <1>3 DEF KeysOk, Names, HasIdem, HasActive, HasAll
<1>6. Pair(EmptyStore, EmptyStore)
  BY <1>1, <1>2, <1>4, <1>5 DEF Pair
<1> QED BY <1>6 DEF StoreInit

\* The calls on a run.
LEMMA CallRunKept ==
    ASSUME same, Pair(mem, pg), NEW r \in DOMAIN pg.runs, CallRun(r)
    PROVE  Kept
<1>1. CASE \E to \in {"running", "waiting", "cancelling"} \cup Terminal : Both(LAMBDA s, d : SetRun(s, d, r, to))
  <2>1. PICK to \in {"running", "waiting", "cancelling"} \cup Terminal : Both(LAMBDA s, d : SetRun(s, d, r, to))
    BY <1>1
  <2> DEFINE a == SetRun("mem", mem, r, to)
             b == SetRun("pg", pg, r, to)
  <2>2. mem' = a.db /\ pg' = b.db /\ same' = (same /\ a.answer = b.answer)
    BY <2>1 DEF Both
  <2>3. InStep(pg, a, b)
    BY SetRunStep
  <2> HIDE DEF a, b
  <2>4. Agreed(pg, a, b)
    BY <2>3, StepAgreed
  <2> QED BY <2>2, <2>4 DEF Kept, Agreed
<1>2. CASE Both(LAMBDA s, d : CancelNonTerminalRunNodes(s, d, r))
  <2> DEFINE a == CancelNonTerminalRunNodes("mem", mem, r)
             b == CancelNonTerminalRunNodes("pg", pg, r)
  <2>1. mem' = a.db /\ pg' = b.db /\ same' = (same /\ a.answer = b.answer)
    BY <1>2 DEF Both
  <2>2. InStep(pg, a, b)
    BY CancelNonTerminalRunNodesStep
  <2> HIDE DEF a, b
  <2>3. Agreed(pg, a, b)
    BY <2>2, StepAgreed
  <2> QED BY <2>1, <2>3 DEF Kept, Agreed
<1> QED BY <1>1, <1>2 DEF CallRun

\* The calls on a node.
LEMMA CallNodeKept ==
    ASSUME same, Pair(mem, pg), NEW r \in DOMAIN pg.runs, CallNode(r)
    PROVE  Kept
<1>1. CASE Both(LAMBDA s, d : CreateNode(d, r))
  <2> DEFINE a == CreateNode(mem, r)
             b == CreateNode(pg, r)
  <2>1. mem' = a.db /\ pg' = b.db /\ same' = (same /\ a.answer = b.answer)
    BY <1>1 DEF Both
  <2>2. InStep(pg, a, b)
    BY CreateNodeStep
  <2> HIDE DEF a, b
  <2>3. Agreed(pg, a, b)
    BY <2>2, StepAgreed
  <2> QED BY <2>1, <2>3 DEF Kept, Agreed
<1>2. CASE Both(LAMBDA s, d : SetNodeInput(d, r))
  <2> DEFINE a == SetNodeInput(mem, r)
             b == SetNodeInput(pg, r)
  <2>1. mem' = a.db /\ pg' = b.db /\ same' = (same /\ a.answer = b.answer)
    BY <1>2 DEF Both
  <2>2. InStep(pg, a, b)
    BY SetNodeInputStep
  <2> HIDE DEF a, b
  <2>3. Agreed(pg, a, b)
    BY <2>2, StepAgreed
  <2> QED BY <2>1, <2>3 DEF Kept, Agreed
<1>3. CASE \E case \in {1, 2} : Both(LAMBDA s, d : SelectNodeCase(d, r, case))
  <2>1. PICK case \in {1, 2} : Both(LAMBDA s, d : SelectNodeCase(d, r, case))
    BY <1>3
  <2> DEFINE a == SelectNodeCase(mem, r, case)
             b == SelectNodeCase(pg, r, case)
  <2>2. mem' = a.db /\ pg' = b.db /\ same' = (same /\ a.answer = b.answer)
    BY <2>1 DEF Both
  <2>3. InStep(pg, a, b)
    BY SelectNodeCaseStep
  <2> HIDE DEF a, b
  <2>4. Agreed(pg, a, b)
    BY <2>3, StepAgreed
  <2> QED BY <2>2, <2>4 DEF Kept, Agreed
<1>4. CASE \E to \in {"waiting"} \cup Terminal : Both(LAMBDA s, d : SetNode(s, d, r, to))
  <2>1. PICK to \in {"waiting"} \cup Terminal : Both(LAMBDA s, d : SetNode(s, d, r, to))
    BY <1>4
  <2> DEFINE a == SetNode("mem", mem, r, to)
             b == SetNode("pg", pg, r, to)
  <2>2. mem' = a.db /\ pg' = b.db /\ same' = (same /\ a.answer = b.answer)
    BY <2>1 DEF Both
  <2>3. InStep(pg, a, b)
    BY SetNodeStep
  <2> HIDE DEF a, b
  <2>4. Agreed(pg, a, b)
    BY <2>3, StepAgreed
  <2> QED BY <2>2, <2>4 DEF Kept, Agreed
<1>5. CASE \E K \in SUBSET Keys \ {{}} : Both(LAMBDA s, d : EnsureNodeChildren(d, r, K))
  <2>1. PICK K \in SUBSET Keys \ {{}} : Both(LAMBDA s, d : EnsureNodeChildren(d, r, K))
    BY <1>5
  <2> DEFINE a == EnsureNodeChildren(mem, r, K)
             b == EnsureNodeChildren(pg, r, K)
  <2>2. mem' = a.db /\ pg' = b.db /\ same' = (same /\ a.answer = b.answer)
    BY <2>1 DEF Both
  <2>3. InStep(pg, a, b)
    BY EnsureNodeChildrenStep
  <2> HIDE DEF a, b
  <2>4. Agreed(pg, a, b)
    BY <2>3, StepAgreed
  <2> QED BY <2>2, <2>4 DEF Kept, Agreed
<1> QED BY <1>1, <1>2, <1>3, <1>4, <1>5 DEF CallNode

\* The calls on a run's lease.
LEMMA CallLeaseKept ==
    ASSUME same, Pair(mem, pg), NEW r, CallLease(r)
    PROVE  Kept
<1>1. CASE Both(LAMBDA s, d : AcquireRunLease(d, r))
  <2> DEFINE a == AcquireRunLease(mem, r)
             b == AcquireRunLease(pg, r)
  <2>1. mem' = a.db /\ pg' = b.db /\ same' = (same /\ a.answer = b.answer)
    BY <1>1 DEF Both
  <2>2. InStep(pg, a, b)
    BY AcquireRunLeaseStep
  <2> HIDE DEF a, b
  <2>3. Agreed(pg, a, b)
    BY <2>2, StepAgreed
  <2> QED BY <2>1, <2>3 DEF Kept, Agreed
<1>2. CASE \E t \in 1..MaxTokens : Both(LAMBDA s, d : RenewRunLease(d, r, t))
  <2>1. PICK t \in 1..MaxTokens : Both(LAMBDA s, d : RenewRunLease(d, r, t))
    BY <1>2
  <2> DEFINE a == RenewRunLease(mem, r, t)
             b == RenewRunLease(pg, r, t)
  <2>2. mem' = a.db /\ pg' = b.db /\ same' = (same /\ a.answer = b.answer)
    BY <2>1 DEF Both
  <2>3. InStep(pg, a, b)
    BY RenewRunLeaseStep
  <2> HIDE DEF a, b
  <2>4. Agreed(pg, a, b)
    BY <2>3, StepAgreed
  <2> QED BY <2>2, <2>4 DEF Kept, Agreed
<1>3. CASE \E t \in 1..MaxTokens : Both(LAMBDA s, d : ReleaseRunLease(d, r, t))
  <2>1. PICK t \in 1..MaxTokens : Both(LAMBDA s, d : ReleaseRunLease(d, r, t))
    BY <1>3
  <2> DEFINE a == ReleaseRunLease(mem, r, t)
             b == ReleaseRunLease(pg, r, t)
  <2>2. mem' = a.db /\ pg' = b.db /\ same' = (same /\ a.answer = b.answer)
    BY <2>1 DEF Both
  <2>3. InStep(pg, a, b)
    BY ReleaseRunLeaseStep
  <2> HIDE DEF a, b
  <2>4. Agreed(pg, a, b)
    BY <2>3, StepAgreed
  <2> QED BY <2>2, <2>4 DEF Kept, Agreed
<1>4. CASE Both(LAMBDA s, d : RunLeaseExpires(d, r))
  <2> DEFINE a == RunLeaseExpires(mem, r)
             b == RunLeaseExpires(pg, r)
  <2>1. mem' = a.db /\ pg' = b.db /\ same' = (same /\ a.answer = b.answer)
    BY <1>4 DEF Both
  <2>2. InStep(pg, a, b)
    BY RunLeaseExpiresStep
  <2> HIDE DEF a, b
  <2>3. Agreed(pg, a, b)
    BY <2>2, StepAgreed
  <2> QED BY <2>1, <2>3 DEF Kept, Agreed
<1> QED BY <1>1, <1>2, <1>3, <1>4 DEF CallLease

\* The calls on an attempt.
LEMMA CallAttemptKept ==
    ASSUME same, Pair(mem, pg), NEW x, CallAttempt(x)
    PROVE  Kept
<1>1. CASE \E to \in {"completed", "failed", "timedOut"} : Both(LAMBDA s, d : SettleCurrentAttempt(d, x, to))
  <2>1. PICK to \in {"completed", "failed", "timedOut"} : Both(LAMBDA s, d : SettleCurrentAttempt(d, x, to))
    BY <1>1
  <2> DEFINE a == SettleCurrentAttempt(mem, x, to)
             b == SettleCurrentAttempt(pg, x, to)
  <2>2. mem' = a.db /\ pg' = b.db /\ same' = (same /\ a.answer = b.answer)
    BY <2>1 DEF Both
  <2>3. InStep(pg, a, b)
    BY SettleCurrentAttemptStep
  <2> HIDE DEF a, b
  <2>4. Agreed(pg, a, b)
    BY <2>3, StepAgreed
  <2> QED BY <2>2, <2>4 DEF Kept, Agreed
<1> QED BY <1>1 DEF CallAttempt

\* The calls on a child.
LEMMA CallChildKept ==
    ASSUME same, Pair(mem, pg), NEW r \in DOMAIN pg.runs, NEW key, CallChild(<<r, key>>)
    PROVE  Kept
<1> DEFINE k == <<r, key>>
<1>1. pg.ids.run = mem.ids.run
  BY DEF Pair, Twin
<1>2. CASE \E to \in {"completed", "failed"} : Both(LAMBDA s, d : SetKid(s, d, k, to))
  <2>1. PICK to \in {"completed", "failed"} : Both(LAMBDA s, d : SetKid(s, d, k, to))
    BY <1>2
  <2> DEFINE a == SetKid("mem", mem, k, to)
             b == SetKid("pg", pg, k, to)
  <2>2. mem' = a.db /\ pg' = b.db /\ same' = (same /\ a.answer = b.answer)
    BY <2>1 DEF Both
  <2>3. InStep(pg, a, b)
    BY SetKidStep DEF Terminal
  <2> HIDE DEF a, b
  <2>4. Agreed(pg, a, b)
    BY <2>3, StepAgreed
  <2> QED BY <2>2, <2>4 DEF Kept, Agreed
<1>3. CASE \E input \in {1, 2}, idem \in BOOLEAN : mem.ids.run < MaxRuns
        /\ Both(LAMBDA s, d : EnsureChildRun(s, d, k, [input |-> input, idem |-> idem]))
  <2>1. PICK input \in {1, 2}, idem \in BOOLEAN : mem.ids.run < MaxRuns
          /\ Both(LAMBDA s, d : EnsureChildRun(s, d, k, [input |-> input, idem |-> idem]))
    BY <1>3
  <2> DEFINE a == EnsureChildRun("mem", mem, k, [input |-> input, idem |-> idem])
             b == EnsureChildRun("pg", pg, k, [input |-> input, idem |-> idem])
  <2>2. mem' = a.db /\ pg' = b.db /\ same' = (same /\ a.answer = b.answer)
    BY <2>1 DEF Both
  <2>3. InStep(pg, a, b)
    BY <1>1, <2>1, EnsureChildRunStep
  <2> HIDE DEF a, b
  <2>4. Agreed(pg, a, b)
    BY <2>3, StepAgreed
  <2> QED BY <2>2, <2>4 DEF Kept, Agreed
<1>4. CASE Both(LAMBDA s, d : CreateAttempt(s, d, k))
  <2> DEFINE a == CreateAttempt("mem", mem, k)
             b == CreateAttempt("pg", pg, k)
  <2>1. mem' = a.db /\ pg' = b.db /\ same' = (same /\ a.answer = b.answer)
    BY <1>4 DEF Both
  <2>2. InStep(pg, a, b)
    BY CreateAttemptStep
  <2> HIDE DEF a, b
  <2>3. Agreed(pg, a, b)
    BY <2>2, StepAgreed
  <2> QED BY <2>1, <2>3 DEF Kept, Agreed
<1>5. CASE Both(LAMBDA s, d : EnsureChildAttempt(s, d, k))
  <2> DEFINE a == EnsureChildAttempt("mem", mem, k)
             b == EnsureChildAttempt("pg", pg, k)
  <2>1. mem' = a.db /\ pg' = b.db /\ same' = (same /\ a.answer = b.answer)
    BY <1>5 DEF Both
  <2>2. InStep(pg, a, b)
    BY EnsureChildAttemptStep
  <2> HIDE DEF a, b
  <2>3. Agreed(pg, a, b)
    BY <2>2, StepAgreed
  <2> QED BY <2>1, <2>3 DEF Kept, Agreed
<1> QED BY <1>2, <1>3, <1>4, <1>5 DEF CallChild

\* The deletion of a run.
LEMMA CallDeleteRunKept ==
    ASSUME same, Pair(mem, pg), NEW r \in DOMAIN pg.runs, CallDeleteRun(r)
    PROVE  Kept
<1>1. CASE Both(LAMBDA s, d : DeleteStoredRun(s, d, r))
  <2> DEFINE a == DeleteStoredRun("mem", mem, r)
             b == DeleteStoredRun("pg", pg, r)
  <2>1. mem' = a.db /\ pg' = b.db /\ same' = (same /\ a.answer = b.answer)
    BY <1>1 DEF Both
  <2>2. Agreed(pg, a, b)
    BY DeleteStoredRunAgreed
  <2> HIDE DEF a, b
  <2> QED BY <2>1, <2>2 DEF Kept, Agreed
<1> QED BY <1>1 DEF CallDeleteRun

\* The creation of a root run.
LEMMA CallCreateRunKept ==
    ASSUME same, Pair(mem, pg), CallCreateRun
    PROVE  Kept
<1>1. PICK input \in {1, 2}, idem \in BOOLEAN, scope \in Scopes, join \in BOOLEAN :
        Both(LAMBDA s, d : CreateRunWithState(s, d,
                [input |-> input, idem |-> idem, scope |-> scope, join |-> join, parent |-> 0, root |-> 0]))
  BY DEF CallCreateRun
<1> DEFINE in == [input |-> input, idem |-> idem, scope |-> scope, join |-> join, parent |-> 0, root |-> 0]
           a == CreateRunWithState("mem", mem, in)
           b == CreateRunWithState("pg", pg, in)
<1>2. mem' = a.db /\ pg' = b.db /\ same' = (same /\ a.answer = b.answer)
  BY <1>1 DEF Both
<1>3. pg.ids.run < MaxRuns
  BY DEF CallCreateRun, Pair, Twin
<1>4. in \in CreateInput /\ HasParent(pg, in)
  BY DEF CreateInput, HasParent
<1> HIDE DEF in
<1>5. Created(pg, in, a, b)
  BY <1>3, <1>4, CreateRunStep
<1> HIDE DEF a, b
<1>6. Agreed(pg, a, b)
  BY <1>5, StepAgreed DEF Created
<1> QED BY <1>2, <1>6 DEF Kept, Agreed

\* Retention: whatever it meets, Postgres keeps what has not ended; and
\* the stores stay together unless a root with a live descendant was met.
LEMMA CallPruneKept ==
    ASSUME same, Pair(mem, pg), CallPruneTerminalRuns
    PROVE  Survive(pg, pg') /\ (~pruned' => Kept)
<1>1. PICK old \in Orders(DOMAIN mem.runs), size \in {1, MaxRuns} :
        /\ Both(LAMBDA s, d : PruneTerminalRuns(s, d, old, size))
        /\ pruned' = (pruned \/ \E i \in DOMAIN old : MemPrunable(mem, old[i]) /\ ~PgPrunable(pg, old[i]))
  BY DEF CallPruneTerminalRuns
<1> DEFINE a == PruneTerminalRuns("mem", mem, old, size)
           b == PruneTerminalRuns("pg", pg, old, size)
<1>2. mem' = a.db /\ pg' = b.db /\ same' = (same /\ a.answer = b.answer)
  BY <1>1 DEF Both
<1>3. size \in Nat
  BY StoreAssumption
<1>4. old \in Seq(DOMAIN mem.runs)
  <2>1. PICK n \in 0..Cardinality(DOMAIN mem.runs) : old \in [1..n -> DOMAIN mem.runs]
    BY <1>1 DEF Orders
  <2>2. n \in Nat
    OBVIOUS
  <2> QED BY <2>1, <2>2
<1>5. Survive(pg, b.db)
  BY <1>3, <1>4, PgPruneSurvived
<1>6. ASSUME ~pruned' PROVE Agreed(pg, a, b)
  <2>1. \A i \in DOMAIN old : MemPrunable(mem, old[i]) => PgPrunable(pg, old[i])
    BY <1>1, <1>6
  <2> QED BY <1>3, <1>4, <2>1, PruneTerminalRunsAgreed
<1> HIDE DEF a, b
<1> QED BY <1>2, <1>5, <1>6 DEF Kept, Agreed

\* Every call.
LEMMA StoreNextKept ==
    ASSUME StoreInv, StoreNext
    PROVE  StoreInv' /\ Survive(pg, pg')
<1>1. ~pruned /\ same /\ Pair(mem, pg)
  BY DEF StoreInv, StoreNext
<1>2. CASE CallPruneTerminalRuns
  BY <1>1, <1>2, CallPruneKept DEF StoreInv, Kept
<1>3. CASE CallCreateRun
  BY <1>1, <1>3, CallCreateRunKept DEF StoreInv, Kept
<1>4. CASE \E r \in DOMAIN mem.runs \cap DOMAIN pg.runs :
             \/ CallRun(r) \/ CallNode(r) \/ CallLease(r) \/ CallDeleteRun(r)
             \/ \E key \in Keys : CallChild(<<r, key>>)
  <2>1. PICK r \in DOMAIN pg.runs :
             \/ CallRun(r) \/ CallNode(r) \/ CallLease(r) \/ CallDeleteRun(r)
             \/ \E key \in Keys : CallChild(<<r, key>>)
    BY <1>4
  <2>2. Kept
    BY <1>1, <2>1, CallRunKept, CallNodeKept, CallLeaseKept, CallDeleteRunKept, CallChildKept
  <2> QED BY <2>2 DEF StoreInv, Kept
<1>5. CASE \E a \in DOMAIN mem.attempts \cap DOMAIN pg.attempts : CallAttempt(a)
  BY <1>1, <1>5, CallAttemptKept DEF StoreInv, Kept
<1> QED BY <1>2, <1>3, <1>4, <1>5 DEF StoreNext

\* Stores that are a pair hold the same and read the same.
LEMMA StoreInvAgrees == StoreInv => StoresAgree
<1> SUFFICES ASSUME StoreInv, ~pruned PROVE StoresAgree
  BY DEF StoresAgree, RowsAndAnswersAgree, ReadsAgree
<1>1. same /\ Pair(mem, pg) /\ mem.runs = pg.runs
  BY DEF StoreInv, Pair, Twin
<1>2. RowsAndAnswersAgree
  BY <1>1 DEF RowsAndAnswersAgree, StoredRows, Pair, Twin, IsStore, StoreFields
<1>3. \A filter \in {"any", "terminal", "roots", "family"}, limit \in 1..3, offset \in 0..MaxRuns :
        MemListRuns(mem, filter, limit, offset) = PgListRuns(pg, filter, limit, offset)
  <2> TAKE filter \in {"any", "terminal", "roots", "family"}, limit \in 1..3, offset \in 0..MaxRuns
  <2>1. limit \in Nat \ {0} /\ offset \in Nat
    OBVIOUS
  <2> QED BY <1>1, <2>1, ListRunsSame
<1>4. \A r \in DOMAIN mem.runs :
        /\ MemLoadRunDetail(mem, r) = PgLoadRunDetail(pg, r)
        /\ LoadNodeSnapshot(mem, r) = LoadNodeSnapshot(pg, r)
        /\ MemListRunFamily(mem, r) = PgListRunFamily(pg, r)
  BY <1>1, RunDetailSame, SnapshotSame, FamilySame
<1> QED BY <1>2, <1>3, <1>4 DEF StoresAgree, ReadsAgree

\* For any number of runs, child keys, attempts and leases, the in-memory
\* store (runtime/in-memory.ts) and the Postgres store
\* (adapters/postgres/store-*.ts) that received the same calls hold the
\* same rows, gave the same answers and read the same, until retention
\* meets an ended root with a live descendant.
THEOREM StoresStayInLockstep == StoreSpec => []StoresAgree
<1>1. StoreInit => StoreInv
  BY StoreInitInv
<1>2. StoreInv /\ [StoreNext]_storeVars => StoreInv'
  <2>1. ASSUME StoreInv, UNCHANGED storeVars PROVE StoreInv'
    BY <2>1 DEF StoreInv, storeVars
  <2> QED BY <2>1, StoreNextKept
<1>3. StoreInv => StoresAgree
  BY StoreInvAgrees
<1> QED BY <1>1, <1>2, <1>3, PTL DEF StoreSpec

\* Retention and deletion of the Postgres store never take a run that has
\* not ended, nor its parent (pruneTerminalRuns, deleteRun of
\* store-runs.ts with the foreign keys of drizzle.ts).
THEOREM LiveRunsSurviveInPostgres == StoreSpec => PgLiveRunsSurvive
<1>1. StoreInit => StoreInv
  BY StoreInitInv
<1>2. StoreInv /\ [StoreNext]_storeVars => StoreInv'
  <2>1. ASSUME StoreInv, UNCHANGED storeVars PROVE StoreInv'
    BY <2>1 DEF StoreInv, storeVars
  <2> QED BY <2>1, StoreNextKept
<1>3. StoreInv /\ [StoreNext]_storeVars =>
        [\A r \in DOMAIN pg.runs : pg.runs[r].status \notin Terminal =>
           /\ r \in DOMAIN pg.runs'
           /\ pg.runs[r].parent # 0 => pg.runs[r].parent \in DOMAIN pg.runs']_storeVars
  <2>1. ASSUME StoreInv, StoreNext PROVE Survive(pg, pg')
    BY <2>1, StoreNextKept
  <2> QED BY <2>1 DEF Survive
<1> QED BY <1>1, <1>2, <1>3, PTL DEF StoreSpec, PgLiveRunsSurvive
=============================================================================
