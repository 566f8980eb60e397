------------------------ MODULE CommandTableProofs ------------------------
(***************************************************************************)
(* What the statements on workflow_commands preserve, for every table: the *)
(* lemmas that the proofs about the state machines cite.                   *)
(***************************************************************************)
EXTENDS CommandTable, TLAPS

(***************************************************************************)
(* The counter and the two flags of a row agree.                           *)
(***************************************************************************)
SoundRow(row) ==
    /\ row.dead <=> row.deliveries >= MaxDeliveries
    /\ row.reaped => row.dead

Sound(t) == \A c \in Rows(t) : SoundRow(t[c])

-----------------------------------------------------------------------------
(***************************************************************************)
(* A new row is well formed.                                               *)
(***************************************************************************)
LEMMA NewRowSound ==
    ASSUME NEW s \in Subjects, NEW now \in BOOLEAN
    PROVE  /\ NewRow(s, now) \in Row /\ SoundRow(NewRow(s, now))
           /\ NewRow(s, now).subject = s /\ NewRow(s, now).token = None
           /\ NewRow(s, now) # None
<1>1. NewRow(s, now) \in Row
  BY MaxDeliveriesAssumption DEF NewRow, Row, MaxDeliveriesAssumption
<1>2. SoundRow(NewRow(s, now))
  BY MaxDeliveriesAssumption DEF NewRow, SoundRow, MaxDeliveriesAssumption
<1>3. NewRow(s, now).subject = s /\ NewRow(s, now).token = None
  BY DEF NewRow
<1>. QED  BY <1>1, <1>2, <1>3, NoneAssumption DEF NoneAssumption

(***************************************************************************)
(* Counting a failed delivery of a live row keeps the counter within the   *)
(* threshold and sets dead exactly when it is reached.                     *)
(***************************************************************************)
LEMMA CountedSound ==
    ASSUME NEW row \in Row, SoundRow(row), ~row.dead
    PROVE  /\ Counted(row) \in Row /\ SoundRow(Counted(row))
           /\ Counted(row).subject = row.subject
           /\ Counted(row).token = row.token
<1>. USE MaxDeliveriesAssumption DEF MaxDeliveriesAssumption
<1>1. row.deliveries \in 0..MaxDeliveries /\ row.deliveries < MaxDeliveries
  BY DEF Row, SoundRow
<1>a. row.deliveries + 1 \in 0..MaxDeliveries
  BY <1>1
<1>b. (row.dead \/ AtDeadLetterThreshold(row)) \in BOOLEAN
  BY Zenon DEF AtDeadLetterThreshold
<1>2. Counted(row) \in Row
  BY <1>a, <1>b DEF Counted, Row
<1>3. /\ Counted(row).deliveries = row.deliveries + 1
      /\ Counted(row).dead = (row.dead \/ AtDeadLetterThreshold(row))
      /\ Counted(row).reaped = row.reaped
      /\ Counted(row).subject = row.subject
      /\ Counted(row).token = row.token
  BY DEF Counted, Row
<1>4. SoundRow(Counted(row))
  BY <1>1, <1>3 DEF SoundRow, AtDeadLetterThreshold
<1>. QED  BY <1>2, <1>3, <1>4

(***************************************************************************)
(* The rows of a table are Row records.                                    *)
(***************************************************************************)
LEMMA RowsAreRows ==
    ASSUME NEW t \in Table, NEW c \in Rows(t)
    PROVE  c \in CommandIds /\ t[c] \in Row
BY DEF Rows, Table

(***************************************************************************)
(* insertContinueCommand keeps the table well formed and every row with    *)
(* its subject and token, and leaves a row of the run that has no lease.   *)
(***************************************************************************)
LEMMA InsertContinueSound ==
    ASSUME NEW t \in Table, Sound(t), NEW c \in CommandIds, NEW r \in Runs,
           NEW now \in BOOLEAN,
           InDedupIndex(t, r) # {} \/ c \notin Rows(t),
           NEW u, u = InsertContinue(t, c, r, now)
    PROVE  /\ u \in Table /\ Sound(u)
           /\ \A d \in Rows(t) : /\ d \in Rows(u)
                                 /\ u[d].subject = t[d].subject
                                 /\ u[d].token = t[d].token
                                 /\ u[d].dead = t[d].dead
           /\ \A d \in Rows(u) \ Rows(t) : u[d].token = None
           /\ InDedupIndex(u, r) # {}
<1>1. CASE InDedupIndex(t, r) # {}
  <2>1. \A d \in CommandIds : u[d] = IF d \in InDedupIndex(t, r)
                                     THEN [t[d] EXCEPT !.due = @ \/ now] ELSE t[d]
    BY <1>1 DEF InsertContinue
  <2>2. ASSUME NEW d \in InDedupIndex(t, r)
        PROVE  /\ d \in CommandIds /\ u[d] \in Row /\ u[d] # None
               /\ u[d].subject = t[d].subject /\ u[d].token = t[d].token
               /\ u[d].dead = t[d].dead /\ SoundRow(u[d])
    <3>1. d \in CommandIds /\ t[d] \in Row /\ SoundRow(t[d])
      BY RowsAreRows DEF InDedupIndex, Sound
    <3>2. (t[d].due \/ now) \in BOOLEAN
      BY Zenon
    <3>3. u[d] = [t[d] EXCEPT !.due = t[d].due \/ now]
      BY <2>1, <3>1
    <3>4. u[d] \in Row
      BY <3>1, <3>2, <3>3 DEF Row
    <3>5. /\ u[d].subject = t[d].subject /\ u[d].token = t[d].token
          /\ u[d].dead = t[d].dead /\ u[d].deliveries = t[d].deliveries
          /\ u[d].reaped = t[d].reaped
      BY <3>1, <3>3 DEF Row
    <3>. QED  BY <3>1, <3>4, <3>5, NoneAssumption DEF SoundRow, NoneAssumption
  <2>3. u \in Table
    <3>1. \A d \in CommandIds : u[d] \in Row \cup {None}
      BY <2>1, <2>2 DEF Table
    <3>2. u = [d \in CommandIds |-> u[d]]
      BY <1>1 DEF InsertContinue
    <3>. QED  BY <3>1, <3>2 DEF Table
  <2>4. \A d \in Rows(t) : /\ d \in Rows(u) /\ u[d].subject = t[d].subject
                           /\ u[d].token = t[d].token /\ u[d].dead = t[d].dead
    BY <2>1, <2>2 DEF Rows
  <2>5. Rows(u) = Rows(t)
    BY <2>1, <2>2 DEF Rows, InDedupIndex
  <2>6. Sound(u)
    BY <2>1, <2>2, <2>5, RowsAreRows DEF Sound
  <2>7. InDedupIndex(u, r) # {}
    BY <1>1, <2>4, <2>5 DEF InDedupIndex
  <2>. QED  BY <2>3, <2>4, <2>5, <2>6, <2>7
<1>2. CASE InDedupIndex(t, r) = {}
  <2>1. u = [t EXCEPT ![c] = NewRow(r, now)]
    BY <1>2 DEF InsertContinue
  <2>2. r \in Subjects
    BY DEF Subjects
  <2>3. /\ u \in Table /\ Sound(u)
        /\ u[c] = NewRow(r, now) /\ \A d \in CommandIds \ {c} : u[d] = t[d]
    <3>1. NewRow(r, now) \in Row \cup {None} /\ SoundRow(NewRow(r, now))
      BY <2>2, NewRowSound
    <3>. QED  BY <2>1, <3>1 DEF Table, Sound, Rows
  <2>4. c \in InDedupIndex(u, r)
    BY <2>2, <2>3, NewRowSound DEF InDedupIndex, Rows
  <2>. QED  BY <1>2, <2>2, <2>3, <2>4, NewRowSound DEF Rows
<1>. QED  BY <1>1, <1>2

(***************************************************************************)
(* dispatchActivity, dispatchTask: only the free id changes, to a row of   *)
(* the attempt without a lease.                                            *)
(***************************************************************************)
LEMMA DispatchAttemptSound ==
    ASSUME NEW t \in Table, Sound(t), NEW c \in CommandIds, NEW a \in Attempts,
           NEW now \in BOOLEAN, AttemptRowExists(t, a) \/ c \notin Rows(t),
           NEW u, u = DispatchAttempt(t, c, a, now)
    PROVE  /\ u \in Table /\ Sound(u)
           /\ \A d \in Rows(t) : d \in Rows(u) /\ u[d] = t[d]
           /\ \A d \in Rows(u) \ Rows(t) : u[d].token = None
           /\ AttemptRowExists(t, a) => u = t
           /\ ~AttemptRowExists(t, a) => c \in Rows(u) /\ u[c].subject = a
                                                      /\ u[c].token = None
<1>1. CASE AttemptRowExists(t, a)
  BY <1>1 DEF DispatchAttempt
<1>2. CASE ~AttemptRowExists(t, a)
  <2>1. a \in Subjects
    BY DEF Subjects
  <2>2. /\ NewRow(a, now) \in Row \cup {None} /\ SoundRow(NewRow(a, now))
        /\ NewRow(a, now).subject = a /\ NewRow(a, now).token = None
        /\ NewRow(a, now) # None
    BY <2>1, NewRowSound
  <2>3. u = [t EXCEPT ![c] = NewRow(a, now)]
    BY <1>2 DEF DispatchAttempt
  <2>4. /\ u \in Table /\ Sound(u)
        /\ u[c] = NewRow(a, now) /\ \A d \in CommandIds \ {c} : u[d] = t[d]
    BY <2>2, <2>3 DEF Table, Sound, Rows
  <2>. QED  BY <1>2, <2>2, <2>4 DEF Rows
<1>. QED  BY <1>1, <1>2

(***************************************************************************)
(* claimCommand: the candidate gets the worker's token and keeps its       *)
(* subject; a live row stays sound, be it a takeover or not.               *)
(***************************************************************************)
LEMMA ClaimSound ==
    ASSUME NEW t \in Table, Sound(t), NEW c \in CommandIds, NEW w \in Workers,
           Claimable(t, c), NEW u, u = Claim(t, c, w)
    PROVE  /\ u \in Table /\ Sound(u)
           /\ u[c] \in Row /\ u[c].subject = t[c].subject /\ u[c].token = w
           /\ \A d \in CommandIds \ {c} : u[d] = t[d]
<1> DEFINE row == IF t[c].token # None THEN Counted(t[c]) ELSE t[c]
           put == [row EXCEPT !.token = w, !.expired = FALSE]
<1>1. t[c] \in Row /\ SoundRow(t[c]) /\ ~t[c].dead
  BY RowsAreRows DEF Claimable, Sound
<1>2. row \in Row /\ SoundRow(row) /\ row.subject = t[c].subject
  BY <1>1, CountedSound
<1>3. /\ put \in Row /\ put.subject = row.subject /\ put.token = w
      /\ put.deliveries = row.deliveries /\ put.dead = row.dead
      /\ put.reaped = row.reaped
  BY <1>2 DEF Row
<1>4. SoundRow(put)
  BY <1>2, <1>3 DEF SoundRow
<1>5. u = [t EXCEPT ![c] = put]
  BY DEF Claim
<1>6. /\ u \in Table /\ Sound(u)
      /\ u[c] = put /\ \A d \in CommandIds \ {c} : u[d] = t[d]
  <2>. HIDE DEF put
  <2>. QED  BY <1>3, <1>4, <1>5 DEF Table, Sound, Rows
<1>. QED  BY <1>2, <1>3, <1>6

(***************************************************************************)
(* releaseCommand, plain or counted: either nothing changes or the row     *)
(* loses its lease and keeps its subject.  The counted form needs a live   *)
(* row.                                                                    *)
(***************************************************************************)
LEMMA ReleaseSound ==
    ASSUME NEW t \in Table, Sound(t), NEW c \in CommandIds, NEW w \in Workers, NEW u,
           \/ u = ReleasePlain(t, c, w)
           \/ u = ReleaseCounted(t, c, w) /\ (Leased(t, c, w) => ~t[c].dead)
    PROVE  /\ u \in Table /\ Sound(u)
           /\ \A d \in CommandIds \ {c} : u[d] = t[d]
           /\ \/ u[c] = t[c]
              \/ /\ Leased(t, c, w) /\ c \in Rows(u)
                 /\ u[c].subject = t[c].subject /\ u[c].token = None
<1> DEFINE Free(row) == [row EXCEPT !.token = None, !.expired = FALSE, !.due = FALSE]
<1>1. CASE u = t
  BY <1>1
<1>2. ASSUME NEW row \in Row, SoundRow(row), row.subject = t[c].subject,
             Leased(t, c, w), u = [t EXCEPT ![c] = Free(row)]
      PROVE  /\ u \in Table /\ Sound(u)
             /\ \A d \in CommandIds \ {c} : u[d] = t[d]
             /\ c \in Rows(u)
             /\ u[c].subject = t[c].subject /\ u[c].token = None
  <2>1. /\ Free(row) \in Row /\ Free(row).subject = row.subject
        /\ Free(row).token = None /\ Free(row).deliveries = row.deliveries
        /\ Free(row).dead = row.dead /\ Free(row).reaped = row.reaped
    BY <1>2 DEF Row
  <2>2. SoundRow(Free(row)) /\ Free(row) # None
    BY <1>2, <2>1, NoneAssumption DEF SoundRow, NoneAssumption
  <2>. HIDE DEF Free
  <2>3. /\ u \in Table /\ Sound(u)
        /\ u[c] = Free(row) /\ \A d \in CommandIds \ {c} : u[d] = t[d]
    BY <1>2, <2>1, <2>2 DEF Table, Sound, Rows
  <2>. QED  BY <1>2, <2>1, <2>2, <2>3 DEF Rows
<1>3. ASSUME Leased(t, c, w)
      PROVE  t[c] \in Row /\ SoundRow(t[c])
  BY <1>3, RowsAreRows DEF Leased, Sound
<1>4. CASE u = ReleasePlain(t, c, w) /\ u # t
  <2>1. Leased(t, c, w) /\ u = [t EXCEPT ![c] = Free(t[c])]
    BY <1>4 DEF ReleasePlain
  <2>. QED  BY <1>2, <1>3, <2>1
<1>5. CASE u = ReleaseCounted(t, c, w) /\ (Leased(t, c, w) => ~t[c].dead) /\ u # t
  <2>1. Leased(t, c, w) /\ u = [t EXCEPT ![c] = Free(Counted(t[c]))]
    BY <1>5 DEF ReleaseCounted
  <2>2. /\ Counted(t[c]) \in Row /\ SoundRow(Counted(t[c]))
        /\ Counted(t[c]).subject = t[c].subject
    BY <1>3, <1>5, <2>1, CountedSound
  <2>. HIDE DEF Free
  <2>. QED  BY <1>2, <2>1, <2>2
<1>. QED  BY <1>1, <1>4, <1>5
===========================================================================
