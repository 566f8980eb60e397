------------------------ MODULE CommandQueueProofs ------------------------
(***************************************************************************)
(* The safety of the Postgres command queue for any number of runs,        *)
(* attempts, workers and rows and any dead-letter threshold.               *)
(***************************************************************************)
EXTENDS CommandQueue, CommandTableProofs

(***************************************************************************)
(* A worker that still holds the lease of its command works on a live row, *)
(* and on the row it claimed: an id was not deleted and reused under it.   *)
(***************************************************************************)
LeaseMatches ==
    \A w \in Workers : Busy(w) /\ HoldsLease(w) =>
        /\ ~cmds[held[w].cmd].dead
        /\ cmds[held[w].cmd].subject = held[w].subject

(***************************************************************************)
(* Only continue commands are overtaken by a wake-up.                      *)
(***************************************************************************)
AttemptsFresh ==
    \A w \in Workers : Busy(w) /\ held[w].subject \in Attempts => held[w].fresh

IInv ==
    /\ TypeOK
    /\ DeadExactlyAtThreshold
    /\ LeaseMatches
    /\ AttemptsFresh
    /\ OwedIsDeliverable

-----------------------------------------------------------------------------
(***************************************************************************)
(* DeadExactlyAtThreshold is the soundness of the table.                   *)
(***************************************************************************)
LEMMA SoundTable == DeadExactlyAtThreshold <=> Sound(cmds)
BY DEF DeadExactlyAtThreshold, Sound, SoundRow

(***************************************************************************)
(* The empty queue satisfies the invariant.                                *)
(***************************************************************************)
LEMMA InitInv == Init => IInv
BY DEF Init, IInv, TypeOK, Table, EmptyTable, DeadExactlyAtThreshold, LeaseMatches,
       AttemptsFresh, OwedIsDeliverable, Rows, Busy, HoldsLease

(***************************************************************************)
(* runCoordinationExecutor.enqueue: the wake-up has a row without a lease, *)
(* and no delivery of another subject loses its freshness.                 *)
(***************************************************************************)
LEMMA EnqueueContinueInv ==
    ASSUME IInv, NEW r \in Runs, NEW c \in CommandIds, NEW now \in BOOLEAN,
           EnqueueContinue(r, c, now)
    PROVE  IInv'
<1>. USE DEF IInv
<1>1. /\ cmds' \in Table /\ Sound(cmds')
      /\ \A d \in Rows(cmds) : /\ d \in Rows(cmds')
                               /\ cmds'[d].subject = cmds[d].subject
                               /\ cmds'[d].token = cmds[d].token
                               /\ cmds'[d].dead = cmds[d].dead
      /\ \A d \in Rows(cmds') \ Rows(cmds) : cmds'[d].token = None
      /\ InDedupIndex(cmds', r) # {}
  <2>1. cmds \in Table /\ Sound(cmds)
    BY SoundTable DEF TypeOK
  <2>2. /\ InDedupIndex(cmds, r) # {} \/ c \notin Rows(cmds)
        /\ cmds' = InsertContinue(cmds, c, r, now)
    BY DEF EnqueueContinue
  <2>. QED  BY <2>1, <2>2, InsertContinueSound
<1>2. \A w \in Workers :
        /\ Busy(w) <=> held'[w] # None
        /\ Busy(w) => /\ held'[w].cmd = held[w].cmd
                      /\ held'[w].subject = held[w].subject
                      /\ held[w].subject # r => held'[w].fresh = held[w].fresh
  <2>1. \A w \in Workers : held'[w] = IF Busy(w) /\ held[w].subject = r
                      THEN [held[w] EXCEPT !.fresh = FALSE] ELSE held[w]
    BY DEF EnqueueContinue
  <2>2. ASSUME NEW w \in Workers, Busy(w), held[w].subject = r
        PROVE  /\ held'[w] \in Delivery
               /\ held'[w].cmd = held[w].cmd
               /\ held'[w].subject = held[w].subject
    <3>1. held[w] \in Delivery /\ held'[w] = [held[w] EXCEPT !.fresh = FALSE]
      BY <2>1, <2>2 DEF Busy, TypeOK
    <3>. QED  BY <3>1 DEF Delivery
  <2>. QED  BY <2>1, <2>2, IdleAssumption DEF Busy, IdleAssumption
<1>3. TypeOK'
  BY <1>1 DEF TypeOK, EnqueueContinue, Subjects, Delivery, Busy
<1>4. LeaseMatches'
  BY <1>1, <1>2, DisjointAssumption
  DEF LeaseMatches, Busy, HoldsLease, Leased, Rows, TypeOK, DisjointAssumption
<1>5. AttemptsFresh'
  BY <1>2, DisjointAssumption DEF AttemptsFresh, Busy, DisjointAssumption
<1>6. OwedIsDeliverable'
  <2>. SUFFICES ASSUME NEW s \in owed'
                PROVE  \E d \in Rows(cmds') : cmds'[d].subject = s
                            /\ (cmds'[d].dead \/ Deliverable(d)')
    BY DEF OwedIsDeliverable
  <2>1. CASE s = r
    BY <1>1, <2>1 DEF InDedupIndex, Deliverable
  <2>2. CASE s # r
    <3>1. s \in owed
      BY <2>2 DEF EnqueueContinue
    <3>2. PICK d \in Rows(cmds) : cmds[d].subject = s /\ (cmds[d].dead \/ Deliverable(d))
      BY <3>1 DEF OwedIsDeliverable
    <3>3. d \in Rows(cmds') /\ cmds'[d].subject = s /\ cmds'[d].token = cmds[d].token
          /\ cmds'[d].dead = cmds[d].dead
      BY <1>1, <3>2
    <3>4. cmds[d].token \in Workers \cup {None}
      BY <3>2, RowsAreRows DEF TypeOK, Row
    <3>5. ASSUME Deliverable(d) PROVE Deliverable(d)'
      BY <1>2, <2>2, <3>2, <3>3, <3>4, <3>5
      DEF Deliverable, LeaseMatches, Busy, HoldsLease, Leased
    <3>. QED  BY <3>2, <3>3, <3>5
  <2>. QED  BY <2>1, <2>2
<1>. QED  BY <1>1, <1>3, <1>4, <1>5, <1>6 DEF DeadExactlyAtThreshold, Sound, SoundRow

(***************************************************************************)
(* Deliverability of a row that a step does not touch: it is lost only if  *)
(* a delivery of that very row begins or loses its freshness.              *)
(***************************************************************************)
LEMMA UntouchedDeliverable ==
    ASSUME TypeOK, NEW d \in Rows(cmds), cmds'[d] = cmds[d], Deliverable(d),
           \A w \in Workers : \/ held'[w] = None
                              \/ held'[w].cmd # d
                              \/ held[w] # None /\ held'[w].cmd = held[w].cmd
                                                /\ held'[w].fresh = held[w].fresh
    PROVE  d \in Rows(cmds') /\ Deliverable(d)'
<1>1. cmds[d].token \in Workers \cup {None}
  BY RowsAreRows DEF TypeOK, Row
<1>. QED  BY <1>1 DEF Deliverable, Rows

(***************************************************************************)
(* A step that writes at most row c, leaves it deliverable or dead with    *)
(* its subject, and owes nothing new, loses no wake-up.                    *)
(***************************************************************************)
LEMMA OneRowOwed ==
    ASSUME TypeOK, OwedIsDeliverable, NEW c \in CommandIds, owed' \subseteq owed,
           \A d \in CommandIds \ {c} : cmds'[d] = cmds[d],
           c \in Rows(cmds) => /\ c \in Rows(cmds')
                               /\ cmds'[c].subject = cmds[c].subject
                               /\ cmds'[c].dead \/ Deliverable(c)',
           \A w \in Workers : \/ held'[w] = None
                              \/ held'[w].cmd = c
                              \/ held[w] # None /\ held'[w].cmd = held[w].cmd
                                                /\ held'[w].fresh = held[w].fresh
    PROVE  OwedIsDeliverable'
<1>. SUFFICES ASSUME NEW s \in owed'
              PROVE  \E d \in Rows(cmds') : cmds'[d].subject = s
                          /\ (cmds'[d].dead \/ Deliverable(d)')
  BY DEF OwedIsDeliverable
<1>1. PICK d \in Rows(cmds) : cmds[d].subject = s /\ (cmds[d].dead \/ Deliverable(d))
  BY DEF OwedIsDeliverable
<1>2. CASE d = c
  BY <1>1, <1>2
<1>3. CASE d # c
  <2>1. d \in CommandIds /\ cmds'[d] = cmds[d] /\ d \in Rows(cmds')
    BY <1>3 DEF Rows
  <2>. QED  BY <1>1, <1>3, <2>1, UntouchedDeliverable
<1>. QED  BY <1>2, <1>3

(***************************************************************************)
(* dispatchActivity, dispatchTask: an existing row of the attempt serves the *)
(* request, because attempt deliveries are never overtaken.                *)
(***************************************************************************)
LEMMA DispatchInv ==
    ASSUME IInv, NEW a \in Attempts, NEW c \in CommandIds, NEW now \in BOOLEAN,
           Dispatch(a, c, now)
    PROVE  IInv'
<1>. USE DEF IInv
<1>1. /\ cmds' \in Table /\ Sound(cmds')
      /\ \A d \in Rows(cmds) : d \in Rows(cmds') /\ cmds'[d] = cmds[d]
      /\ \A d \in Rows(cmds') \ Rows(cmds) : cmds'[d].token = None
      /\ AttemptRowExists(cmds, a) => cmds' = cmds
      /\ ~AttemptRowExists(cmds, a) => c \in Rows(cmds') /\ cmds'[c].subject = a
                                                         /\ cmds'[c].token = None
  <2>1. cmds \in Table /\ Sound(cmds)
    BY SoundTable DEF TypeOK
  <2>2. /\ AttemptRowExists(cmds, a) \/ c \notin Rows(cmds)
        /\ cmds' = DispatchAttempt(cmds, c, a, now)
    BY DEF Dispatch
  <2>. QED  BY <2>1, <2>2, DispatchAttemptSound
<1>2. held' = held
  BY DEF Dispatch
<1>3. TypeOK'
  BY <1>1 DEF TypeOK, Dispatch, Subjects
<1>4. LeaseMatches'
  BY <1>1, <1>2, DisjointAssumption
  DEF LeaseMatches, Busy, HoldsLease, Leased, DisjointAssumption
<1>5. AttemptsFresh'
  BY <1>2 DEF AttemptsFresh, Busy
<1>6. OwedIsDeliverable'
  <2>. SUFFICES ASSUME NEW s \in owed'
                PROVE  \E d \in Rows(cmds') : cmds'[d].subject = s
                            /\ (cmds'[d].dead \/ Deliverable(d)')
    BY DEF OwedIsDeliverable
  <2>1. CASE s \in owed
    <3>1. PICK d \in Rows(cmds) : cmds[d].subject = s /\ (cmds[d].dead \/ Deliverable(d))
      BY <2>1 DEF OwedIsDeliverable
    <3>2. Deliverable(d) => Deliverable(d)'
      BY <1>1, <1>2, <3>1 DEF Deliverable
    <3>. QED  BY <1>1, <3>1, <3>2
  <2>2. CASE s = a /\ AttemptRowExists(cmds, a)
    <3>1. PICK d \in Rows(cmds) : cmds[d].subject = a
      BY <2>2 DEF AttemptRowExists
    <3>2. cmds[d].token \in Workers \cup {None} /\ d \in Rows(cmds') /\ cmds'[d] = cmds[d]
      BY <1>1, <3>1, RowsAreRows DEF TypeOK, Row
    <3>3. Deliverable(d)
      BY <3>1, <3>2 DEF Deliverable, LeaseMatches, AttemptsFresh, Busy, HoldsLease, Leased
    <3>. QED  BY <1>1, <1>2, <2>2, <3>1, <3>2, <3>3 DEF Deliverable
  <2>3. CASE s = a /\ ~AttemptRowExists(cmds, a)
    BY <1>1, <2>3 DEF Deliverable
  <2>. QED  BY <2>1, <2>2, <2>3 DEF Dispatch
<1>. QED  BY <1>1, <1>3, <1>4, <1>5, <1>6 DEF DeadExactlyAtThreshold, Sound, SoundRow

(***************************************************************************)
(* claimCommand: the row is dead, or held by a fresh delivery.             *)
(***************************************************************************)
LEMMA ClaimCommandInv ==
    ASSUME IInv, NEW w \in Workers, NEW c \in CommandIds, ClaimCommand(w, c)
    PROVE  IInv'
<1>. USE DEF IInv
<1>1. /\ cmds' \in Table /\ Sound(cmds')
      /\ cmds'[c] \in Row /\ cmds'[c].subject = cmds[c].subject /\ cmds'[c].token = w
      /\ \A d \in CommandIds \ {c} : cmds'[d] = cmds[d]
  <2>1. cmds \in Table /\ Sound(cmds)
    BY SoundTable DEF TypeOK
  <2>2. Claimable(cmds, c) /\ cmds' = Claim(cmds, c, w)
    BY DEF ClaimCommand
  <2>. QED  BY <2>1, <2>2, ClaimSound
<1>2. c \in Rows(cmds) /\ c \in Rows(cmds') /\ cmds[c].subject \in Subjects
  BY <1>1, NoneAssumption, RowsAreRows
  DEF ClaimCommand, Claimable, Rows, NoneAssumption, TypeOK, Row
<1>3. held[w] = None /\ \A v \in Workers \ {w} : held'[v] = held[v]
  BY DEF ClaimCommand, Busy, TypeOK
<1>4. /\ held' \in [Workers -> Delivery \cup {None}]
      /\ \/ cmds'[c].dead /\ held'[w] = None
         \/ /\ ~cmds'[c].dead /\ held'[w].cmd = c /\ held'[w].fresh
            /\ held'[w].subject = cmds[c].subject
  <2> DEFINE D == [cmd |-> c, subject |-> cmds[c].subject, failing |-> FALSE,
                   fresh |-> TRUE]
  <2>1. D \in Delivery /\ D.cmd = c /\ D.fresh /\ D.subject = cmds[c].subject
    BY <1>2 DEF Delivery
  <2>2. held' = IF cmds'[c].dead THEN held ELSE [held EXCEPT ![w] = D]
    BY DEF ClaimCommand
  <2>. HIDE DEF D
  <2>. QED  BY <1>3, <2>1, <2>2 DEF TypeOK
<1>5. TypeOK'
  BY <1>1, <1>4 DEF TypeOK, ClaimCommand
<1>6. LeaseMatches'
  BY <1>1, <1>3, <1>4 DEF LeaseMatches, Busy, HoldsLease, Leased, Rows, TypeOK
<1>7. AttemptsFresh'
  BY <1>3, <1>4 DEF AttemptsFresh, Busy
<1>8. OwedIsDeliverable'
  <2>1. cmds'[c].dead \/ Deliverable(c)'
    BY <1>1, <1>4 DEF Deliverable
  <2>2. owed' \subseteq owed
    BY DEF ClaimCommand
  <2>. QED  BY <1>1, <1>2, <1>3, <1>4, <2>1, <2>2, OneRowOwed
<1>. QED  BY <1>1, <1>5, <1>6, <1>7, <1>8 DEF DeadExactlyAtThreshold, Sound, SoundRow

(***************************************************************************)
(* ackCommand: the deleted row was fresh, or was not the one that serves the *)
(* wake-up that overtook it.                                               *)
(***************************************************************************)
LEMMA AckHeldInv ==
    ASSUME IInv, NEW w \in Workers, AckHeld(w)
    PROVE  IInv'
<1>. USE DEF IInv
<1>1. PICK c \in CommandIds : held[w] \in Delivery /\ held[w].cmd = c
  BY DEF AckHeld, Busy, TypeOK, Delivery
<1>2. /\ held' \in [Workers -> Delivery \cup {None}]
      /\ held'[w] = None /\ \A v \in Workers \ {w} : held'[v] = held[v]
  BY DEF AckHeld, Drop, TypeOK
<1>3. CASE HoldsLease(w)
  <2>1. cmds' = [cmds EXCEPT ![c] = None] /\ c \in Rows(cmds)
    BY <1>1, <1>3 DEF AckHeld, Ack, HoldsLease, Leased
  <2>2. /\ cmds' \in Table /\ Sound(cmds') /\ c \notin Rows(cmds')
        /\ \A d \in CommandIds \ {c} : cmds'[d] = cmds[d]
    <3>1. cmds \in Table /\ Sound(cmds)
      BY SoundTable DEF TypeOK
    <3>. QED  BY <2>1, <3>1 DEF Table, Sound, Rows
  <2>3. TypeOK'
    BY <1>2, <2>2 DEF TypeOK, AckHeld
  <2>4. LeaseMatches'
    BY <1>2, <2>2 DEF LeaseMatches, Busy, HoldsLease, Leased, Rows
  <2>5. AttemptsFresh'
    BY <1>2 DEF AttemptsFresh, Busy
  <2>6. OwedIsDeliverable'
    <3>. SUFFICES ASSUME NEW s \in owed'
                  PROVE  \E d \in Rows(cmds') : cmds'[d].subject = s
                              /\ (cmds'[d].dead \/ Deliverable(d)')
      BY DEF OwedIsDeliverable
    <3>1. s \in owed /\ (held[w].fresh => s # held[w].subject)
      BY <1>3 DEF AckHeld
    <3>2. PICK d \in Rows(cmds) : cmds[d].subject = s /\ (cmds[d].dead \/ Deliverable(d))
      BY <3>1 DEF OwedIsDeliverable
    <3>3. d # c
      <4>1. ~cmds[c].dead /\ cmds[c].subject = held[w].subject /\ cmds[c].token = w
        BY <1>1, <1>3 DEF LeaseMatches, AckHeld, HoldsLease, Leased
      <4>2. ~held[w].fresh => ~Deliverable(c)
        BY <1>1, <4>1, DisjointAssumption DEF Deliverable, AckHeld, Busy, DisjointAssumption
      <4>. QED  BY <3>1, <3>2, <4>1, <4>2
    <3>4. cmds'[d] = cmds[d] /\ d \in Rows(cmds')
      BY <2>2, <3>2, <3>3 DEF Rows
    <3>5. Deliverable(d) => Deliverable(d)'
      BY <1>2, <3>2, <3>4, UntouchedDeliverable DEF TypeOK, Busy, AckHeld
    <3>. QED  BY <3>2, <3>4, <3>5
  <2>. QED  BY <2>2, <2>3, <2>4, <2>5, <2>6 DEF DeadExactlyAtThreshold, Sound, SoundRow
<1>4. CASE ~HoldsLease(w)
  <2>1. cmds' = cmds /\ owed' = owed /\ givenBack' = givenBack
    BY <1>4 DEF AckHeld, Ack, HoldsLease
  <2>2. TypeOK'
    BY <1>2, <2>1 DEF TypeOK
  <2>3. LeaseMatches' /\ AttemptsFresh'
    BY <1>2, <2>1 DEF LeaseMatches, AttemptsFresh, Busy, HoldsLease, Leased, Rows
  <2>4. OwedIsDeliverable'
    <3>1. \A d \in Rows(cmds) : Deliverable(d) => Deliverable(d)'
      BY <1>2, <2>1, RowsAreRows DEF Deliverable, TypeOK, Row
    <3>. QED  BY <2>1, <3>1 DEF OwedIsDeliverable, Rows
  <2>. QED  BY <2>1, <2>2, <2>3, <2>4 DEF DeadExactlyAtThreshold, Rows
<1>. QED  BY <1>3, <1>4

(***************************************************************************)
(* releaseCommand, plain or counted, also when the database refuses it.    *)
(***************************************************************************)
LEMMA ReleaseInv ==
    ASSUME IInv, NEW w \in Workers, ReleaseHeld(w) \/ FailHeld(w)
    PROVE  IInv'
<1>. USE DEF IInv
<1>1. PICK c \in CommandIds : held[w] \in Delivery /\ held[w] # None /\ held[w].cmd = c
  BY DEF ReleaseHeld, FailHeld, Busy, TypeOK, Delivery
<1>2. /\ cmds' \in Table /\ Sound(cmds')
      /\ \A d \in CommandIds \ {c} : cmds'[d] = cmds[d]
      /\ \/ cmds'[c] = cmds[c]
         \/ /\ Leased(cmds, c, w) /\ c \in Rows(cmds')
            /\ cmds'[c].subject = cmds[c].subject /\ cmds'[c].token = None
  <2>1. cmds \in Table /\ Sound(cmds)
    BY SoundTable DEF TypeOK
  <2>2. \/ cmds' = ReleasePlain(cmds, c, w)
        \/ cmds' = ReleaseCounted(cmds, c, w) /\ (Leased(cmds, c, w) => ~cmds[c].dead)
    BY <1>1 DEF ReleaseHeld, FailHeld, LeaseMatches, HoldsLease, Busy
  <2>. QED  BY <1>1, <2>1, <2>2, ReleaseSound
<1>3. /\ held' \in [Workers -> Delivery \cup {None}]
      /\ \A v \in Workers \ {w} : held'[v] = held[v]
      /\ \/ held'[w] = None
         \/ /\ held'[w].cmd = c /\ held'[w].fresh = held[w].fresh
            /\ held'[w].subject = held[w].subject /\ cmds' = cmds
  <2>1. CASE held' = [held EXCEPT ![w] = None]
    BY <2>1 DEF TypeOK
  <2>2. CASE /\ held' = [held EXCEPT ![w].failing = TRUE]
             /\ DedupConflict(cmds, c) /\ ReleaseHeld(w)
    <3>1. /\ [held[w] EXCEPT !.failing = TRUE] \in Delivery
          /\ [held[w] EXCEPT !.failing = TRUE].cmd = c
          /\ [held[w] EXCEPT !.failing = TRUE].fresh = held[w].fresh
          /\ [held[w] EXCEPT !.failing = TRUE].subject = held[w].subject
      BY <1>1 DEF Delivery
    <3>2. cmds' = cmds
      BY <1>1, <2>2 DEF ReleaseHeld, ReleasePlain
    <3>. QED  BY <2>2, <3>1, <3>2 DEF TypeOK
  <2>. QED  BY <1>1, <2>1, <2>2 DEF ReleaseHeld, FailHeld, Drop
<1>4. TypeOK'
  BY <1>1, <1>2, <1>3 DEF TypeOK, ReleaseHeld, FailHeld
<1>5. LeaseMatches'
  BY <1>1, <1>2, <1>3, DisjointAssumption
  DEF LeaseMatches, Busy, HoldsLease, Leased, Rows, TypeOK, DisjointAssumption
<1>6. AttemptsFresh'
  BY <1>1, <1>3 DEF AttemptsFresh, Busy
<1>7. OwedIsDeliverable'
  <2>1. owed' = owed
    BY DEF ReleaseHeld, FailHeld
  <2>2. CASE cmds'[c] = cmds[c]
    <3>1. \A d \in Rows(cmds) : cmds'[d] = cmds[d] /\ d \in Rows(cmds')
      BY <1>2, <2>2 DEF Rows
    <3>2. ASSUME NEW d \in Rows(cmds), Deliverable(d) PROVE Deliverable(d)'
      <4>1. cmds[d].token \in Workers \cup {None}
        BY RowsAreRows DEF TypeOK, Row
      <4>. QED  BY <1>1, <1>3, <3>1, <3>2, <4>1 DEF Deliverable
    <3>. QED  BY <2>1, <3>1, <3>2 DEF OwedIsDeliverable
  <2>3. CASE /\ Leased(cmds, c, w) /\ c \in Rows(cmds')
             /\ cmds'[c].subject = cmds[c].subject /\ cmds'[c].token = None
    <3>1. Deliverable(c)' /\ c \in Rows(cmds)
      BY <2>3 DEF Deliverable, Leased
    <3>2. \A v \in Workers : \/ held'[v] = None \/ held'[v].cmd = c
                             \/ held[v] # None /\ held'[v].cmd = held[v].cmd
                                               /\ held'[v].fresh = held[v].fresh
      BY <1>3 DEF TypeOK
    <3>. QED  BY <1>1, <1>2, <2>1, <2>3, <3>1, <3>2, OneRowOwed
  <2>. QED  BY <1>2, <2>2, <2>3
<1>. QED  BY <1>2, <1>4, <1>5, <1>6, <1>7 DEF DeadExactlyAtThreshold, Sound, SoundRow

(***************************************************************************)
(* The steps that deliver and settle nothing: at most one row changes, it  *)
(* keeps its subject and either its token and dead flag or has no lease,   *)
(* and workers at most drop what they hold.                                *)
(***************************************************************************)
LEMMA QuietInv ==
    ASSUME IInv, NEW c \in CommandIds, cmds' \in Table, Sound(cmds'),
           \A d \in CommandIds \ {c} : cmds'[d] = cmds[d],
           \/ cmds'[c] = cmds[c]
           \/ /\ c \in Rows(cmds) /\ c \in Rows(cmds')
              /\ cmds'[c].subject = cmds[c].subject
              /\ \/ cmds'[c].token = cmds[c].token /\ cmds'[c].dead = cmds[c].dead
                 \/ cmds'[c].token = None,
           held' \in [Workers -> Delivery \cup {None}],
           \A w \in Workers : held'[w] \in {held[w], None},
           owed' = owed, givenBack' \subseteq CommandIds
    PROVE  IInv'
<1>. USE DEF IInv
<1>1. TypeOK'
  BY DEF TypeOK
<1>2. Rows(cmds') = Rows(cmds)
  BY DEF Rows
<1>3. LeaseMatches'
  <2>. SUFFICES ASSUME NEW w \in Workers, held'[w] # None, Leased(cmds', held'[w].cmd, w)
                PROVE  /\ ~cmds'[held'[w].cmd].dead
                       /\ cmds'[held'[w].cmd].subject = held'[w].subject
    BY DEF LeaseMatches, Busy, HoldsLease
  <2>1. held'[w] = held[w] /\ held[w].cmd \in CommandIds
    BY DEF TypeOK, Delivery
  <2>2. Leased(cmds, held[w].cmd, w)
    BY <1>2, <2>1, DisjointAssumption DEF Leased, DisjointAssumption
  <2>. QED  BY <2>1, <2>2, DisjointAssumption
            DEF LeaseMatches, Busy, HoldsLease, Leased, DisjointAssumption
<1>4. AttemptsFresh'
  BY DEF AttemptsFresh, Busy
<1>5. OwedIsDeliverable'
  <2>1. ASSUME NEW d \in Rows(cmds), Deliverable(d) PROVE Deliverable(d)'
    <3>1. cmds[d].token \in Workers \cup {None} /\ d \in CommandIds
      BY RowsAreRows DEF TypeOK, Row
    <3>. QED  BY <2>1, <3>1 DEF Deliverable
  <2>2. ASSUME NEW d \in Rows(cmds)
        PROVE  /\ cmds'[d].subject = cmds[d].subject
               /\ cmds[d].dead => cmds'[d].dead \/ Deliverable(d)'
    BY DEF Deliverable, Rows
  <2>. QED  BY <1>2, <2>1, <2>2 DEF OwedIsDeliverable
<1>. QED  BY <1>1, <1>3, <1>4, <1>5 DEF DeadExactlyAtThreshold, Sound, SoundRow

(***************************************************************************)
(* Setting one flag of a row other than dead.                              *)
(***************************************************************************)
LEMMA FlagInv ==
    ASSUME IInv, NEW c \in Rows(cmds), NEW row \in Row, SoundRow(row),
           cmds' = [cmds EXCEPT ![c] = row],
           row.subject = cmds[c].subject,
           \/ row.token = cmds[c].token /\ row.dead = cmds[c].dead
           \/ row.token = None,
           held' = held, owed' = owed, givenBack' = givenBack
    PROVE  IInv'
<1>1. c \in CommandIds /\ row # None /\ cmds \in Table /\ Sound(cmds)
  BY SoundTable, NoneAssumption DEF Rows, IInv, TypeOK, NoneAssumption
<1>2. /\ cmds' \in Table /\ Sound(cmds') /\ cmds'[c] = row /\ c \in Rows(cmds')
      /\ \A d \in CommandIds \ {c} : cmds'[d] = cmds[d]
  BY <1>1 DEF Table, Sound, Rows
<1>3. /\ held' \in [Workers -> Delivery \cup {None}]
      /\ \A w \in Workers : held'[w] \in {held[w], None}
      /\ givenBack' \subseteq CommandIds
  BY DEF IInv, TypeOK
<1>. QED  BY <1>1, <1>2, <1>3, QuietInv

(***************************************************************************)
(* Time, markDeadCommandReaped and requeueDeadCommand.                     *)
(***************************************************************************)
LEMMA ClockInv ==
    ASSUME IInv, NEW c \in CommandIds,
           LeaseExpires(c) \/ BecomesDue(c) \/ MarkReaped(c) \/ RequeueDead(c)
    PROVE  IInv'
<1>1. c \in Rows(cmds) /\ cmds[c] \in Row /\ SoundRow(cmds[c])
      /\ held' = held /\ owed' = owed /\ givenBack' = givenBack
  BY SoundTable, RowsAreRows
  DEF LeaseExpires, BecomesDue, MarkReaped, RequeueDead, IInv, TypeOK, Sound
<1>2. CASE LeaseExpires(c)
  <2> DEFINE row == [cmds[c] EXCEPT !.expired = TRUE]
  <2>1. /\ row \in Row /\ row.subject = cmds[c].subject
        /\ row.token = cmds[c].token /\ row.dead = cmds[c].dead
        /\ row.deliveries = cmds[c].deliveries /\ row.reaped = cmds[c].reaped
    BY <1>1 DEF Row
  <2>2. SoundRow(row) /\ cmds' = [cmds EXCEPT ![c] = row]
    BY <1>1, <1>2, <2>1 DEF SoundRow, LeaseExpires
  <2>. HIDE DEF row
  <2>. QED  BY <1>1, <2>1, <2>2, FlagInv
<1>3. CASE BecomesDue(c)
  <2> DEFINE row == [cmds[c] EXCEPT !.due = TRUE]
  <2>1. /\ row \in Row /\ row.subject = cmds[c].subject
        /\ row.token = cmds[c].token /\ row.dead = cmds[c].dead
        /\ row.deliveries = cmds[c].deliveries /\ row.reaped = cmds[c].reaped
    BY <1>1 DEF Row
  <2>2. SoundRow(row) /\ cmds' = [cmds EXCEPT ![c] = row]
    BY <1>1, <1>3, <2>1 DEF SoundRow, BecomesDue
  <2>. HIDE DEF row
  <2>. QED  BY <1>1, <2>1, <2>2, FlagInv
<1>4. CASE MarkReaped(c)
  <2> DEFINE row == [cmds[c] EXCEPT !.reaped = TRUE]
  <2>1. /\ row \in Row /\ row.subject = cmds[c].subject
        /\ row.token = cmds[c].token /\ row.dead = cmds[c].dead
        /\ row.deliveries = cmds[c].deliveries
    BY <1>1 DEF Row
  <2>2. SoundRow(row) /\ cmds' = [cmds EXCEPT ![c] = row]
    BY <1>1, <1>4, <2>1 DEF SoundRow, MarkReaped, MarkDeadCommandReaped
  <2>. HIDE DEF row
  <2>. QED  BY <1>1, <2>1, <2>2, FlagInv
<1>5. CASE RequeueDead(c) /\ cmds' = cmds
  <2>1. cmds \in Table /\ Sound(cmds) /\ held \in [Workers -> Delivery \cup {None}]
        /\ givenBack \subseteq CommandIds
    BY SoundTable DEF IInv, TypeOK
  <2>. QED  BY <1>1, <1>5, <2>1, QuietInv
<1>6. CASE RequeueDead(c) /\ cmds' # cmds
  <2> DEFINE row == NewRow(cmds[c].subject, TRUE)
  <2>1. cmds[c].subject \in Subjects
    BY <1>1 DEF Row
  <2>2. row \in Row /\ SoundRow(row) /\ row.subject = cmds[c].subject /\ row.token = None
    BY <2>1, NewRowSound
  <2>3. cmds' = [cmds EXCEPT ![c] = row]
    BY <1>6 DEF RequeueDead, RequeueDeadCommand
  <2>. HIDE DEF row
  <2>. QED  BY <1>1, <2>2, <2>3, FlagInv
<1>. QED  BY <1>2, <1>3, <1>4, <1>5, <1>6

(***************************************************************************)
(* heartbeat, with or without the lease, and the loss of a worker.         *)
(***************************************************************************)
LEMMA HeartbeatCrashInv ==
    ASSUME IInv, NEW w \in Workers, HeartbeatHeld(w) \/ Crash(w)
    PROVE  IInv'
<1>1. PICK c \in CommandIds : held[w] \in Delivery /\ held[w].cmd = c
  BY DEF HeartbeatHeld, Crash, Busy, IInv, TypeOK, Delivery
<1>2. /\ cmds \in Table /\ Sound(cmds)
      /\ held' \in [Workers -> Delivery \cup {None}]
      /\ \A v \in Workers : held'[v] \in {held[v], None}
      /\ owed' = owed /\ givenBack' \subseteq CommandIds
  BY SoundTable DEF IInv, TypeOK, HeartbeatHeld, Crash, Drop
<1>3. CASE cmds' = cmds
  BY <1>1, <1>2, <1>3, QuietInv
<1>4. CASE cmds' # cmds
  <2> DEFINE row == [cmds[c] EXCEPT !.expired = FALSE]
  <2>1. cmds' = [cmds EXCEPT ![c] = row] /\ c \in Rows(cmds)
    BY <1>1, <1>4 DEF HeartbeatHeld, Heartbeat, Crash, Leased
  <2>2. cmds[c] \in Row /\ SoundRow(cmds[c])
    BY <1>2, <2>1, RowsAreRows DEF Sound
  <2>3. /\ row \in Row /\ row.subject = cmds[c].subject
        /\ row.token = cmds[c].token /\ row.dead = cmds[c].dead
        /\ row.deliveries = cmds[c].deliveries /\ row.reaped = cmds[c].reaped
    BY <2>2 DEF Row
  <2>4. SoundRow(row) /\ row # None
    BY <2>2, <2>3, NoneAssumption DEF SoundRow, NoneAssumption
  <2>. HIDE DEF row
  <2>5. /\ cmds' \in Table /\ Sound(cmds') /\ cmds'[c] = row /\ c \in Rows(cmds')
        /\ \A d \in CommandIds \ {c} : cmds'[d] = cmds[d]
    BY <1>1, <1>2, <2>1, <2>3, <2>4 DEF Table, Sound, Rows
  <2>. QED  BY <1>1, <1>2, <2>1, <2>3, <2>5, QuietInv
<1>. QED  BY <1>3, <1>4

(***************************************************************************)
(* Statements that only delete rows: what is still owed had no row among   *)
(* the deleted ones.                                                       *)
(***************************************************************************)
LEMMA WithdrawnInv ==
    ASSUME IInv, Withdrawn, cmds' \in Table,
           \A d \in CommandIds : cmds'[d] \in {cmds[d], None}
    PROVE  IInv'
<1>. USE DEF IInv
<1>1. held' = held /\ owed' \subseteq owed /\ givenBack' \subseteq CommandIds
  BY DEF Withdrawn, TypeOK
<1>2. \A d \in Rows(cmds') : d \in Rows(cmds) /\ cmds'[d] = cmds[d]
  BY DEF Rows
<1>3. TypeOK'
  BY <1>1 DEF TypeOK
<1>4. DeadExactlyAtThreshold'
  BY <1>2 DEF DeadExactlyAtThreshold
<1>5. LeaseMatches' /\ AttemptsFresh'
  BY <1>1, <1>2 DEF LeaseMatches, AttemptsFresh, Busy, HoldsLease, Leased
<1>6. OwedIsDeliverable'
  <2>. SUFFICES ASSUME NEW s \in owed'
                PROVE  \E d \in Rows(cmds') : cmds'[d].subject = s
                            /\ (cmds'[d].dead \/ Deliverable(d)')
    BY DEF OwedIsDeliverable
  <2>1. PICK d \in Rows(cmds) : cmds[d].subject = s /\ (cmds[d].dead \/ Deliverable(d))
    BY <1>1 DEF OwedIsDeliverable
  <2>2. d \in Rows(cmds')
    BY <2>1 DEF Withdrawn
  <2>3. cmds'[d] = cmds[d]
    BY <1>2, <2>2
  <2>4. Deliverable(d) => Deliverable(d)'
    BY <1>1, <2>3 DEF Deliverable
  <2>. QED  BY <2>1, <2>2, <2>3, <2>4
<1>. QED  BY <1>3, <1>4, <1>5, <1>6

(***************************************************************************)
(* deleteUnclaimed, deleteRun and the dead-command sweep only delete rows. *)
(***************************************************************************)
LEMMA DeletionsInv ==
    ASSUME IInv, \/ \E r \in Runs : DeleteUnclaimedOf(r) \/ DeleteRun(r)
                 \/ \E c \in CommandIds : SweepDead(c)
    PROVE  IInv'
<1>1. /\ Withdrawn /\ cmds' \in Table
      /\ \A d \in CommandIds : cmds'[d] \in {cmds[d], None}
  BY DEF IInv, TypeOK, Table, DeleteUnclaimedOf, DeleteUnclaimed, DeleteRun,
         DeleteRunCommands, SweepDead, SweepDeadCommand
<1>. QED  BY <1>1, WithdrawnInv

(***************************************************************************)
(* The invariant depends on the variables only.                            *)
(***************************************************************************)
LEMMA StutterInv ==
    ASSUME IInv, UNCHANGED vars
    PROVE  IInv'
BY DEF IInv, vars, TypeOK, DeadExactlyAtThreshold, LeaseMatches, AttemptsFresh,
       OwedIsDeliverable, Deliverable, Rows, Busy, HoldsLease, Leased

(***************************************************************************)
(* Every step of the queue preserves the invariant.                        *)
(***************************************************************************)
LEMMA NextInv == IInv /\ [Next]_vars => IInv'
<1>. SUFFICES ASSUME IInv, [Next]_vars PROVE IInv'
  OBVIOUS
<1>1. ASSUME NEW c \in CommandIds, NEW now \in BOOLEAN, NEW r \in Runs,
             EnqueueContinue(r, c, now)
      PROVE  IInv'
  BY <1>1, EnqueueContinueInv
<1>2. ASSUME NEW c \in CommandIds, NEW now \in BOOLEAN, NEW a \in Attempts,
             Dispatch(a, c, now)
      PROVE  IInv'
  BY <1>2, DispatchInv
<1>3. ASSUME NEW w \in Workers, WorkerStep(w)
      PROVE  IInv'
  BY <1>3, ClaimCommandInv, AckHeldInv, ReleaseInv, HeartbeatCrashInv DEF WorkerStep
<1>4. ASSUME \/ \E r \in Runs : DeleteUnclaimedOf(r) \/ DeleteRun(r)
             \/ \E c \in CommandIds : SweepDead(c)
      PROVE  IInv'
  BY <1>4, DeletionsInv
<1>5. ASSUME NEW c \in CommandIds,
             LeaseExpires(c) \/ BecomesDue(c) \/ MarkReaped(c) \/ RequeueDead(c)
      PROVE  IInv'
  BY <1>5, ClockInv
<1>6. CASE UNCHANGED vars
  BY <1>6, StutterInv
<1>. QED  BY <1>1, <1>2, <1>3, <1>4, <1>5, <1>6 DEF Next

-----------------------------------------------------------------------------
(***************************************************************************)
(* Type correctness: in particular no interleaving of releases, takeovers  *)
(* and requeues drives delivery_count past the threshold.                  *)
(***************************************************************************)
THEOREM TypeCorrect == Spec => []TypeOK
<1>1. IInv => TypeOK
  BY DEF IInv
<1>. QED  BY InitInv, NextInv, <1>1, PTL DEF Spec

(***************************************************************************)
(* A command is dead exactly when its failed deliveries reach the          *)
(* threshold: claimCommand's takeover count and releaseCommand's error     *)
(* count never disagree.                                                   *)
(***************************************************************************)
THEOREM ThresholdExact == Spec => []DeadExactlyAtThreshold
<1>1. IInv => DeadExactlyAtThreshold
  BY DEF IInv
<1>. QED  BY InitInv, NextInv, <1>1, PTL DEF Spec

(***************************************************************************)
(* No wake-up is lost by the dedup upsert, by a late ack, release or       *)
(* heartbeat under an old lease, by a crash or by a withdrawal.            *)
(***************************************************************************)
THEOREM NoLostWakeUp == Spec => []OwedIsDeliverable
<1>1. IInv => OwedIsDeliverable
  BY DEF IInv
<1>. QED  BY InitInv, NextInv, <1>1, PTL DEF Spec
===========================================================================
