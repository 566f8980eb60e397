--------------------------- MODULE TaskRunProofs ---------------------------
(***************************************************************************)
(* Task runs for any number of runs, attempts, workers and commands, any   *)
(* retry policy and any dead-letter threshold: the rows of a run tell one  *)
(* story, its retries follow the policy, and it is never stranded.         *)
(***************************************************************************)
EXTENDS TaskRun, Sequences, CommandTableProofs, FiniteSetTheorems

Failure == {"failed", "timedOut"}

Made(d, k) == {a \in Attempts : ChildOf[a] = k /\ d.attempts[a] # None}

\* A run has its node, its child and the child's current attempt from the
\* transaction that starts it to the one that deletes it.
Linked(d, r) ==
    /\ RunExists(d, r) => /\ d.nodes[TaskNode[r]] # None
                          /\ d.children[TaskChild[r]] # None
                          /\ d.children[TaskChild[r]].current \in Made(d, TaskChild[r])
    /\ ~RunExists(d, r) => /\ d.nodes[TaskNode[r]] = None
                           /\ d.children[TaskChild[r]] = None
                           /\ Made(d, TaskChild[r]) = {}

\* The order in which statuses become terminal: the child first, the node
\* next, the run last; and only a run that has ended may have a current
\* attempt that was settled.  No task run waits, and none is cancelled.
Agreed(d, r) ==
    LET n == d.nodes[TaskNode[r]]
        k == d.children[TaskChild[r]]
        s == d.attempts[k.current].status
    IN  /\ d.runs[r] \notin {"waiting", "cancelled"}
        /\ RunExists(d, r) =>
            /\ d.runs[r] = "completed" <=> n = "completed"
            /\ n = "completed" <=> k.status = "completed"
            /\ k.status = "completed" <=> s = "completed"
            /\ n \in Terminal => k.status \in Terminal
            /\ d.runs[r] \in Terminal => n \in Terminal
            /\ d.runs[r] \notin Terminal => s = "started"
            /\ s # "cancelled"

\* The retries of one child; no two attempts have the same number.
Retried(d, r) ==
    LET k    == TaskChild[r]
        row  == d.children[k]
        made == Made(d, k)
        last == d.attempts[row.current]
    IN  RunExists(d, r) =>
            /\ {d.attempts[a].number : a \in made} = 1..row.count
            /\ \A a, b \in made : d.attempts[a].number = d.attempts[b].number => a = b
            /\ Cardinality(made) = row.count
            /\ last.number = row.count
            /\ \A a \in made \ {row.current} : d.attempts[a].status \in Failure
            /\ row.count > 1 => row.count <= RetryAttempts[k]
            /\ last.status \in Failure => row.count >= RetryAttempts[k]

Story(d, r) == Linked(d, r) /\ Agreed(d, r) /\ Retried(d, r)

StoreInv(d) == d \in Database /\ \A r \in Runs : Story(d, r)

\* An attempt somebody has heard of: it has its row, or its run is gone.
Known(d, a) == d.attempts[a] # None \/ d.runs[RunOf[a]] = "deleted"

\* Nothing waits for attempt a any more: its command can be dropped.
Over(d, a) ==
    \/ d.runs[RunOf[a]] \in Terminal \cup {"cancelling", "deleted"}
    \/ /\ d.attempts[a] # None
       /\ \/ d.children[ChildOf[a]].current # a
          \/ d.children[ChildOf[a]].status \in Terminal

\* The commands that will be delivered or reaped, by their subjects.
Live(t) == {t[c].subject : c \in {x \in Rows(t) : ~t[x].reaped}}

\* A continue command of a task run is never claimed.
ContinuesIdle(t) == \A c \in Rows(t) : t[c].subject \in Runs => t[c].token = None /\ ~t[c].dead

TableInv(t) == t \in Table /\ Sound(t) /\ ContinuesIdle(t)

\* A command's attempt has its row.
CommandsKnown ==
    \A c \in Rows(cmds) : cmds[c].subject \in Attempts => db.attempts[cmds[c].subject] # None

LeaseMatches ==
    \A w \in Workers : Busy(w) /\ HoldsLease(w) =>
        /\ ~cmds[held[w].cmd].dead
        /\ cmds[held[w].cmd].subject = held[w].attempt

\* What a worker remembers is old, and some of it remains true: what it
\* drops is over, and what it found stale was not the child's current
\* attempt.
WorkerSound ==
    \A w \in Workers : Busy(w) =>
        /\ Known(db, held[w].attempt)
        /\ held[w].pc \in {"dropping", "stale"} => Over(db, held[w].attempt)
        /\ held[w].pc = "stale" => held[w].child = None \/ held[w].child.current # held[w].attempt

\* The sweep closes the child before the node and both before the run.
ReaperSound ==
    reaper # None =>
        LET a == reaper.attempt
            gone == db.runs[RunOf[a]] = "deleted"
        IN  /\ Known(db, a)
            /\ reaper.pc # "failChild" => gone \/ db.children[ChildOf[a]].status \in Terminal
            /\ reaper.pc \notin {"failChild", "failNode"} => gone \/ db.nodes[NodeOf[ChildOf[a]]] \in Terminal

TaskInv ==
    /\ TypeOK
    /\ StoreInv(db)
    /\ TableInv(cmds)
    /\ CommandsKnown
    /\ LeaseMatches
    /\ WorkerSound
    /\ ReaperSound
    /\ NotStranded
-----------------------------------------------------------------------------
\* The rows of a task run: one node, one child, and the child's attempts.
LEMMA Topology ==
    /\ \A r \in Runs : /\ TaskNode[r] \in Nodes /\ TaskChild[r] \in Children
                       /\ FirstAttempt[r] \in Attempts
                       /\ RunOfNode[TaskNode[r]] = r /\ NodeOf[TaskChild[r]] = TaskNode[r]
                       /\ ChildOf[FirstAttempt[r]] = TaskChild[r] /\ TaskChild[r] \in Single
                       /\ KindOf[r] = "task" /\ ParentOf[r] = None
                       /\ ChildRun(TaskChild[r]) = r
    /\ \A n \in Nodes : RunOfNode[n] \in Runs /\ n = TaskNode[RunOfNode[n]]
    /\ \A k \in Children : ChildRun(k) \in Runs /\ k = TaskChild[ChildRun(k)]
    /\ \A a \in Attempts : /\ RunOf[a] \in Runs /\ ChildOf[a] = TaskChild[RunOf[a]]
                           /\ NodeOf[ChildOf[a]] = TaskNode[RunOf[a]]
    /\ \A a \in Attempts, r \in Runs : ChildOf[a] = TaskChild[r] <=> RunOf[a] = r
BY TopologyAssumption, TaskAssumption, RunOfAssumption
   DEF TopologyAssumption, TaskAssumption, RunOfAssumption, ChildRun

\* None is no status and no row.
LEMMA NoneIsNoRow ==
    None \notin NodeStatus /\ None \notin ChildRow /\ None \notin AttemptRow /\ None \notin Attempts
BY RowAssumption DEF RowAssumption

\* Outside the rows of run r, d and e are the same.
Local(d, e, r) ==
    /\ e \in Database
    /\ \A q \in Runs \ {r} : /\ e.runs[q] = d.runs[q]
                            /\ e.nodes[TaskNode[q]] = d.nodes[TaskNode[q]]
                            /\ e.children[TaskChild[q]] = d.children[TaskChild[q]]
    /\ \A a \in Attempts : RunOf[a] # r => e.attempts[a] = d.attempts[a]

\* What no step undoes, run by run: what has ended, what was settled, and
\* that an attempt gave way to the next one.
Grows(d, e, r) ==
    LET n == TaskNode[r]
        k == TaskChild[r]
    IN  /\ d.runs[r] = "deleted" => e.runs[r] = "deleted"
        /\ RunIsTerminal(d, r) => e.runs[r] \in {d.runs[r], "deleted"}
        /\ d.runs[r] = "cancelling" => e.runs[r] \in Terminal \cup {"cancelling", "deleted"}
        /\ e.runs[r] = "deleted" \/
            /\ d.nodes[n] \in Terminal => e.nodes[n] = d.nodes[n]
            /\ d.children[k] # None /\ d.children[k].status \in Terminal =>
                  e.children[k] = d.children[k]
            /\ \A a \in Made(d, k) :
                  /\ e.attempts[a] # None
                  /\ d.attempts[a].status # "started" => e.attempts[a] = d.attempts[a]
                  /\ d.children[k].current # a => e.children[k].current # a

Grown(d, e) == \A r \in Runs : Grows(d, e, r)

\* No run is started and no attempt is retried.
SameCurrent(d, e) ==
    \A r \in Runs : RunExists(e, r) =>
        /\ RunExists(d, r)
        /\ e.children[TaskChild[r]].current = d.children[TaskChild[r]].current

\* The retries of a child depend on its count, its current attempt, the
\* numbers of its attempts and the results of the earlier ones; a current
\* attempt that failed was the last.
LEMMA RetriedFrame ==
    ASSUME NEW d, NEW e, NEW r \in Runs, Linked(d, r), Retried(d, r),
           RunExists(e, r) => RunExists(d, r),
           RunExists(e, r) =>
             LET k == TaskChild[r]
                 last == d.children[k].current
             IN  /\ e.children[k].current = last
                 /\ e.children[k].count = d.children[k].count
                 /\ \A a \in Attempts : ChildOf[a] = k =>
                       /\ e.attempts[a] = None <=> d.attempts[a] = None
                       /\ e.attempts[a].number = d.attempts[a].number
                       /\ a # last => e.attempts[a].status = d.attempts[a].status
                 /\ e.attempts[last].status \in Failure =>
                       \/ d.attempts[last].status = e.attempts[last].status
                       \/ d.children[k].count >= RetryAttempts[k]
    PROVE  Retried(e, r)
<1>. SUFFICES ASSUME RunExists(e, r)  PROVE  Retried(e, r)
  BY DEF Retried
<1>1. Made(e, TaskChild[r]) = Made(d, TaskChild[r])
  BY DEF Made
<1>2. \A a \in Made(d, TaskChild[r]) :
         /\ e.attempts[a].number = d.attempts[a].number
         /\ a # d.children[TaskChild[r]].current => e.attempts[a].status = d.attempts[a].status
  BY DEF Made
<1>3. d.children[TaskChild[r]].current \in Made(d, TaskChild[r])
  BY DEF Linked
<1>4. {e.attempts[a].number : a \in Made(e, TaskChild[r])}
        = {d.attempts[a].number : a \in Made(d, TaskChild[r])}
  BY <1>1, <1>2
<1>. QED  BY <1>1, <1>2, <1>3, <1>4 DEF Retried

\* A run whose rows are as before keeps its story.
LEMMA StoryFrame ==
    ASSUME NEW d, NEW e, NEW r \in Runs, Story(d, r),
           e.runs[r] = d.runs[r], e.nodes[TaskNode[r]] = d.nodes[TaskNode[r]],
           e.children[TaskChild[r]] = d.children[TaskChild[r]],
           \A a \in Attempts : ChildOf[a] = TaskChild[r] => e.attempts[a] = d.attempts[a]
    PROVE  Story(e, r) /\ Grows(d, e, r)
<1>1. Made(e, TaskChild[r]) = Made(d, TaskChild[r])
  BY DEF Made
<1>2. RunExists(e, r) <=> RunExists(d, r)
  BY DEF RunExists
<1>3. \A a \in Made(d, TaskChild[r]) : e.attempts[a] = d.attempts[a]
  BY DEF Made
<1>4. Linked(e, r)
  BY <1>1, <1>2 DEF Story, Linked
<1>5. RunExists(d, r) => d.children[TaskChild[r]].current \in Made(d, TaskChild[r])
  BY DEF Story, Linked
<1>6. Agreed(e, r)
  BY <1>2, <1>3, <1>5 DEF Story, Agreed
<1>7. Retried(e, r)
  BY <1>2, <1>3, <1>5, RetriedFrame DEF Story
<1>8. Grows(d, e, r)
  BY <1>3 DEF Grows, RunIsTerminal, Made
<1>. QED  BY <1>4, <1>6, <1>7, <1>8 DEF Story

\* It is enough to look at the run whose rows were written.
LEMMA LocalSuffices ==
    ASSUME NEW d, NEW e, NEW r \in Runs, StoreInv(d), Local(d, e, r), Story(e, r), Grows(d, e, r)
    PROVE  /\ StoreInv(e) /\ Grown(d, e)
           /\ (/\ RunExists(e, r) => RunExists(d, r)
               /\ e.children[TaskChild[r]].current = d.children[TaskChild[r]].current)
              => SameCurrent(d, e)
<1>1. ASSUME NEW q \in Runs, q # r  PROVE  Story(e, q) /\ Grows(d, e, q)
  BY <1>1, StoryFrame, Topology DEF StoreInv, Local
<1>. QED  BY <1>1 DEF StoreInv, Grown, Local, SameCurrent, RunExists

\* What a transaction on the rows of run r does to its status and to the
\* results of its attempts.
SameResults(d, e, r) ==
    LET k == TaskChild[r]
    IN  /\ RunExists(d, r) /\ RunExists(e, r)
        /\ e.children[k].current = d.children[k].current
        /\ e.children[k].count = d.children[k].count
        /\ \A b \in Attempts : RunOf[b] = r => e.attempts[b] = d.attempts[b]

\* Attempt a of run r ends with result f.
Ends(d, e, r, a, f) ==
    /\ RunOf[a] = r /\ d.attempts[a] # None /\ d.attempts[a].status = "started"
    /\ RunExists(e, r)
    /\ e.attempts[a] # None
    /\ e.attempts[a].number = d.attempts[a].number /\ e.attempts[a].status = f
    /\ \A b \in Made(d, TaskChild[r]) \ {a} : e.attempts[b] = d.attempts[b]

Seen(d, e, r) ==
    LET row == d.children[TaskChild[r]]
        new == e.children[TaskChild[r]]
        max == RetryAttempts[TaskChild[r]]
    IN  \/ /\ SameResults(d, e, r)
           /\ \/ e.runs[r] = d.runs[r]
              \/ d.runs[r] \in {"queued", "running"} /\ e.runs[r] \in {"running", "cancelling"}
              \/ d.runs[r] \notin Terminal /\ e.runs[r] = "failed"
        \/ /\ d.runs[r] = "absent" /\ e.runs[r] = "queued"
           /\ new.count = 1 /\ e.attempts[new.current].status = "started"
        \/ d.runs[r] \in Terminal /\ e.runs[r] = "deleted"
        \/ \E a \in Attempts :
            /\ Ends(d, e, r, a, "completed")
            /\ d.runs[r] \notin Terminal /\ e.runs[r] = "completed"
            /\ new.current = a /\ new.count = row.count
        \/ \E a \in Attempts, f \in Failure :
            /\ Ends(d, e, r, a, f) /\ row.count >= max
            /\ e.runs[r] = IF d.runs[r] \in Terminal THEN d.runs[r] ELSE "failed"
            /\ new.current = a /\ new.count = row.count
        \/ \E a \in Attempts, f \in Failure :
            /\ Ends(d, e, r, a, f) /\ row.count < max
            /\ d.runs[r] \notin Terminal /\ e.runs[r] = d.runs[r]
            /\ new.count = row.count + 1 /\ e.attempts[new.current].status = "started"

Shown(d, e) == e = d \/ \E r \in Runs : Local(d, e, r) /\ Seen(d, e, r)

\* A task run is marked running, or its cancellation requested.
LEMMA SetRunSound ==
    ASSUME NEW d, StoreInv(d), NEW r \in Runs, NEW to \in {"running", "cancelling"},
           NEW e, e = SetRun(d, r, to)
    PROVE  StoreInv(e) /\ Grown(d, e) /\ SameCurrent(d, e) /\ e.attempts = d.attempts /\ Shown(d, e)
<1>1. CASE e = d
  BY <1>1, StoryFrame DEF StoreInv, Grown, SameCurrent, Shown
<1>2. CASE e # d
  <2>1. d.runs[r] \in {"queued", "running", "waiting"} /\ e = [d EXCEPT !.runs[r] = to]
    BY <1>2 DEF SetRun, RunSources, Terminal
  <2>2. /\ e.runs = [d.runs EXCEPT ![r] = to] /\ e.nodes = d.nodes
        /\ e.children = d.children /\ e.attempts = d.attempts /\ e \in Database
    BY <2>1 DEF StoreInv, Database, RunStatus
  <2>3. Local(d, e, r)
    BY <2>2 DEF Local, StoreInv, Database
  <2>4. e.runs[r] = to /\ RunExists(d, r) /\ RunExists(e, r)
    BY <2>1, <2>2 DEF StoreInv, Database, RunExists, RunStatus
  <2>5. Story(e, r)
    <3>1. Linked(e, r)
      BY <2>2, <2>4 DEF StoreInv, Story, Linked, Made
    <3>2. Agreed(e, r)
      BY <2>1, <2>2, <2>4 DEF StoreInv, Story, Agreed, Terminal
    <3>3. Retried(e, r)
      BY <2>2, <2>4, RetriedFrame DEF StoreInv, Story
    <3>. QED  BY <3>1, <3>2, <3>3 DEF Story
  <2>6. Grows(d, e, r)
    BY <2>1, <2>2, <2>4 DEF Grows, RunIsTerminal, Terminal, Made
  <2>7. Seen(d, e, r)
    BY <2>1, <2>2, <2>4 DEF Seen, SameResults, StoreInv, Story, Agreed
  <2>. QED  BY <2>2, <2>3, <2>4, <2>5, <2>6, <2>7, LocalSuffices DEF Shown
<1>. QED  BY <1>1, <1>2
\* The sweep fails the child.
LEMMA FailChildSound ==
    ASSUME NEW d, StoreInv(d), NEW r \in Runs, NEW e, e = FailNodeChild(d, TaskChild[r])
    PROVE  /\ StoreInv(e) /\ Grown(d, e) /\ SameCurrent(d, e)
           /\ e.attempts = d.attempts /\ e.runs = d.runs /\ Shown(d, e)
           /\ RunExists(d, r) => e.children[TaskChild[r]].status \in Terminal
<1> DEFINE k == TaskChild[r]
<1>. k \in Children /\ d \in Database /\ Story(d, r)
  BY Topology DEF StoreInv
<1>1. CASE e = d
  <2>1. ~RunExists(d, r) \/ d.children[k].status \in Terminal
    BY <1>1, NoneIsNoRow DEF FailNodeChild, SetChild, Story, Linked, NodeSources, Terminal,
       Database, ChildRow, NodeStatus
  <2>. QED  BY <1>1, <2>1, StoryFrame DEF StoreInv, Grown, SameCurrent, Shown
<1>2. CASE e # d
  <2>1. /\ d.children[k] # None /\ d.children[k].status \notin Terminal
        /\ e = [d EXCEPT !.children[k].status = "failed"]
    BY <1>2 DEF FailNodeChild, SetChild, NodeSources, Terminal
  <2> DEFINE row == [d.children[k] EXCEPT !.status = "failed"]
  <2>2. d.children[k] \in ChildRow
    BY <2>1 DEF Database
  <2>3. row \in ChildRow /\ row.status = "failed" /\ row.current = d.children[k].current
        /\ row.count = d.children[k].count
    BY <2>2 DEF ChildRow, NodeStatus
  <2>. HIDE DEF row
  <2>4. e = [d EXCEPT !.children = [d.children EXCEPT ![k] = row]]
    BY <2>1 DEF row
  <2>5. /\ e.runs = d.runs /\ e.nodes = d.nodes /\ e.attempts = d.attempts
        /\ e.children = [d.children EXCEPT ![k] = row] /\ e \in Database
    BY <2>3, <2>4 DEF Database
  <2>6. e.children[k] = row
    BY <2>5 DEF Database
  <2>7. Local(d, e, r)
    BY <2>5, Topology DEF Local, Database
  <2>8. RunExists(d, r) /\ RunExists(e, r)
    BY <2>1, <2>5 DEF Story, Linked, RunExists
  <2>9. Story(e, r)
    <3>1. Linked(e, r)
      BY <2>3, <2>5, <2>6, <2>8, NoneIsNoRow DEF Story, Linked, Made
    <3>2. Agreed(e, r)
      BY <2>1, <2>3, <2>5, <2>6, <2>8 DEF Story, Agreed, Terminal
    <3>3. Retried(e, r)
      BY <2>3, <2>5, <2>6, <2>8, RetriedFrame DEF Story
    <3>. QED  BY <3>1, <3>2, <3>3 DEF Story
  <2>10. Grows(d, e, r)
    BY <2>1, <2>3, <2>5, <2>6 DEF Grows, RunIsTerminal, Terminal, Made
  <2>11. Shown(d, e)
    BY <2>3, <2>5, <2>6, <2>7, <2>8 DEF Shown, Seen, SameResults
  <2>. QED  BY <2>3, <2>5, <2>6, <2>7, <2>8, <2>9, <2>10, <2>11, LocalSuffices DEF Terminal
<1>. QED  BY <1>1, <1>2
\* The sweep fails the node, its child being closed.
LEMMA FailNodeSound ==
    ASSUME NEW d, StoreInv(d), NEW r \in Runs, NEW e, e = FailNode(d, TaskNode[r]),
           RunExists(d, r) => d.children[TaskChild[r]].status \in Terminal
    PROVE  /\ StoreInv(e) /\ Grown(d, e) /\ SameCurrent(d, e)
           /\ e.attempts = d.attempts /\ e.runs = d.runs /\ Shown(d, e)
           /\ RunExists(d, r) => e.nodes[TaskNode[r]] \in Terminal
<1> DEFINE n == TaskNode[r]
<1>. n \in Nodes /\ d \in Database /\ Story(d, r)
  BY Topology DEF StoreInv
<1>1. CASE e = d
  <2>1. ~RunExists(d, r) \/ d.nodes[n] \in Terminal
    BY <1>1, NoneIsNoRow DEF FailNode, SetNode, Story, Linked, NodeSources, Terminal,
       Database, NodeStatus
  <2>. QED  BY <1>1, <2>1, StoryFrame DEF StoreInv, Grown, SameCurrent, Shown
<1>2. CASE e # d
  <2>1. /\ d.nodes[n] # None /\ d.nodes[n] \notin Terminal
        /\ e = [d EXCEPT !.nodes[n] = "failed"]
    BY <1>2, NoneIsNoRow DEF FailNode, SetNode, NodeSources, Terminal
  <2>5. /\ e.runs = d.runs /\ e.children = d.children /\ e.attempts = d.attempts
        /\ e.nodes = [d.nodes EXCEPT ![n] = "failed"] /\ e \in Database
    BY <2>1 DEF Database, NodeStatus
  <2>6. e.nodes[n] = "failed"
    BY <2>5 DEF Database
  <2>7. Local(d, e, r)
    BY <2>5, Topology DEF Local, Database
  <2>8. RunExists(d, r) /\ RunExists(e, r)
    BY <2>1, <2>5 DEF Story, Linked, RunExists
  <2>9. Story(e, r)
    <3>1. Linked(e, r)
      BY <2>5, <2>6, <2>8, NoneIsNoRow DEF Story, Linked, Made, NodeStatus
    <3>2. Agreed(e, r)
      BY <2>1, <2>5, <2>6, <2>8 DEF Story, Agreed, Terminal
    <3>3. Retried(e, r)
      BY <2>5, <2>8, RetriedFrame DEF Story
    <3>. QED  BY <3>1, <3>2, <3>3 DEF Story
  <2>10. Grows(d, e, r)
    BY <2>1, <2>5, <2>6 DEF Grows, RunIsTerminal, Terminal, Made
  <2>11. Shown(d, e)
    BY <2>5, <2>7, <2>8 DEF Shown, Seen, SameResults
  <2>. QED  BY <2>5, <2>6, <2>7, <2>8, <2>9, <2>10, <2>11, LocalSuffices DEF Terminal
<1>. QED  BY <1>1, <1>2

\* Then nothing is left for cancelNonTerminalRunNodes.
LEMMA CancelNodesSound ==
    ASSUME NEW d, StoreInv(d), NEW r \in Runs,
           RunExists(d, r) => /\ d.children[TaskChild[r]].status \in Terminal
                              /\ d.nodes[TaskNode[r]] \in Terminal
    PROVE  CancelNonTerminalRunNodes(d, r) = d
<1>. d \in Database /\ Story(d, r)
  BY DEF StoreInv
<1>1. d.nodes[TaskNode[r]] \notin NodeSources("cancelled")
  BY NoneIsNoRow DEF Story, Linked, NodeSources, Terminal
<1>2. ~(d.children[TaskChild[r]] # None /\ d.children[TaskChild[r]].status \in NodeSources("cancelled"))
  BY DEF Story, Linked, NodeSources, Terminal
<1>3. [n \in Nodes |-> IF RunOfNode[n] = r /\ d.nodes[n] \in NodeSources("cancelled")
                       THEN "cancelled" ELSE d.nodes[n]] = d.nodes
  BY <1>1, Topology DEF Database
<1>4. [k \in Children |-> IF /\ ChildRun(k) = r /\ d.children[k] # None
                             /\ d.children[k].status \in NodeSources("cancelled")
                          THEN [d.children[k] EXCEPT !.status = "cancelled"]
                          ELSE d.children[k]] = d.children
  BY <1>2, Topology DEF Database
<1>. QED  BY <1>3, <1>4 DEF CancelNonTerminalRunNodes, Database

\* The sweep fails the run last.
LEMMA FailRunSound ==
    ASSUME NEW d, StoreInv(d), NEW r \in Runs, NEW e, e = FailRun(d, r),
           RunExists(d, r) => d.nodes[TaskNode[r]] \in Terminal
    PROVE  StoreInv(e) /\ Grown(d, e) /\ SameCurrent(d, e) /\ e.attempts = d.attempts /\ Shown(d, e)
<1>. d \in Database /\ Story(d, r)
  BY DEF StoreInv
<1>1. CASE e = d
  BY <1>1, StoryFrame DEF StoreInv, Grown, SameCurrent, Shown
<1>2. CASE e # d
  <2>1. /\ d.runs[r] \in RunStatus \ Terminal
        /\ e = [d EXCEPT !.runs[r] = "failed"]
    BY <1>2 DEF FailRun, SetRun, RunSources, Terminal
  <2>5. /\ e.nodes = d.nodes /\ e.children = d.children /\ e.attempts = d.attempts
        /\ e.runs = [d.runs EXCEPT ![r] = "failed"] /\ e \in Database
    BY <2>1 DEF Database, RunStatus
  <2>6. e.runs[r] = "failed"
    BY <2>5 DEF Database
  <2>7. Local(d, e, r)
    BY <2>5 DEF Local, Database
  <2>8. RunExists(d, r) /\ RunExists(e, r)
    BY <2>1, <2>6 DEF RunExists, RunStatus
  <2>9. Story(e, r)
    <3>1. Linked(e, r)
      BY <2>5, <2>8 DEF Story, Linked, Made
    <3>2. Agreed(e, r)
      BY <2>1, <2>5, <2>6, <2>8 DEF Story, Agreed, Terminal
    <3>3. Retried(e, r)
      BY <2>5, <2>8, RetriedFrame DEF Story
    <3>. QED  BY <3>1, <3>2, <3>3 DEF Story
  <2>10. Grows(d, e, r)
    BY <2>1, <2>5, <2>6 DEF Grows, RunIsTerminal, Terminal, Made, RunStatus
  <2>11. Shown(d, e)
    BY <2>1, <2>5, <2>6, <2>7, <2>8 DEF Shown, Seen, SameResults
  <2>. QED  BY <2>5, <2>7, <2>8, <2>9, <2>10, <2>11, LocalSuffices
<1>. QED  BY <1>1, <1>2

\* deleteRun takes all rows of a run that has ended.
LEMMA DeleteRunSound ==
    ASSUME NEW d, StoreInv(d), NEW r \in Runs, RunIsTerminal(d, r), NEW e, e = DeleteRunRows(d, r)
    PROVE  /\ StoreInv(e) /\ Grown(d, e) /\ SameCurrent(d, e)
           /\ e.runs[r] = "deleted" /\ Shown(d, e)
           /\ \A a \in Attempts : RunOf[a] # r => e.attempts[a] = d.attempts[a]
<1>. d \in Database /\ Story(d, r)
  BY DEF StoreInv
<1>1. /\ e.runs = [d.runs EXCEPT ![r] = "deleted"]
      /\ e.nodes = [n \in Nodes |-> IF RunOfNode[n] = r THEN None ELSE d.nodes[n]]
      /\ e.children = [k \in Children |-> IF ChildRun(k) = r THEN None ELSE d.children[k]]
      /\ e.attempts = [a \in Attempts |-> IF RunOf[a] = r THEN None ELSE d.attempts[a]]
  BY DEF DeleteRunRows
<1>2. e \in Database
  BY <1>1 DEF DeleteRunRows, Database
<1>3. Local(d, e, r)
  BY <1>1, <1>2, Topology DEF Local, Database
<1>4. e.runs[r] = "deleted" /\ ~RunExists(e, r)
  BY <1>1 DEF Database, RunExists, RunStatus
<1>5. Linked(e, r)
  BY <1>1, <1>4, Topology DEF Linked, Made
<1>6. Agreed(e, r) /\ Retried(e, r)
  BY <1>4 DEF Agreed, Retried
<1>7. Grows(d, e, r)
  BY <1>4 DEF Grows, RunIsTerminal
<1>8. StoreInv(e) /\ Grown(d, e)
  BY <1>3, <1>5, <1>6, <1>7, LocalSuffices DEF Story
<1>9. SameCurrent(d, e)
  BY <1>3, <1>4 DEF SameCurrent, Local, RunExists
<1>10. Shown(d, e)
  BY <1>3, <1>4 DEF Shown, Seen, RunIsTerminal
<1>. QED  BY <1>3, <1>4, <1>8, <1>9, <1>10 DEF Local
\* An attempt that has its row and was not settled is the current one of
\* its child, and its run has its rows.
LEMMA StartedIsCurrent ==
    ASSUME NEW d, StoreInv(d), NEW a \in Attempts, d.attempts[a] # None,
           NEW r, r = RunOf[a]
    PROVE  /\ r \in Runs /\ Story(d, r) /\ RunExists(d, r) /\ d.runs[r] \in RunStatus
           /\ a \in Made(d, TaskChild[r]) /\ d.attempts[a] \in AttemptRow
           /\ d.children[TaskChild[r]] \in ChildRow /\ d.nodes[TaskNode[r]] \in NodeStatus
           /\ d.attempts[a].status = "started" => d.children[TaskChild[r]].current = a
<1>1. r \in Runs /\ Story(d, r) /\ a \in Made(d, TaskChild[r])
  BY Topology DEF StoreInv, Made
<1>2. RunExists(d, r) /\ d.children[TaskChild[r]] # None /\ d.nodes[TaskNode[r]] # None
  BY <1>1 DEF Story, Linked
<1>3. d.attempts[a].status = "started" => d.children[TaskChild[r]].current = a
  BY <1>1, <1>2 DEF Story, Retried, Failure
<1>4. /\ d.attempts[a] \in AttemptRow /\ d.children[TaskChild[r]] \in ChildRow
      /\ d.nodes[TaskNode[r]] \in NodeStatus
  BY <1>1, <1>2, Topology DEF StoreInv, Database
<1>. QED  BY <1>1, <1>2, <1>3, <1>4 DEF RunExists

\* completeCurrentAttempt, completeNode and completeRun, behind the fence:
\* none of the four updates misses.
LEMMA CompleteSound ==
    ASSUME NEW d, StoreInv(d), NEW a \in Attempts, FencedAttempt(d, a),
           NEW e, e = CompletedDb(CompleteCurrentAttempt(d, a), ChildOf[a])
    PROVE  /\ StoreInv(e) /\ Grown(d, e) /\ SameCurrent(d, e)
           /\ e.runs[RunOf[a]] = "completed" /\ Shown(d, e)
           /\ \A b \in Attempts : d.attempts[b] # None => e.attempts[b] # None
<1> DEFINE r == RunOf[a]
           k == TaskChild[r]
           n == TaskNode[r]
<1>1. /\ d.children[k].current = a /\ d.children[k].status \notin Terminal
      /\ d.attempts[a] # None /\ d.attempts[a].status = "started"
      /\ ChildOf[a] = k /\ NodeOf[k] = n /\ RunOfNode[n] = r /\ KindOf[r] = "task"
      /\ k \in Children /\ n \in Nodes /\ r \in Runs
  BY Topology DEF FencedAttempt, IsFreshAttempt
<1>2. /\ Story(d, r) /\ RunExists(d, r) /\ d.runs[r] \in RunStatus /\ d \in Database
      /\ a \in Made(d, k) /\ d.attempts[a] \in AttemptRow
      /\ d.children[k] \in ChildRow /\ d.nodes[n] \in NodeStatus
  BY <1>1, StartedIsCurrent DEF StoreInv
<1>3. d.nodes[n] \notin Terminal /\ d.runs[r] \notin Terminal
  BY <1>1, <1>2 DEF Story, Agreed
<1> DEFINE kid == [d.children[k] EXCEPT !.status = "completed"]
           att == [d.attempts[a] EXCEPT !.status = "completed"]
           d1 == CompleteCurrentAttempt(d, a)
<1>4. /\ kid \in ChildRow /\ kid.status = "completed" /\ kid.current = a
      /\ kid.count = d.children[k].count
      /\ att \in AttemptRow /\ att.status = "completed" /\ att.number = d.attempts[a].number
  BY <1>1, <1>2 DEF ChildRow, AttemptRow, NodeStatus, AttemptStatus
<1>5. d1 = [d EXCEPT !.attempts = [d.attempts EXCEPT ![a] = att],
                     !.children = [d.children EXCEPT ![k] = kid]]
  BY <1>1 DEF CompleteCurrentAttempt
<1>. HIDE DEF kid, att, d1
<1>6. /\ d1 \in Database /\ d1.runs = d.runs /\ d1.nodes = d.nodes
      /\ d1.attempts = [d.attempts EXCEPT ![a] = att]
      /\ d1.children = [d.children EXCEPT ![k] = kid]
  BY <1>2, <1>4, <1>5 DEF Database
<1>7. e = [d1 EXCEPT !.nodes = [d.nodes EXCEPT ![n] = "completed"],
                     !.runs = [d.runs EXCEPT ![r] = "completed"]]
  <2>1. CompleteNode(d1, n) = [d1 EXCEPT !.nodes = [d.nodes EXCEPT ![n] = "completed"]]
    BY <1>2, <1>3, <1>6 DEF CompleteNode, SetNode, NodeSources, Terminal
  <2>2. e = CompleteRun(CompleteNode(d1, n), r)
    BY <1>1 DEF CompletedDb, d1
  <2>3. CompleteNode(d1, n).runs = d.runs
    BY <1>6, <2>1 DEF Database
  <2>. QED  BY <1>2, <1>3, <1>6, <2>1, <2>2, <2>3 DEF CompleteRun, SetRun, RunSources, Terminal
<1>8. /\ e \in Database /\ e.runs = [d.runs EXCEPT ![r] = "completed"]
      /\ e.nodes = [d.nodes EXCEPT ![n] = "completed"]
      /\ e.attempts = [d.attempts EXCEPT ![a] = att]
      /\ e.children = [d.children EXCEPT ![k] = kid]
  <2>1. /\ [d.nodes EXCEPT ![n] = "completed"] \in [Nodes -> NodeStatus \cup {None}]
        /\ [d.runs EXCEPT ![r] = "completed"] \in [Runs -> RunStatus \cup {"absent", "deleted"}]
    BY <1>1, <1>2 DEF Database, NodeStatus, RunStatus
  <2>. QED  BY <1>6, <1>7, <2>1 DEF Database
<1>9. /\ e.runs[r] = "completed" /\ e.nodes[n] = "completed" /\ e.attempts[a] = att
      /\ e.children[k] = kid /\ \A b \in Attempts \ {a} : e.attempts[b] = d.attempts[b]
      /\ att # None /\ kid # None
  BY <1>1, <1>2, <1>4, <1>8, NoneIsNoRow DEF Database
<1>10. Local(d, e, r)
  BY <1>1, <1>2, <1>8, Topology DEF Local, Database
<1>11. RunExists(e, r)
  BY <1>9 DEF RunExists, RunStatus
<1>12. Linked(e, r)
  BY <1>1, <1>4, <1>9, <1>11, NoneIsNoRow DEF Linked, Made, NodeStatus
<1>13. Agreed(e, r)
  BY <1>4, <1>9, <1>11 DEF Agreed, Terminal
<1>14. Retried(e, r)
  BY <1>1, <1>2, <1>4, <1>9, <1>11, RetriedFrame DEF Story, Failure
<1>15. Grows(d, e, r)
  BY <1>1, <1>3, <1>4, <1>9, <1>2 DEF Grows, RunIsTerminal, Terminal, Made, RunStatus
<1>16. StoreInv(e) /\ Grown(d, e) /\ SameCurrent(d, e)
  BY <1>1, <1>2, <1>4, <1>9, <1>10, <1>12, <1>13, <1>14, <1>15, LocalSuffices DEF Story
<1>17. Shown(d, e)
  <2>1. Ends(d, e, r, a, "completed")
    BY <1>1, <1>4, <1>9, <1>11 DEF Ends, Made
  <2>2. Seen(d, e, r)
    BY <1>3, <1>4, <1>9, <2>1 DEF Seen
  <2>. QED  BY <1>1, <1>10, <2>2 DEF Shown
<1>. QED  BY <1>9, <1>16, <1>17
\* The last attempt the policy allows fails: child, node and run are
\* closed with it, whatever the sweep has closed before.
LEMMA ExhaustSound ==
    ASSUME NEW d, StoreInv(d), NEW a \in Attempts, NEW f \in Failure,
           d.attempts[a] # None, d.attempts[a].status = "started", ~ShouldRetryAttempt(d, a),
           NEW e, e = FailedDb(SettleCurrentAttempt(d, a, f), ChildOf[a])
    PROVE  /\ StoreInv(e) /\ Grown(d, e) /\ SameCurrent(d, e)
           /\ e.runs[RunOf[a]] \in Terminal /\ Shown(d, e)
           /\ \A b \in Attempts : d.attempts[b] # None => e.attempts[b] # None
<1> DEFINE r == RunOf[a]
           k == TaskChild[r]
           n == TaskNode[r]
           att == [d.attempts[a] EXCEPT !.status = f]
           d1 == SettleCurrentAttempt(d, a, f)
           kid == IF d.children[k].status \in Terminal THEN d.children[k]
                  ELSE [d.children[k] EXCEPT !.status = "failed"]
           node == IF d.nodes[n] \in Terminal THEN d.nodes[n] ELSE "failed"
           run == IF d.runs[r] \in Terminal THEN d.runs[r] ELSE "failed"
<1>1. /\ ChildOf[a] = k /\ NodeOf[k] = n /\ RunOfNode[n] = r /\ KindOf[r] = "task" /\ k \in Single
      /\ k \in Children /\ n \in Nodes /\ r \in Runs
  BY Topology
<1>2. /\ Story(d, r) /\ RunExists(d, r) /\ d.runs[r] \in RunStatus /\ d \in Database
      /\ a \in Made(d, k) /\ d.attempts[a] \in AttemptRow
      /\ d.children[k] \in ChildRow /\ d.nodes[n] \in NodeStatus
      /\ d.children[k].current = a
  BY StartedIsCurrent DEF StoreInv
<1>3. /\ d.runs[r] # "completed" /\ d.nodes[n] # "completed" /\ d.children[k].status # "completed"
      /\ d.children[k].count >= RetryAttempts[k]
  <2>1. d.attempts[a].number = d.children[k].count
    BY <1>2 DEF Story, Retried
  <2>2. d.children[k].count \in Int /\ RetryAttempts[k] \in Int
    BY <1>1, <1>2, RunAssumption DEF RunAssumption, ChildRow
  <2>. QED  BY <1>1, <1>2, <2>1, <2>2 DEF Story, Agreed, ShouldRetryAttempt
<1>4. /\ att \in AttemptRow /\ att.status = f /\ att.number = d.attempts[a].number
      /\ kid \in ChildRow /\ kid.status \in Terminal /\ kid.status # "completed"
      /\ kid.current = a /\ kid.count = d.children[k].count
      /\ node \in Terminal /\ node # "completed" /\ run \in Terminal /\ run # "completed"
      /\ run \in RunStatus /\ node \in NodeStatus
      /\ run = d.runs[r] \/ run = "failed"
  BY <1>2, <1>3 DEF ChildRow, AttemptRow, NodeStatus, AttemptStatus, Failure, Terminal, RunStatus
<1>5. d1 = [d EXCEPT !.attempts = [d.attempts EXCEPT ![a] = att]]
  BY DEF SettleCurrentAttempt
<1>. HIDE DEF att, d1
<1>6. /\ d1 \in Database /\ d1.runs = d.runs /\ d1.nodes = d.nodes /\ d1.children = d.children
      /\ d1.attempts = [d.attempts EXCEPT ![a] = att]
  BY <1>2, <1>4, <1>5 DEF Database
<1> DEFINE d2 == FailNodeChild(d1, k)
           d3 == FailNode(d2, n)
<1>7. /\ d2 \in Database /\ d2.runs = d.runs /\ d2.nodes = d.nodes
      /\ d2.attempts = [d.attempts EXCEPT ![a] = att]
      /\ d2.children = [d.children EXCEPT ![k] = kid]
  <2>1. CASE d.children[k].status \in Terminal
    <3>1. d2 = d1
      BY <1>6, <2>1 DEF FailNodeChild, SetChild, NodeSources, Terminal
    <3>2. [d.children EXCEPT ![k] = kid] = d.children
      BY <1>1, <1>2, <2>1 DEF Database
    <3>. QED  BY <1>6, <3>1, <3>2
  <2>2. CASE d.children[k].status \notin Terminal
    <3>1. d2 = [d1 EXCEPT !.children = [d.children EXCEPT ![k] = kid]]
      BY <1>2, <1>6, <2>2, NoneIsNoRow
         DEF FailNodeChild, SetChild, NodeSources, Terminal, ChildRow, NodeStatus
    <3>. QED  BY <1>4, <1>6, <3>1 DEF Database
  <2>. QED  BY <2>1, <2>2
<1>. HIDE DEF d2, kid
<1>8. /\ d3 \in Database /\ d3.runs = d.runs /\ d3.nodes = [d.nodes EXCEPT ![n] = node]
      /\ d3.attempts = [d.attempts EXCEPT ![a] = att]
      /\ d3.children = [d.children EXCEPT ![k] = kid]
  <2>1. CASE d.nodes[n] \in Terminal
    <3>1. d3 = d2
      BY <1>7, <2>1 DEF FailNode, SetNode, NodeSources, Terminal
    <3>2. [d.nodes EXCEPT ![n] = node] = d.nodes
      BY <1>1, <1>2, <2>1 DEF Database
    <3>. QED  BY <1>7, <3>1, <3>2
  <2>2. CASE d.nodes[n] \notin Terminal
    <3>1. d3 = [d2 EXCEPT !.nodes = [d.nodes EXCEPT ![n] = node]]
      BY <1>2, <1>7, <2>2 DEF FailNode, SetNode, NodeSources, Terminal
    <3>. QED  BY <1>4, <1>7, <3>1 DEF Database
  <2>. QED  BY <2>1, <2>2
<1>9. e = FailRun(d3, r)
  BY <1>1 DEF FailedDb, d1, d2
<1>. HIDE DEF d3, node
<1>10. /\ e \in Database /\ e.runs = [d.runs EXCEPT ![r] = run] /\ e.nodes = [d.nodes EXCEPT ![n] = node]
       /\ e.attempts = [d.attempts EXCEPT ![a] = att]
       /\ e.children = [d.children EXCEPT ![k] = kid]
  <2>1. CASE d.runs[r] \in Terminal
    <3>1. e = d3
      BY <1>8, <1>9, <2>1 DEF FailRun, SetRun, RunSources, Terminal
    <3>2. [d.runs EXCEPT ![r] = run] = d.runs
      BY <1>1, <1>2, <2>1 DEF Database
    <3>. QED  BY <1>8, <3>1, <3>2
  <2>2. CASE d.runs[r] \notin Terminal
    <3>1. e = [d3 EXCEPT !.runs = [d.runs EXCEPT ![r] = run]]
      BY <1>2, <1>8, <1>9, <2>2 DEF FailRun, SetRun, RunSources, Terminal
    <3>. QED  BY <1>4, <1>8, <3>1 DEF Database
  <2>. QED  BY <2>1, <2>2
<1>11. /\ e.runs[r] = run /\ e.nodes[n] = node /\ e.attempts[a] = att
       /\ e.children[k] = kid /\ \A b \in Attempts \ {a} : e.attempts[b] = d.attempts[b]
       /\ att # None /\ kid # None /\ node # None
  BY <1>1, <1>2, <1>4, <1>10, NoneIsNoRow DEF Database
<1>12. Local(d, e, r)
  BY <1>1, <1>2, <1>10, Topology DEF Local, Database
<1>13. RunExists(e, r)
  BY <1>4, <1>11 DEF RunExists
<1>14. Linked(e, r)
  BY <1>1, <1>4, <1>11, <1>13 DEF Linked, Made
<1>15. Agreed(e, r)
  BY <1>2, <1>4, <1>11, <1>13 DEF Agreed, Terminal, Failure, Story
<1>16. Retried(e, r)
  BY <1>1, <1>2, <1>3, <1>4, <1>11, <1>13, RetriedFrame DEF Story
<1>17. Grows(d, e, r)
  <2>1. d.nodes[n] \in Terminal => node = d.nodes[n]
    BY DEF node
  <2>2. d.children[k].status \in Terminal => kid = d.children[k]
    BY DEF kid
  <2>. QED  BY <1>2, <1>4, <1>11, <2>1, <2>2 DEF Grows, RunIsTerminal, Terminal, Made, RunStatus
<1>18. StoreInv(e) /\ Grown(d, e) /\ SameCurrent(d, e)
  BY <1>1, <1>2, <1>4, <1>11, <1>12, <1>14, <1>15, <1>16, <1>17, LocalSuffices DEF Story
<1>19. Shown(d, e)
  <2>1. Ends(d, e, r, a, f)
    BY <1>1, <1>4, <1>11, <1>13 DEF Ends, Made
  <2>2. Seen(d, e, r)
    BY <1>3, <1>4, <1>11, <2>1 DEF Seen
  <2>. QED  BY <1>1, <1>12, <2>2 DEF Shown
<1>. QED  BY <1>4, <1>11, <1>18, <1>19
\* A failed attempt is retried: the next attempt gets the next number and
\* becomes the current one.
LEMMA RetrySound ==
    ASSUME NEW d, StoreInv(d), NEW a \in Attempts, NEW f \in Failure, NEW a2 \in Attempts,
           d.attempts[a] # None, d.attempts[a].status = "started", ShouldRetryAttempt(d, a),
           ChildOf[a2] = ChildOf[a], d.attempts[a2] = None,
           CanCreateAttempt(SettleCurrentAttempt(d, a, f), ChildOf[a]),
           NEW e, e = CreateAttempt(SettleCurrentAttempt(d, a, f), ChildOf[a], a2)
    PROVE  /\ StoreInv(e) /\ Grown(d, e)
           /\ e.runs = d.runs /\ e.children[ChildOf[a]].current = a2
           /\ e.attempts[a2] # None /\ Shown(d, e)
           /\ \A b \in Attempts : d.attempts[b] # None => e.attempts[b] # None
           /\ \A q \in Runs \ {RunOf[a]} : e.children[TaskChild[q]] = d.children[TaskChild[q]]
<1> DEFINE r == RunOf[a]
           k == TaskChild[r]
           n == TaskNode[r]
           c == d.children[k].count
           made == Made(d, k)
           att == [d.attempts[a] EXCEPT !.status = f]
           att2 == [status |-> "started", number |-> c + 1]
           kid == [status |-> "running", current |-> a2, count |-> c + 1]
           d1 == SettleCurrentAttempt(d, a, f)
           node == IF d.nodes[n] \in NodeSources("running") THEN "running" ELSE d.nodes[n]
<1>1. /\ ChildOf[a] = k /\ ChildOf[a2] = k /\ NodeOf[k] = n /\ RunOf[a2] = r
      /\ k \in Children /\ n \in Nodes /\ r \in Runs /\ a2 # a
  BY Topology
<1>2. /\ Story(d, r) /\ RunExists(d, r) /\ d.runs[r] \in RunStatus /\ d \in Database
      /\ a \in made /\ d.attempts[a] \in AttemptRow
      /\ d.children[k] \in ChildRow /\ d.nodes[n] \in NodeStatus
      /\ d.children[k].current = a /\ a2 \notin made
  BY StartedIsCurrent DEF StoreInv, Made
<1>3. /\ c \in Nat /\ Cardinality(made) = c /\ d.attempts[a].number = c
      /\ c < RetryAttempts[k] /\ RetryAttempts[k] \in Nat
      /\ {d.attempts[b].number : b \in made} = 1..c
  BY <1>1, <1>2, RunAssumption DEF Story, Retried, ShouldRetryAttempt, ChildRow, RunAssumption
<1>4. /\ Cardinality(made \cup {a2}) = c + 1 /\ c + 1 <= Cardinality(Attempts)
      /\ Cardinality(Attempts) \in Nat
  <2>1. /\ made \in SUBSET Attempts /\ made \cup {a2} \in SUBSET Attempts
        /\ IsFiniteSet(Attempts) /\ IsFiniteSet(made)
    <3>1. made \in SUBSET Attempts /\ made \cup {a2} \in SUBSET Attempts
      BY DEF Made
    <3>2. IsFiniteSet(Attempts)
      BY RowAssumption DEF RowAssumption
    <3>. QED  BY <3>1, <3>2, FS_Subset
  <2>2. Cardinality(made \cup {a2}) = c + 1
    <3>1. a2 \notin made
      BY <1>2
    <3>. HIDE DEF made, c
    <3>2. Cardinality(made \cup {a2}) = Cardinality(made) + 1
      BY <2>1, <3>1, FS_AddElement
    <3>. QED  BY <1>3, <3>2
  <2>3. Cardinality(made \cup {a2}) <= Cardinality(Attempts) /\ Cardinality(Attempts) \in Nat
    BY <2>1, FS_Subset, FS_CardinalityType
  <2>. QED  BY <2>2, <2>3
<1>5. /\ att \in AttemptRow /\ att.status = f /\ att.number = c
      /\ att2 \in AttemptRow /\ att2.status = "started" /\ att2.number = c + 1
      /\ kid \in ChildRow /\ kid.status = "running" /\ kid.current = a2 /\ kid.count = c + 1
  BY <1>2, <1>3, <1>4 DEF ChildRow, AttemptRow, NodeStatus, AttemptStatus, Failure
<1>6. d1 = [d EXCEPT !.attempts = [d.attempts EXCEPT ![a] = att]]
  BY DEF SettleCurrentAttempt
<1>7. /\ d1 \in Database /\ d1.runs = d.runs /\ d1.nodes = d.nodes /\ d1.children = d.children
      /\ d1.attempts = [d.attempts EXCEPT ![a] = att]
  <2>. HIDE DEF att, d1
  <2>. QED  BY <1>2, <1>5, <1>6 DEF Database
<1>8. d.children[k].status \notin Terminal
  BY <1>1, <1>7 DEF CanCreateAttempt, NodeSources, Terminal
<1>9. d.nodes[n] \notin Terminal /\ d.runs[r] \notin Terminal /\ node \notin Terminal /\ node \in NodeStatus
  BY <1>2, <1>8 DEF Story, Agreed, Terminal, NodeStatus
<1> DEFINE atts == [d.attempts EXCEPT ![a] = att, ![a2] = att2]
           d2 == [d1 EXCEPT !.attempts = atts, !.children = [d.children EXCEPT ![k] = kid]]
<1>10. e = SetNode(d2, n, "running")
  BY <1>1, <1>7 DEF CreateAttempt
<1>. HIDE DEF att, att2, kid, d1, node
<1>11. /\ d2 \in Database /\ d2.runs = d.runs /\ d2.nodes = d.nodes /\ d2.attempts = atts
       /\ d2.children = [d.children EXCEPT ![k] = kid]
  <2>1. atts \in [Attempts -> AttemptRow \cup {None}]
    BY <1>2, <1>5 DEF Database
  <2>. HIDE DEF atts
  <2>. QED  BY <1>2, <1>5, <1>7, <2>1 DEF Database
<1>. HIDE DEF d2
<1>12. /\ e \in Database /\ e.runs = d.runs /\ e.nodes = [d.nodes EXCEPT ![n] = node]
       /\ e.attempts = atts /\ e.children = [d.children EXCEPT ![k] = kid]
  <2>1. CASE d.nodes[n] \in NodeSources("running")
    <3>1. e = [d2 EXCEPT !.nodes = [d.nodes EXCEPT ![n] = node]]
      BY <1>10, <1>11, <2>1 DEF SetNode, node
    <3>. QED  BY <1>9, <1>11, <3>1 DEF Database
  <2>2. CASE d.nodes[n] \notin NodeSources("running")
    <3>1. e = d2
      BY <1>10, <1>11, <2>2 DEF SetNode
    <3>2. [d.nodes EXCEPT ![n] = node] = d.nodes
      BY <1>1, <1>2, <2>2 DEF Database, node
    <3>. QED  BY <1>11, <3>1, <3>2
  <2>. QED  BY <2>1, <2>2
<1>13. /\ e.runs[r] = d.runs[r] /\ e.nodes[n] = node /\ e.attempts[a] = att
       /\ e.attempts[a2] = att2 /\ e.children[k] = kid
       /\ \A b \in Attempts \ {a, a2} : e.attempts[b] = d.attempts[b]
       /\ att # None /\ att2 # None /\ kid # None /\ node # None
  BY <1>1, <1>2, <1>5, <1>9, <1>12, NoneIsNoRow DEF Database
<1>14. Local(d, e, r)
  BY <1>1, <1>2, <1>12, Topology DEF Local, Database
<1>15. RunExists(e, r)
  BY <1>2, <1>13 DEF RunExists
<1>16. Made(e, k) = made \cup {a2}
  BY <1>1, <1>2, <1>13 DEF Made
<1>17. Linked(e, r)
  BY <1>1, <1>5, <1>13, <1>15, <1>16 DEF Linked
<1>18. Agreed(e, r)
  BY <1>2, <1>5, <1>9, <1>13, <1>15 DEF Agreed, Story, Terminal
<1>19. Retried(e, r)
  <2>1. \A b \in made : e.attempts[b].number = d.attempts[b].number
    BY <1>2, <1>3, <1>5, <1>13 DEF Made
  <2>2. \A b \in made : d.attempts[b].number \in 1..c
    BY <1>3
  <2>3. {e.attempts[b].number : b \in Made(e, k)} = 1..(c + 1)
    <3>1. {e.attempts[b].number : b \in Made(e, k)} = {d.attempts[b].number : b \in made} \cup {c + 1}
      BY <1>5, <1>13, <1>16, <2>1
    <3>. QED  BY <1>3, <3>1
  <2>4. \A x, y \in Made(e, k) : e.attempts[x].number = e.attempts[y].number => x = y
    <3>1. \A x, y \in made : d.attempts[x].number = d.attempts[y].number => x = y
      BY <1>2 DEF Story, Retried
    <3>. QED  BY <1>3, <1>5, <1>13, <1>16, <2>1, <2>2, <3>1
  <2>5. \A b \in Made(e, k) \ {a2} : e.attempts[b].status \in Failure
    <3>1. \A b \in made \ {a} : d.attempts[b].status \in Failure
      BY <1>2 DEF Story, Retried
    <3>. QED  BY <1>2, <1>5, <1>13, <1>16, <3>1 DEF Made
  <2>6. c + 1 <= RetryAttempts[k]
    BY <1>3
  <2>. QED  BY <1>4, <1>5, <1>13, <1>16, <2>3, <2>4, <2>5, <2>6 DEF Retried, Failure
<1>20. Grows(d, e, r)
  BY <1>2, <1>5, <1>8, <1>9, <1>13 DEF Grows, RunIsTerminal, Terminal, Made
<1>21. StoreInv(e) /\ Grown(d, e)
  BY <1>1, <1>14, <1>17, <1>18, <1>19, <1>20, LocalSuffices DEF Story
<1>22. Shown(d, e)
  <2>1. Ends(d, e, r, a, f)
    BY <1>1, <1>2, <1>3, <1>5, <1>13, <1>15 DEF Ends, Made
  <2>2. Seen(d, e, r)
    BY <1>3, <1>5, <1>9, <1>13, <2>1 DEF Seen
  <2>. QED  BY <1>1, <1>14, <2>2 DEF Shown
<1>. QED  BY <1>1, <1>5, <1>12, <1>13, <1>14, <1>21, <1>22 DEF Local

\* startTaskRun creates the rows of a run together.
LEMMA StartSound ==
    ASSUME NEW d, StoreInv(d), NEW r \in Runs, d.runs[r] = "absent", NEW e,
           e = CreateAttempt(EnsureNodeChildren(CreateNode(CreateRun(d, r), TaskNode[r]), TaskNode[r]),
                             TaskChild[r], FirstAttempt[r])
    PROVE  /\ StoreInv(e) /\ Grown(d, e)
           /\ e.children[TaskChild[r]].current = FirstAttempt[r] /\ Shown(d, e)
           /\ d.attempts[FirstAttempt[r]] = None /\ e.attempts[FirstAttempt[r]] # None
           /\ \A b \in Attempts : d.attempts[b] # None => e.attempts[b] # None
           /\ \A q \in Runs \ {r} : /\ e.runs[q] = d.runs[q]
                                   /\ e.children[TaskChild[q]] = d.children[TaskChild[q]]
<1> DEFINE k == TaskChild[r]
           n == TaskNode[r]
           a == FirstAttempt[r]
           att == [status |-> "started", number |-> 1]
           new == [status |-> "pending", current |-> None, count |-> 0]
           kid == [status |-> "running", current |-> a, count |-> 1]
           runs == [d.runs EXCEPT ![r] = "queued"]
           d1 == CreateNode(CreateRun(d, r), n)
           d2 == EnsureNodeChildren(d1, n)
           d3 == [d2 EXCEPT !.attempts[a] = [status |-> "started", number |-> d2.children[k].count + 1],
                            !.children[k] = [status |-> "running", current |-> a, count |-> @.count + 1]]
<1>1. /\ ChildOf[a] = k /\ NodeOf[k] = n /\ RunOfNode[n] = r /\ RunOf[a] = r
      /\ k \in Children /\ n \in Nodes /\ a \in Attempts
      /\ d \in Database /\ Story(d, r) /\ ~RunExists(d, r)
  BY Topology DEF StoreInv, RunExists, RunStatus
<1>2. d.nodes[n] = None /\ d.children[k] = None /\ Made(d, k) = {}
  BY <1>1 DEF Story, Linked
<1>3. 1 <= Cardinality(Attempts) /\ Cardinality(Attempts) \in Nat
  <2>1. IsFiniteSet(Attempts) /\ {a} \subseteq Attempts /\ Cardinality({a}) = 1
    BY <1>1, RowAssumption, FS_Singleton DEF RowAssumption
  <2>. QED  BY <2>1, FS_Subset, FS_CardinalityType
<1>4. /\ att \in AttemptRow /\ att.status = "started" /\ att.number = 1
      /\ kid \in ChildRow /\ kid.status = "running" /\ kid.current = a /\ kid.count = 1
      /\ new \in ChildRow /\ new.count = 0
  BY <1>1, <1>3 DEF ChildRow, AttemptRow, NodeStatus, AttemptStatus
<1>5. d1 = [d EXCEPT !.runs = runs, !.nodes = [d.nodes EXCEPT ![n] = "pending"]]
  BY <1>1, <1>2 DEF CreateNode, CreateRun, Database
<1>6. /\ d1.runs = runs /\ d1.nodes = [d.nodes EXCEPT ![n] = "pending"]
      /\ d1.children = d.children /\ d1.attempts = d.attempts /\ d1 \in Database
  <2>1. runs \in [Runs -> RunStatus \cup {"absent", "deleted"}]
    BY <1>1 DEF Database, RunStatus
  <2>2. [d.nodes EXCEPT ![n] = "pending"] \in [Nodes -> NodeStatus \cup {None}]
    BY <1>1 DEF Database, NodeStatus
  <2>. HIDE DEF runs, d1
  <2>. QED  BY <1>1, <1>5, <2>1, <2>2 DEF Database
<1>. HIDE DEF d1, runs
<1>7. d2 = [d1 EXCEPT !.children = [d.children EXCEPT ![k] = new]]
  <2>1. [x \in Children |-> IF NodeOf[x] = n /\ d1.children[x] = None
                            THEN new ELSE d1.children[x]] = [d.children EXCEPT ![k] = new]
    <3>1. \A x \in Children : NodeOf[x] = n <=> x = k
      BY <1>1, Topology DEF ChildRun
    <3>. HIDE DEF new
    <3>. QED  BY <1>1, <1>2, <1>6, <3>1 DEF Database
  <2>. QED  BY <2>1 DEF EnsureNodeChildren
<1>8. /\ d2.runs = runs /\ d2.nodes = [d.nodes EXCEPT ![n] = "pending"]
      /\ d2.children = [d.children EXCEPT ![k] = new] /\ d2.attempts = d.attempts /\ d2 \in Database
  <2>. HIDE DEF new, d2
  <2>. QED  BY <1>4, <1>6, <1>7 DEF Database
<1>9. d2.children[k] = new
  BY <1>1, <1>8 DEF Database
<1>. HIDE DEF d2
<1>10. d3 = [d2 EXCEPT !.attempts = [d.attempts EXCEPT ![a] = att],
                       !.children = [d2.children EXCEPT ![k] = kid]]
  <2>1. d2.children[k].count + 1 = 1
    BY <1>4, <1>9
  <2>. QED  BY <1>8, <2>1
<1>11. e = SetNode(d3, n, "running")
  BY <1>1 DEF CreateAttempt, d1, d2
<1>. HIDE DEF d3, att, kid, new
<1>12. /\ d3.runs = runs /\ d3.nodes = [d.nodes EXCEPT ![n] = "pending"]
       /\ d3.children = [d.children EXCEPT ![k] = kid]
       /\ d3.attempts = [d.attempts EXCEPT ![a] = att] /\ d3 \in Database
  <2>1. [d2.children EXCEPT ![k] = kid] = [d.children EXCEPT ![k] = kid]
    BY <1>1, <1>8 DEF Database
  <2>2. /\ [d.attempts EXCEPT ![a] = att] \in [Attempts -> AttemptRow \cup {None}]
        /\ [d.children EXCEPT ![k] = kid] \in [Children -> ChildRow \cup {None}]
    BY <1>1, <1>4 DEF Database
  <2>. QED  BY <1>8, <1>10, <2>1, <2>2 DEF Database
<1>13. /\ e.runs = runs /\ e.nodes = [d.nodes EXCEPT ![n] = "running"]
       /\ e.children = [d.children EXCEPT ![k] = kid]
       /\ e.attempts = [d.attempts EXCEPT ![a] = att] /\ e \in Database
  <2>1. d3.nodes[n] = "pending"
    BY <1>1, <1>12 DEF Database
  <2>2. e = [d3 EXCEPT !.nodes = [d3.nodes EXCEPT ![n] = "running"]]
    BY <1>11, <2>1 DEF SetNode, NodeSources, Terminal
  <2>3. [d3.nodes EXCEPT ![n] = "running"] = [d.nodes EXCEPT ![n] = "running"]
    BY <1>1, <1>12 DEF Database
  <2>4. [d.nodes EXCEPT ![n] = "running"] \in [Nodes -> NodeStatus \cup {None}]
    BY <1>1 DEF Database, NodeStatus
  <2>. QED  BY <1>12, <2>2, <2>3, <2>4 DEF Database
<1>14. /\ e.runs[r] = "queued" /\ e.nodes[n] = "running" /\ e.attempts[a] = att
       /\ e.children[k] = kid /\ \A b \in Attempts \ {a} : e.attempts[b] = d.attempts[b]
       /\ att # None /\ kid # None
  BY <1>1, <1>4, <1>13, NoneIsNoRow DEF Database, runs
<1>15. Local(d, e, r)
  BY <1>1, <1>13, Topology DEF Local, Database, runs
<1>16. RunExists(e, r) /\ Made(e, k) = {a}
  BY <1>1, <1>2, <1>14 DEF RunExists, RunStatus, Made
<1>17. Linked(e, r)
  BY <1>4, <1>14, <1>16, NoneIsNoRow DEF Linked, NodeStatus
<1>18. Agreed(e, r)
  BY <1>4, <1>14, <1>16 DEF Agreed, Terminal
<1>19. Retried(e, r)
  <2>1. {e.attempts[b].number : b \in Made(e, k)} = 1..1
    BY <1>4, <1>14, <1>16
  <2>2. Cardinality({a}) = 1
    BY FS_Singleton
  <2>. QED  BY <1>4, <1>14, <1>16, <2>1, <2>2 DEF Retried, Failure
<1>20. Grows(d, e, r)
  BY <1>1, <1>2, NoneIsNoRow DEF Grows, RunIsTerminal, Terminal, NodeStatus
<1>21. StoreInv(e) /\ Grown(d, e)
  BY <1>15, <1>17, <1>18, <1>19, <1>20, LocalSuffices DEF Story
<1>22. Shown(d, e)
  BY <1>4, <1>14, <1>15 DEF Shown, Seen
<1>. QED  BY <1>1, <1>2, <1>4, <1>14, <1>15, <1>21, <1>22 DEF Local, Made
-----------------------------------------------------------------------------
(* What the statements on workflow_commands keep of the table.             *)

Sent(t) == {t[c].subject : c \in Rows(t)}

\* Between t and u nobody is given a lease.
NoNewLease(t, u) ==
    \A c \in Rows(u) : u[c].token # None =>
        /\ c \in Rows(t) /\ t[c].token = u[c].token
        /\ t[c].subject = u[c].subject /\ t[c].dead = u[c].dead

\* No command is lost, none is new and nobody is given a lease.
Quiet(t, u) ==
    TableInv(u) /\ Live(t) \subseteq Live(u) /\ Sent(u) \subseteq Sent(t) /\ NoNewLease(t, u)

\* One row is written: it keeps its subject, and keeps or loses its lease.
LEMMA TouchSound ==
    ASSUME NEW t, TableInv(t), NEW c \in Rows(t), NEW row \in Row, SoundRow(row),
           row.subject = t[c].subject, row.reaped => t[c].reaped,
           row.token = None \/ (row.token = t[c].token /\ row.dead = t[c].dead),
           row.subject \in Runs => row.token = None /\ ~row.dead,
           NEW u, u = [t EXCEPT ![c] = row]
    PROVE  Quiet(t, u)
<1>1. c \in CommandIds /\ t \in Table /\ row # None
  BY NoneAssumption DEF TableInv, Rows, NoneAssumption
<1>2. /\ u \in Table /\ u[c] = row /\ \A d \in CommandIds \ {c} : u[d] = t[d]
      /\ Rows(u) = Rows(t)
  BY <1>1 DEF Table, Rows
<1>3. TableInv(u)
  BY <1>2 DEF TableInv, Sound, ContinuesIdle, Rows
<1>4. Live(t) \subseteq Live(u)
  BY <1>2 DEF Live, Rows
<1>5. Sent(u) \subseteq Sent(t)
  BY <1>2 DEF Sent, Rows
<1>6. NoNewLease(t, u)
  BY <1>2 DEF NoNewLease, Rows
<1>. QED  BY <1>3, <1>4, <1>5, <1>6 DEF Quiet

\* Rows of gone are deleted.
LEMMA RemoveSound ==
    ASSUME NEW t, TableInv(t), NEW u, NEW gone,
           u = [c \in CommandIds |-> IF c \in gone THEN None ELSE t[c]]
    PROVE  /\ TableInv(u) /\ Sent(u) \subseteq Sent(t) /\ NoNewLease(t, u)
           /\ Live(t) \ {t[c].subject : c \in gone \cap Rows(t)} \subseteq Live(u)
           /\ \A s \in Sent(u) : \E c \in Rows(t) \ gone : t[c].subject = s
<1>1. u \in Table /\ Rows(u) = Rows(t) \ gone /\ \A c \in Rows(u) : u[c] = t[c]
  BY DEF TableInv, Table, Rows
<1>2. TableInv(u)
  BY <1>1 DEF TableInv, Sound, ContinuesIdle, Rows
<1>3. Live(t) \ {t[c].subject : c \in gone \cap Rows(t)} \subseteq Live(u)
  BY <1>1 DEF Live
<1>. QED  BY <1>1, <1>2, <1>3 DEF Sent, NoNewLease

\* releaseCommand of a live row only takes the lease off it.
LEMMA ReleaseQuiet ==
    ASSUME NEW t, TableInv(t), NEW c \in CommandIds, NEW w \in Workers, NEW u,
           \/ u = ReleasePlain(t, c, w)
           \/ u = ReleaseCounted(t, c, w) /\ (Leased(t, c, w) => ~t[c].dead)
    PROVE  Quiet(t, u)
<1>1. CASE u = t
  BY <1>1 DEF Quiet, NoNewLease
<1>2. ASSUME u # t  PROVE  Quiet(t, u)
  <2>1. Leased(t, c, w)
    BY <1>2 DEF ReleasePlain, ReleaseCounted
  <2>2. /\ c \in Rows(t) /\ t[c] \in Row /\ SoundRow(t[c]) /\ t[c].token = w
        /\ t[c].subject \notin Runs
    BY <2>1, DisjointAssumption, RowsAreRows
       DEF Leased, TableInv, Sound, ContinuesIdle, DisjointAssumption
  <2> DEFINE Free(row) == [row EXCEPT !.token = None, !.expired = FALSE, !.due = FALSE]
  <2>3. ASSUME NEW row \in Row, SoundRow(row), row.subject = t[c].subject, row.reaped = t[c].reaped,
               u = [t EXCEPT ![c] = Free(row)]
        PROVE  Quiet(t, u)
    <3>1. /\ Free(row) \in Row /\ Free(row).subject = row.subject
          /\ Free(row).token = None /\ Free(row).deliveries = row.deliveries
          /\ Free(row).dead = row.dead /\ Free(row).reaped = row.reaped
      BY <2>3 DEF Row
    <3>. HIDE DEF Free
    <3>2. SoundRow(Free(row))
      BY <2>3, <3>1 DEF SoundRow
    <3>. QED  BY <2>2, <2>3, <3>1, <3>2, TouchSound
  <2>4. CASE u = ReleasePlain(t, c, w)
    <3>1. u = [t EXCEPT ![c] = Free(t[c])]
      BY <1>2, <2>4 DEF ReleasePlain
    <3>. QED  BY <2>2, <2>3, <3>1
  <2>5. CASE u = ReleaseCounted(t, c, w) /\ (Leased(t, c, w) => ~t[c].dead)
    <3>1. u = [t EXCEPT ![c] = Free(Counted(t[c]))]
      BY <1>2, <2>5 DEF ReleaseCounted
    <3>2. /\ Counted(t[c]) \in Row /\ SoundRow(Counted(t[c]))
          /\ Counted(t[c]).subject = t[c].subject
      BY <2>1, <2>2, <2>5, CountedSound
    <3>3. Counted(t[c]).reaped = t[c].reaped
      BY <2>2 DEF Counted, Row
    <3>. HIDE DEF Free
    <3>. QED  BY <2>3, <3>1, <3>2, <3>3
  <2>. QED  BY <2>4, <2>5
<1>. QED  BY <1>1, <1>2

\* A heartbeat, a lease that expires and a command that becomes due change
\* a flag of one row.
LEMMA ClockQuiet ==
    ASSUME NEW t, TableInv(t), NEW c \in Rows(t), NEW u,
           \/ u = [t EXCEPT ![c].expired = FALSE]
           \/ u = [t EXCEPT ![c].expired = TRUE]
           \/ u = [t EXCEPT ![c].due = TRUE]
    PROVE  Quiet(t, u)
<1>1. PICK row : /\ u = [t EXCEPT ![c] = row]
                 /\ \/ row = [t[c] EXCEPT !.expired = FALSE]
                    \/ row = [t[c] EXCEPT !.expired = TRUE]
                    \/ row = [t[c] EXCEPT !.due = TRUE]
  OBVIOUS
<1>2. t[c] \in Row /\ SoundRow(t[c]) /\ (t[c].subject \in Runs => t[c].token = None /\ ~t[c].dead)
  BY RowsAreRows DEF TableInv, Sound, ContinuesIdle
<1>3. /\ row \in Row /\ row.subject = t[c].subject /\ row.token = t[c].token
      /\ row.deliveries = t[c].deliveries /\ row.dead = t[c].dead /\ row.reaped = t[c].reaped
  BY <1>1, <1>2 DEF Row
<1>4. SoundRow(row)
  BY <1>2, <1>3 DEF SoundRow
<1>. QED  BY <1>1, <1>2, <1>3, <1>4, TouchSound

\* requeueDeadCommand gives the row a new life.
LEMMA RequeueQuiet ==
    ASSUME NEW t, TableInv(t), NEW c \in CommandIds, NEW u, u = RequeueDeadCommand(t, c)
    PROVE  Quiet(t, u)
<1>1. CASE u = t
  BY <1>1 DEF Quiet, NoNewLease
<1>2. CASE u # t
  <2>1. c \in Rows(t) /\ t[c].dead /\ u = [t EXCEPT ![c] = NewRow(t[c].subject, TRUE)]
    BY <1>2 DEF RequeueDeadCommand
  <2>2. t[c].subject \in Subjects /\ t[c].subject \notin Runs
    BY <2>1, RowsAreRows DEF TableInv, ContinuesIdle, Row
  <2>3. /\ NewRow(t[c].subject, TRUE) \in Row /\ SoundRow(NewRow(t[c].subject, TRUE))
        /\ NewRow(t[c].subject, TRUE).subject = t[c].subject
        /\ NewRow(t[c].subject, TRUE).token = None
    BY <2>2, NewRowSound
  <2>4. ~NewRow(t[c].subject, TRUE).reaped
    BY DEF NewRow
  <2>. QED  BY <2>1, <2>2, <2>3, <2>4, TouchSound
<1>. QED  BY <1>1, <1>2

\* An id of the table gets the row of a new command.
LEMMA InsertSound ==
    ASSUME NEW t, TableInv(t), HasRoom(t), NEW s \in Subjects, NEW now \in BOOLEAN,
           NEW u, u = [t EXCEPT ![FreeId(t)] = NewRow(s, now)]
    PROVE  /\ TableInv(u) /\ Live(t) \cup {s} \subseteq Live(u) /\ Sent(u) \subseteq Sent(t) \cup {s}
           /\ NoNewLease(t, u)
<1> DEFINE c == FreeId(t)
<1>1. c \in CommandIds /\ c \notin Rows(t)
  BY DEF HasRoom, FreeId, Rows
<1>. HIDE DEF c
<1> DEFINE row == NewRow(s, now)
<1>2. row \in Row /\ SoundRow(row) /\ row.subject = s /\ row.token = None /\ row # None
  BY NewRowSound
<1>3. ~row.reaped /\ ~row.dead
  BY DEF NewRow
<1>4. u = [t EXCEPT ![c] = row]
  BY DEF c
<1>. HIDE DEF row
<1>5. /\ u \in Table /\ u[c] = row /\ \A d \in CommandIds \ {c} : u[d] = t[d]
      /\ Rows(u) = Rows(t) \cup {c}
  BY <1>1, <1>2, <1>4 DEF Table, Rows, TableInv
<1>6. TableInv(u)
  BY <1>2, <1>3, <1>5 DEF TableInv, Sound, ContinuesIdle, Rows
<1>7. Live(t) \cup {s} \subseteq Live(u)
  BY <1>1, <1>2, <1>3, <1>5 DEF Live, Rows
<1>8. Sent(u) \subseteq Sent(t) \cup {s}
  BY <1>2, <1>5 DEF Sent, Rows
<1>9. NoNewLease(t, u)
  BY <1>2, <1>5 DEF NoNewLease, Rows
<1>. QED  BY <1>6, <1>7, <1>8, <1>9

\* runCoordinationExecutor.enqueue, absorbed or inserted.
LEMMA EnqueueSound ==
    ASSUME NEW t, TableInv(t), NEW r \in Runs, RoomFor(t, r), NEW u, u = EnqueueContinueRun(t, r)
    PROVE  /\ TableInv(u) /\ Live(t) \subseteq Live(u) /\ Sent(u) \subseteq Sent(t) \cup {r}
           /\ NoNewLease(t, u)
<1>1. CASE InDedupIndex(t, r) = {}
  <2>1. HasRoom(t) /\ r \in Subjects /\ u = [t EXCEPT ![FreeId(t)] = NewRow(r, TRUE)]
    BY <1>1 DEF RoomFor, EnqueueContinueRun, InsertContinue, Subjects
  <2>. QED  BY <2>1, InsertSound
<1>2. CASE InDedupIndex(t, r) # {}
  <2>1. u = [d \in CommandIds |-> IF d \in InDedupIndex(t, r)
                                  THEN [t[d] EXCEPT !.due = @ \/ TRUE] ELSE t[d]]
    BY <1>2 DEF EnqueueContinueRun, InsertContinue
  <2>2. ASSUME NEW d \in InDedupIndex(t, r)
        PROVE  /\ d \in Rows(t) /\ d \in CommandIds /\ u[d] \in Row /\ u[d] # None
               /\ u[d].subject = t[d].subject /\ u[d].token = t[d].token
               /\ u[d].dead = t[d].dead /\ SoundRow(u[d]) /\ u[d].reaped = t[d].reaped
    <3>1. d \in Rows(t) /\ d \in CommandIds /\ t[d] \in Row /\ SoundRow(t[d])
      BY RowsAreRows DEF InDedupIndex, Sound, TableInv
    <3>2. (t[d].due \/ TRUE) \in BOOLEAN
      BY Zenon
    <3>3. u[d] = [t[d] EXCEPT !.due = t[d].due \/ TRUE]
      BY <2>1, <3>1
    <3>4. u[d] \in Row
      BY <3>1, <3>2, <3>3 DEF Row
    <3>5. /\ u[d].subject = t[d].subject /\ u[d].token = t[d].token
          /\ u[d].dead = t[d].dead /\ u[d].deliveries = t[d].deliveries
          /\ u[d].reaped = t[d].reaped
      BY <3>1, <3>3 DEF Row
    <3>. QED  BY <3>1, <3>4, <3>5, NoneAssumption DEF SoundRow, NoneAssumption
  <2>3. \A d \in CommandIds : d \notin InDedupIndex(t, r) => u[d] = t[d]
    BY <2>1
  <2>4. u \in Table
    <3>1. \A d \in CommandIds : u[d] \in Row \cup {None}
      BY <2>2, <2>3 DEF Table, TableInv
    <3>2. u = [d \in CommandIds |-> u[d]]
      BY <2>1
    <3>. QED  BY <3>1, <3>2 DEF Table
  <2>5. Rows(u) = Rows(t)
    BY <2>2, <2>3 DEF Rows, InDedupIndex
  <2>6. \A d \in Rows(t) : /\ u[d].subject = t[d].subject /\ u[d].token = t[d].token
                           /\ u[d].dead = t[d].dead /\ u[d].reaped = t[d].reaped /\ SoundRow(u[d])
    BY <2>2, <2>3 DEF Rows, TableInv, Sound
  <2>7. TableInv(u)
    BY <2>4, <2>5, <2>6 DEF TableInv, Sound, ContinuesIdle
  <2>. QED  BY <2>5, <2>6, <2>7 DEF Live, Sent, NoNewLease
<1>. QED  BY <1>1, <1>2
\* claimCommand gives one row a lease.
LEMMA ClaimQuiet ==
    ASSUME NEW t, TableInv(t), NEW c \in CommandIds, NEW w \in Workers, Claimable(t, c),
           t[c].subject \in Attempts, NEW u, u = Claim(t, c, w)
    PROVE  /\ TableInv(u) /\ Live(t) \subseteq Live(u) /\ Sent(u) \subseteq Sent(t)
           /\ u[c].subject = t[c].subject /\ \A d \in CommandIds \ {c} : u[d] = t[d]
<1>1. /\ u \in Table /\ Sound(u) /\ u[c] \in Row /\ u[c].subject = t[c].subject
      /\ \A d \in CommandIds \ {c} : u[d] = t[d]
  BY ClaimSound DEF TableInv
<1>2. c \in Rows(t) /\ t[c] \in Row /\ t \in Table /\ SoundRow(t[c]) /\ ~t[c].dead
  BY RowsAreRows DEF TableInv, Claimable, Sound
<1>3. u[c].reaped = t[c].reaped
  <2> DEFINE row == IF t[c].token # None THEN Counted(t[c]) ELSE t[c]
  <2>1. row \in Row
    BY <1>2, CountedSound
  <2>2. row.reaped = t[c].reaped
    BY <1>2 DEF Counted, Row
  <2>3. u[c] = [row EXCEPT !.token = w, !.expired = FALSE]
    BY <1>2 DEF Claim, Table
  <2>. HIDE DEF row
  <2>. QED  BY <2>1, <2>2, <2>3 DEF Row
<1>4. Rows(u) = Rows(t)
  BY <1>1, <1>2, NoneAssumption DEF Rows, NoneAssumption
<1>5. ContinuesIdle(u)
  BY <1>1, <1>4, DisjointAssumption DEF TableInv, ContinuesIdle, DisjointAssumption, Rows
<1>6. Live(t) \subseteq Live(u) /\ Sent(u) \subseteq Sent(t)
  BY <1>1, <1>3, <1>4 DEF Live, Sent, Rows
<1>. QED  BY <1>1, <1>5, <1>6 DEF TableInv

-----------------------------------------------------------------------------
(* The steps.                                                              *)

\* What is known or over stays so.
LEMMA GrownKeeps ==
    ASSUME NEW d, NEW e, StoreInv(d), StoreInv(e), Grown(d, e), NEW a \in Attempts
    PROVE  /\ Known(d, a) => Known(e, a)
           /\ Known(d, a) /\ Over(d, a) => Over(e, a)
           /\ Known(d, a) /\ (d.runs[RunOf[a]] = "deleted" \/ d.children[ChildOf[a]].status \in Terminal)
                => e.runs[RunOf[a]] = "deleted" \/ e.children[ChildOf[a]].status \in Terminal
           /\ Known(d, a) /\ (d.runs[RunOf[a]] = "deleted" \/ d.nodes[NodeOf[ChildOf[a]]] \in Terminal)
                => e.runs[RunOf[a]] = "deleted" \/ e.nodes[NodeOf[ChildOf[a]]] \in Terminal
<1> DEFINE r == RunOf[a]
           k == ChildOf[a]
<1>1. r \in Runs /\ k = TaskChild[r] /\ NodeOf[k] = TaskNode[r] /\ Grows(d, e, r)
  BY Topology DEF Grown
<1>2. d.attempts[a] # None => a \in Made(d, k) /\ d.children[k] # None
  BY <1>1, StartedIsCurrent, NoneIsNoRow DEF Made
<1>3. Known(d, a) => Known(e, a)
  BY <1>1, <1>2 DEF Known, Grows
<1>4. Known(d, a) /\ Over(d, a) => Over(e, a)
  BY <1>1, <1>2 DEF Known, Over, Grows, RunIsTerminal
<1>5. Known(d, a) /\ (d.runs[r] = "deleted" \/ d.children[k].status \in Terminal)
                => e.runs[r] = "deleted" \/ e.children[k].status \in Terminal
  BY <1>1, <1>2 DEF Known, Grows
<1>6. Known(d, a) /\ (d.runs[r] = "deleted" \/ d.nodes[NodeOf[k]] \in Terminal)
                => e.runs[r] = "deleted" \/ e.nodes[NodeOf[k]] \in Terminal
  BY <1>1, <1>2 DEF Known, Grows
<1>. QED  BY <1>3, <1>4, <1>5, <1>6

\* A sweep that does not move stays sound.
LEMMA ReaperKept ==
    ASSUME TaskInv, StoreInv(db'), Grown(db, db'), reaper' = reaper
    PROVE  ReaperSound'
<1>. SUFFICES ASSUME reaper # None  PROVE  ReaperSound'
  BY DEF ReaperSound
<1>1. reaper.attempt \in Attempts
  BY DEF TaskInv, TypeOK, Reaping
<1>. QED  BY <1>1, GrownKeeps DEF TaskInv, ReaperSound

\* A step that starts no attempt strands no run, if what it takes off the
\* queue is over.
LEMMA StrandedKept ==
    ASSUME TaskInv, StoreInv(db'), Grown(db, db'), SameCurrent(db, db'),
           \A a \in Live(cmds) \cap Attempts : a \in Live(cmds') \/ Over(db', a)
    PROVE  NotStranded'
<1>. SUFFICES ASSUME NEW r \in Runs, db'.runs[r] \in {"queued", "running"},
                     db'.children[TaskChild[r]].status \notin Terminal
              PROVE  db'.children[TaskChild[r]].current \in Live(cmds')
  BY DEF NotStranded, Started, Unreaped, Live
<1> DEFINE k == TaskChild[r]
           a == db.children[k].current
<1>1. RunExists(db', r) /\ RunExists(db, r) /\ db'.children[k].current = a /\ Grows(db, db', r)
      /\ Story(db, r) /\ Story(db', r)
  BY DEF RunExists, RunStatus, SameCurrent, Grown, TaskInv, StoreInv
<1>2. db.runs[r] \in {"queued", "running"}
  BY <1>1 DEF Grows, RunIsTerminal, Terminal, RunExists, RunStatus, Story, Agreed
<1>3. db.children[k].status \notin Terminal
  BY <1>1 DEF Grows, Story, Linked
<1>4. a \in Live(cmds)
  BY <1>2, <1>3 DEF TaskInv, NotStranded, Started, Unreaped, Live
<1>5. a \in Attempts /\ RunOf[a] = r /\ ChildOf[a] = k
  BY <1>1, Topology DEF Story, Linked, Made
<1>6. ~Over(db', a)
  BY <1>1, <1>5 DEF Over, Terminal
<1>. QED  BY <1>1, <1>4, <1>5, <1>6

\* A worker's memory after a step: it has nothing new, and what it drops
\* or finds stale is over.
Remembers(v) ==
    held'[v] # None =>
        /\ held[v] # None /\ held'[v].cmd = held[v].cmd /\ held'[v].attempt = held[v].attempt
        /\ \/ held'[v] = held[v]
           \/ /\ held'[v].pc \in {"dropping", "stale"} => Over(db', held[v].attempt)
              /\ held'[v].pc = "stale" =>
                    held'[v].child = None \/ held'[v].child.current # held[v].attempt

\* The invariant after a step, from what the step did to each part.
LEMMA StepSound ==
    ASSUME TaskInv, StoreInv(db'), Grown(db, db'), TableInv(cmds'), NoNewLease(cmds, cmds'),
           \A s \in Attempts \cap Sent(cmds') : db'.attempts[s] # None,
           held' \in [Workers -> Execution \cup {None}], \A v \in Workers : Remembers(v),
           canceller' \subseteq Runs,
           reaper' \in Reaping \cup {None}, ReaperSound', NotStranded'
    PROVE  TaskInv'
<1>1. TypeOK'
  BY DEF TypeOK, StoreInv, TableInv
<1>2. CommandsKnown'
  BY DEF CommandsKnown, Sent
<1>3. \A v \in Workers : held[v] # None => held[v] \in Execution /\ held[v].attempt \in Attempts
                                        /\ held[v].cmd \in CommandIds
  BY DEF TaskInv, TypeOK, Execution
<1>4. LeaseMatches'
  <2>. SUFFICES ASSUME NEW v \in Workers, held'[v] # None,
                       held'[v].cmd \in Rows(cmds'), cmds'[held'[v].cmd].token = v
                PROVE  /\ ~cmds'[held'[v].cmd].dead
                       /\ cmds'[held'[v].cmd].subject = held'[v].attempt
    BY DEF LeaseMatches, Busy, HoldsLease, Leased
  <2>1. /\ held[v] # None /\ held'[v].cmd = held[v].cmd /\ held'[v].attempt = held[v].attempt
    BY DEF Remembers
  <2>2. v # None
    BY DisjointAssumption DEF DisjointAssumption
  <2>3. /\ held[v].cmd \in Rows(cmds) /\ cmds[held[v].cmd].token = v
        /\ cmds[held[v].cmd].subject = cmds'[held[v].cmd].subject
        /\ cmds[held[v].cmd].dead = cmds'[held[v].cmd].dead
    BY <2>1, <2>2 DEF NoNewLease
  <2>. QED  BY <2>1, <2>3 DEF TaskInv, LeaseMatches, Busy, HoldsLease, Leased
<1>5. WorkerSound'
  <2>. SUFFICES ASSUME NEW v \in Workers, held'[v] # None
                PROVE  /\ Known(db', held'[v].attempt)
                       /\ held'[v].pc \in {"dropping", "stale"} => Over(db', held'[v].attempt)
                       /\ held'[v].pc = "stale" =>
                             held'[v].child = None \/ held'[v].child.current # held'[v].attempt
    BY DEF WorkerSound, Busy
  <2>1. held[v] # None /\ held'[v].attempt = held[v].attempt /\ held[v].attempt \in Attempts
    BY <1>3 DEF Remembers
  <2>2. /\ Known(db, held[v].attempt)
        /\ held[v].pc \in {"dropping", "stale"} => Over(db, held[v].attempt)
        /\ held[v].pc = "stale" => held[v].child = None \/ held[v].child.current # held[v].attempt
    BY <2>1 DEF TaskInv, WorkerSound, Busy
  <2>3. Known(db', held[v].attempt) /\ (Over(db, held[v].attempt) => Over(db', held[v].attempt))
    BY <2>1, <2>2, GrownKeeps DEF TaskInv
  <2>. QED  BY <2>1, <2>2, <2>3 DEF Remembers
<1>. QED  BY <1>1, <1>2, <1>4, <1>5 DEF TaskInv
\* A database that stays as it is grows.
LEMMA SameGrown ==
    ASSUME NEW d, StoreInv(d)
    PROVE  Grown(d, d) /\ SameCurrent(d, d)
BY StoryFrame DEF StoreInv, Grown, SameCurrent

\* A step that writes no row of a run, loses no command but those that are
\* over, and sends none to an attempt.
LEMMA IdleStep ==
    ASSUME TaskInv, db' = db, TableInv(cmds'), NoNewLease(cmds, cmds'),
           Sent(cmds') \cap Attempts \subseteq Sent(cmds), 
           \A a \in Live(cmds) \cap Attempts : a \in Live(cmds') \/ Over(db, a),
           held' \in [Workers -> Execution \cup {None}], \A v \in Workers : Remembers(v),
           canceller' \subseteq Runs,
           reaper' = reaper \/ (reaper' \in Reaping \cup {None} /\ ReaperSound')
    PROVE  TaskInv'
<1>1. StoreInv(db') /\ Grown(db, db') /\ SameCurrent(db, db')
  BY SameGrown DEF TaskInv
<1>2. \A s \in Attempts \cap Sent(cmds') : db'.attempts[s] # None
  BY DEF TaskInv, CommandsKnown, Sent
<1>3. ReaperSound' /\ reaper' \in Reaping \cup {None}
  BY <1>1, ReaperKept DEF TaskInv, TypeOK
<1>4. NotStranded'
  BY <1>1, StrandedKept
<1>. QED  BY <1>1, <1>2, <1>3, <1>4, StepSound

\* A step of the store alone.
LEMMA StoreStep ==
    ASSUME TaskInv, StoreInv(db'), Grown(db, db'), SameCurrent(db, db'),
           \A a \in Attempts : db.attempts[a] # None => db'.attempts[a] # None,
           cmds' = cmds,
           held' \in [Workers -> Execution \cup {None}], \A v \in Workers : Remembers(v),
           canceller' \subseteq Runs, reaper' \in Reaping \cup {None}, ReaperSound'
    PROVE  TaskInv'
<1>1. TableInv(cmds') /\ NoNewLease(cmds, cmds')
  BY DEF TaskInv, NoNewLease
<1>2. \A s \in Attempts \cap Sent(cmds') : db'.attempts[s] # None
  BY DEF TaskInv, CommandsKnown, Sent
<1>3. NotStranded'
  <2>1. Live(cmds) \subseteq Live(cmds')
    OBVIOUS
  <2>. QED  BY <2>1, StrandedKept
<1>. QED  BY <1>1, <1>2, <1>3, StepSound

\* Nobody's memory changes.
LEMMA SameMemory ==
    ASSUME TaskInv, held' = held
    PROVE  held' \in [Workers -> Execution \cup {None}] /\ \A v \in Workers : Remembers(v)
BY DEF Remembers, TaskInv, TypeOK

-----------------------------------------------------------------------------
(* Clients.                                                                *)

\* A start puts the rows of the run and its command together.
LEMMA StartTaskRunInv ==
    ASSUME TaskInv, NEW r \in Runs, NEW now \in BOOLEAN, StartTaskRun(r, now)
    PROVE  TaskInv'
<1> DEFINE a == FirstAttempt[r]
<1>1. a \in Attempts /\ a \in Subjects
  BY Topology DEF Subjects
<1>2. /\ StoreInv(db') /\ Grown(db, db')
      /\ db'.children[TaskChild[r]].current = a
      /\ db.attempts[a] = None /\ db'.attempts[a] # None
      /\ \A b \in Attempts : db.attempts[b] # None => db'.attempts[b] # None
      /\ \A q \in Runs \ {r} : /\ db'.runs[q] = db.runs[q]
                              /\ db'.children[TaskChild[q]] = db.children[TaskChild[q]]
  BY StartSound DEF StartTaskRun, TaskInv
<1>3. ~AttemptRowExists(cmds, a)
  BY <1>1, <1>2 DEF AttemptRowExists, TaskInv, CommandsKnown
<1>4. HasRoom(cmds) /\ cmds' = [cmds EXCEPT ![FreeId(cmds)] = NewRow(a, now)]
  BY <1>3 DEF StartTaskRun, DispatchAttempt
<1>5. /\ TableInv(cmds') /\ Live(cmds) \cup {a} \subseteq Live(cmds')
      /\ Sent(cmds') \subseteq Sent(cmds) \cup {a} /\ NoNewLease(cmds, cmds')
  <2>1. TableInv(cmds)
    BY DEF TaskInv
  <2>2. \A u : u = [cmds EXCEPT ![FreeId(cmds)] = NewRow(a, now)] =>
             /\ TableInv(u) /\ Live(cmds) \cup {a} \subseteq Live(u)
             /\ Sent(u) \subseteq Sent(cmds) \cup {a} /\ NoNewLease(cmds, u)
    BY <1>1, <1>4, <2>1, InsertSound
  <2>. QED  BY <1>4, <2>2
<1>6. \A s \in Attempts \cap Sent(cmds') : db'.attempts[s] # None
  BY <1>2, <1>5 DEF TaskInv, CommandsKnown, Sent
<1>7. NotStranded'
  <2>. SUFFICES ASSUME NEW q \in Runs, db'.runs[q] \in {"queued", "running"},
                       db'.children[TaskChild[q]].status \notin Terminal
                PROVE  db'.children[TaskChild[q]].current \in Live(cmds')
    BY DEF NotStranded, Started, Unreaped, Live
  <2>1. CASE q = r
    BY <1>2, <1>5, <2>1
  <2>2. CASE q # r
    <3>1. db.children[TaskChild[q]].current \in Live(cmds)
      BY <1>2, <2>2 DEF TaskInv, NotStranded, Started, Unreaped, Live
    <3>. QED  BY <1>2, <1>5, <2>2, <3>1
  <2>. QED  BY <2>1, <2>2
<1>8. held' = held /\ canceller' = canceller /\ reaper' = reaper
  BY DEF StartTaskRun
<1>9. ReaperSound'
  BY <1>2, <1>8, ReaperKept
<1>. QED  BY <1>2, <1>5, <1>6, <1>7, <1>8, <1>9, SameMemory, StepSound DEF TaskInv, TypeOK

\* client.cancel, its two halves.
LEMMA CancelInv ==
    ASSUME TaskInv, NEW r \in Runs, RequestCancel(r) \/ EnqueueCancel(r)
    PROVE  TaskInv'
<1>1. CASE RequestCancel(r)
  <2>1. /\ StoreInv(db') /\ Grown(db, db') /\ SameCurrent(db, db') /\ db'.attempts = db.attempts
    BY <1>1, SetRunSound DEF RequestCancel, RequestRunCancellation, TaskInv
  <2>2. cmds' = cmds /\ held' = held /\ reaper' = reaper /\ canceller' \subseteq Runs
    BY <1>1 DEF RequestCancel, TaskInv, TypeOK
  <2>3. ReaperSound'
    BY <2>1, <2>2, ReaperKept
  <2>. QED  BY <2>1, <2>2, <2>3, SameMemory, StoreStep DEF TaskInv, TypeOK
<1>2. CASE EnqueueCancel(r)
  <2>1. db' = db /\ held' = held /\ reaper' = reaper /\ canceller' \subseteq Runs
    BY <1>2 DEF EnqueueCancel, TaskInv, TypeOK
  <2>2. /\ TableInv(cmds') /\ Live(cmds) \subseteq Live(cmds') /\ Sent(cmds') \subseteq Sent(cmds) \cup {r}
        /\ NoNewLease(cmds, cmds')
    <3>1. CASE cmds' = cmds
      BY <3>1 DEF TaskInv, NoNewLease
    <3>2. CASE cmds' = EnqueueContinueRun(cmds, r)
      BY <1>2, <3>2, EnqueueSound DEF EnqueueCancel, TaskInv
    <3>. QED  BY <1>2, <3>1, <3>2 DEF EnqueueCancel
  <2>3. r \notin Attempts
    BY DisjointAssumption DEF DisjointAssumption
  <2>4. Live(cmds) \subseteq Live(cmds') /\ Sent(cmds') \cap Attempts \subseteq Sent(cmds)
    BY <2>2, <2>3
  <2>. QED  BY <2>1, <2>2, <2>4, SameMemory, IdleStep
<1>. QED  BY <1>1, <1>2

\* deleteRun takes the commands of the run with it.
LEMMA DeleteRunInv ==
    ASSUME TaskInv, NEW r \in Runs, DeleteRun(r)
    PROVE  TaskInv'
<1> DEFINE gone == {c \in Rows(cmds) : SubjectRun(cmds[c].subject) = r}
<1>1. /\ StoreInv(db') /\ Grown(db, db') /\ SameCurrent(db, db')
      /\ db'.runs[r] = "deleted"
      /\ \A a \in Attempts : RunOf[a] # r => db'.attempts[a] = db.attempts[a]
  BY DeleteRunSound DEF DeleteRun, TaskInv
<1>2. cmds' = [c \in CommandIds |-> IF c \in gone THEN None ELSE cmds[c]]
  BY DEF DeleteRun, DeleteRunCommands
<1>3. /\ TableInv(cmds') /\ NoNewLease(cmds, cmds')
      /\ Live(cmds) \ {cmds[c].subject : c \in gone \cap Rows(cmds)} \subseteq Live(cmds')
      /\ \A s \in Sent(cmds') : \E c \in Rows(cmds) \ gone : cmds[c].subject = s
  <2>. HIDE DEF gone
  <2>. QED  BY <1>2, RemoveSound DEF TaskInv
<1>4. \A s \in Attempts : SubjectRun(s) = RunOf[s]
  BY DisjointAssumption DEF SubjectRun, DisjointAssumption
<1>5. \A s \in Attempts \cap Sent(cmds') : db'.attempts[s] # None
  BY <1>1, <1>3, <1>4 DEF TaskInv, CommandsKnown
<1>6. \A a \in {cmds[c].subject : c \in gone \cap Rows(cmds)} \cap Attempts : Over(db', a)
  BY <1>1, <1>4 DEF Over
<1>7. NotStranded'
  BY <1>1, <1>3, <1>6, StrandedKept
<1>8. held' = held /\ canceller' = canceller /\ reaper' = reaper
  BY DEF DeleteRun
<1>9. ReaperSound'
  BY <1>1, <1>8, ReaperKept
<1>. QED  BY <1>1, <1>3, <1>5, <1>7, <1>8, <1>9, SameMemory, StepSound DEF TaskInv, TypeOK

\* The sweep of dead commands takes reaped ones, and a requeued command is
\* delivered again.
LEMMA DeadCommandInv ==
    ASSUME TaskInv, NEW c \in CommandIds, SweepDead(c) \/ RequeueDead(c)
    PROVE  TaskInv'
<1>1. db' = db /\ held' = held /\ canceller' = canceller /\ reaper' = reaper /\ c \in Rows(cmds)
  BY DEF SweepDead, RequeueDead
<1>2. CASE SweepDead(c)
  <2>1. cmds[c].reaped
    BY <1>2 DEF SweepDead
  <2>2. /\ TableInv(cmds') /\ NoNewLease(cmds, cmds') /\ Sent(cmds') \subseteq Sent(cmds)
        /\ Live(cmds) \subseteq Live(cmds')
    <3>1. CASE cmds' = cmds
      BY <3>1 DEF TaskInv, NoNewLease
    <3>2. CASE cmds' # cmds
      <4>1. cmds' = [cmds EXCEPT ![c] = None]
        BY <1>2, <3>2 DEF SweepDead, SweepDeadCommand
      <4> DEFINE gone == {c}
      <4>2. cmds' = [d \in CommandIds |-> IF d \in gone THEN None ELSE cmds[d]]
        BY <4>1 DEF TaskInv, TypeOK, Table
      <4>3. /\ TableInv(cmds') /\ NoNewLease(cmds, cmds') /\ Sent(cmds') \subseteq Sent(cmds)
        <5>1. TableInv(cmds)
          BY DEF TaskInv
        <5>. HIDE DEF gone
        <5>. QED  BY <4>2, <5>1, RemoveSound
      <4>4. Live(cmds) \subseteq Live(cmds')
        BY <2>1, <4>2 DEF Live, Rows
      <4>. QED  BY <4>3, <4>4
    <3>. QED  BY <3>1, <3>2
  <2>. QED  BY <1>1, <2>2, SameMemory, IdleStep DEF TaskInv, TypeOK
<1>3. CASE RequeueDead(c)
  <2>1. Quiet(cmds, cmds')
    BY <1>3, RequeueQuiet DEF RequeueDead, TaskInv
  <2>. QED  BY <1>1, <2>1, SameMemory, IdleStep DEF TaskInv, TypeOK, Quiet
<1>. QED  BY <1>2, <1>3
-----------------------------------------------------------------------------
(* The sweep.                                                              *)

\* The sweep lists a dead command, which is one of an attempt.
LEMMA ReapListInv ==
    ASSUME TaskInv, NEW c \in CommandIds, ReapList(c)
    PROVE  TaskInv'
<1> DEFINE a == cmds[c].subject
<1>1. c \in Rows(cmds) /\ cmds[c].dead /\ cmds[c] \in Row
  BY RowsAreRows DEF ReapList, TaskInv, TableInv
<1>2. a \in Attempts /\ db.attempts[a] # None
  BY <1>1 DEF TaskInv, TableInv, ContinuesIdle, CommandsKnown, Row, Subjects
<1>3. reaper' = [cmd |-> c, attempt |-> a, pc |-> "failChild"]
  BY DEF ReapList
<1>4. /\ reaper' \in Reaping /\ reaper'.attempt = a /\ reaper'.pc = "failChild"
  BY <1>2, <1>3 DEF Reaping, ReapStep
<1>5. db' = db /\ cmds' = cmds /\ held' = held /\ canceller' = canceller
  BY DEF ReapList
<1>6. ReaperSound'
  BY <1>2, <1>4, <1>5 DEF ReaperSound, Known
<1>7. StoreInv(db') /\ Grown(db, db') /\ SameCurrent(db, db')
  BY <1>5, SameGrown DEF TaskInv
<1>. QED  BY <1>4, <1>5, <1>6, <1>7, SameMemory, StoreStep DEF TaskInv, TypeOK

\* It closes the child, the node and the run of the attempt, in this
\* order, and deletes the commands of the run after the child is closed.
LEMMA ReapProceedsInv ==
    ASSUME TaskInv, ReapProceeds
    PROVE  TaskInv'
<1> DEFINE a == reaper.attempt
           r == RunOf[a]
           k == ChildOf[a]
           n == NodeOf[k]
           Closed(d) == d.runs[r] = "deleted" \/ d.children[k].status \in Terminal
           Shut(d) == d.runs[r] = "deleted" \/ d.nodes[n] \in Terminal
<1>1. reaper # None /\ held' = held /\ canceller' = canceller
  BY DEF ReapProceeds, ReapFailChild, ReapFailNode, ReapLoadRun, ReapDeleteUnclaimed,
         ReapCancelNodes, ReapFailRun, ReapMark, ReapAt
<1>2. /\ reaper \in Reaping /\ a \in Attempts /\ Known(db, a) /\ reaper.cmd \in CommandIds
      /\ reaper.pc # "failChild" => Closed(db)
      /\ reaper.pc \notin {"failChild", "failNode"} => Shut(db)
  BY <1>1 DEF TaskInv, TypeOK, ReaperSound, Reaping
<1>3. /\ r \in Runs /\ k = TaskChild[r] /\ n = TaskNode[r] /\ StoreInv(db) /\ Story(db, r)
      /\ RunExists(db, r) <=> db.attempts[a] # None
      /\ RunExists(db, r) => db.runs[r] # "deleted"
  <2>1. r \in Runs /\ k = TaskChild[r] /\ n = TaskNode[r] /\ StoreInv(db) /\ Story(db, r)
    BY <1>2, Topology DEF TaskInv, StoreInv
  <2>2. RunExists(db, r) => db.runs[r] # "deleted"
    BY DEF RunExists, RunStatus
  <2>3. db.attempts[a] # None => RunExists(db, r)
    BY <1>2, <2>1, StartedIsCurrent
  <2>. QED  BY <1>2, <2>1, <2>2, <2>3 DEF Known
<1>4. ASSUME NEW pc \in ReapStep, reaper' = [reaper EXCEPT !.pc = pc],
             StoreInv(db'), Grown(db, db'),
             pc # "failChild" => Closed(db'), pc \notin {"failChild", "failNode"} => Shut(db')
      PROVE  reaper' \in Reaping \cup {None} /\ ReaperSound'
  <2>1. reaper' \in Reaping /\ reaper'.attempt = a /\ reaper'.pc = pc
    BY <1>2, <1>4 DEF Reaping
  <2>2. Known(db', a)
    BY <1>2, <1>3, <1>4, GrownKeeps
  <2>. QED  BY <1>4, <2>1, <2>2 DEF ReaperSound
<1>5. ASSUME StoreInv(db'), Grown(db, db')
      PROVE  (Closed(db) => Closed(db')) /\ (Shut(db) => Shut(db'))
  BY <1>2, <1>3, <1>5, GrownKeeps
<1>. HIDE DEF Closed, Shut
<1>6. CASE ReapFailChild
  <2>1. cmds' = cmds /\ reaper' = [reaper EXCEPT !.pc = "failNode"] /\ db' = FailNodeChild(db, k)
    BY <1>6 DEF ReapFailChild, ReapAt
  <2>2. /\ StoreInv(db') /\ Grown(db, db') /\ SameCurrent(db, db') /\ db'.attempts = db.attempts
        /\ db'.runs = db.runs
        /\ RunExists(db, r) => db'.children[k].status \in Terminal
    BY <1>3, <2>1, FailChildSound
  <2>3. Closed(db')
    BY <1>2, <1>3, <2>2 DEF Closed, Known
  <2>4. reaper' \in Reaping \cup {None} /\ ReaperSound'
    BY <1>4, <2>1, <2>2, <2>3 DEF ReapStep
  <2>. QED  BY <1>1, <2>1, <2>2, <2>4, SameMemory, StoreStep DEF TaskInv, TypeOK
<1>7. CASE ReapFailNode
  <2>1. /\ cmds' = cmds /\ reaper' = [reaper EXCEPT !.pc = "loadRun"] /\ db' = FailNode(db, n)
        /\ reaper.pc = "failNode"
    BY <1>7 DEF ReapFailNode, ReapAt
  <2>2. /\ StoreInv(db') /\ Grown(db, db') /\ SameCurrent(db, db') /\ db'.attempts = db.attempts
        /\ db'.runs = db.runs
        /\ RunExists(db, r) => db'.nodes[n] \in Terminal
    BY <1>2, <1>3, <2>1, FailNodeSound DEF Closed
  <2>3. Closed(db') /\ Shut(db')
    BY <1>2, <1>3, <1>5, <2>1, <2>2 DEF Shut, Known
  <2>4. reaper' \in Reaping \cup {None} /\ ReaperSound'
    BY <1>4, <2>1, <2>2, <2>3 DEF ReapStep
  <2>. QED  BY <1>1, <2>1, <2>2, <2>4, SameMemory, StoreStep DEF TaskInv, TypeOK
<1>8. CASE ReapLoadRun \/ ReapCancelNodes
  <2>1. /\ cmds' = cmds /\ reaper.pc \in {"loadRun", "cancelNodes"}
        /\ \E pc \in {"deleteUnclaimed", "mark", "failRun"} : reaper' = [reaper EXCEPT !.pc = pc]
        /\ db' = db \/ db' = CancelNonTerminalRunNodes(db, r)
    BY <1>8 DEF ReapLoadRun, ReapCancelNodes, ReapAt, Reaped
  <2>2. db' = db
    BY <1>2, <1>3, <2>1, CancelNodesSound DEF Closed, Shut
  <2>3. StoreInv(db') /\ Grown(db, db') /\ SameCurrent(db, db')
    BY <1>3, <2>2, SameGrown
  <2>4. reaper' \in Reaping \cup {None} /\ ReaperSound'
    BY <1>2, <1>4, <1>5, <2>1, <2>3 DEF ReapStep
  <2>. QED  BY <1>1, <2>1, <2>2, <2>3, <2>4, SameMemory, StoreStep DEF TaskInv, TypeOK
<1>9. CASE ReapFailRun
  <2>1. /\ cmds' = cmds /\ reaper' = [reaper EXCEPT !.pc = "mark"] /\ db' = FailRun(db, r)
        /\ reaper.pc = "failRun"
    BY <1>9 DEF ReapFailRun, ReapAt, Reaped
  <2>2. /\ StoreInv(db') /\ Grown(db, db') /\ SameCurrent(db, db') /\ db'.attempts = db.attempts
    BY <1>2, <1>3, <2>1, FailRunSound DEF Shut
  <2>3. reaper' \in Reaping \cup {None} /\ ReaperSound'
    BY <1>2, <1>4, <1>5, <2>1, <2>2 DEF ReapStep
  <2>. QED  BY <1>1, <2>1, <2>2, <2>3, SameMemory, StoreStep DEF TaskInv, TypeOK
<1>10. ASSUME NEW s \in Attempts, db.attempts[s] # None, RunOf[s] = r, Closed(db)
       PROVE  Over(db, s)
  BY <1>3, <1>10, Topology DEF Over, Closed
<1>11. CASE ReapDeleteUnclaimed
  <2> DEFINE gone == {c \in Rows(cmds) : /\ cmds[c].subject \in Attempts
                                         /\ RunOf[cmds[c].subject] = r /\ cmds[c].token = None}
  <2>1. /\ reaper' = [reaper EXCEPT !.pc = "cancelNodes"] /\ db' = db
        /\ reaper.pc = "deleteUnclaimed" /\ cmds' = DeleteUnclaimed(cmds, r)
    BY <1>11 DEF ReapDeleteUnclaimed, ReapAt, Reaped
  <2>2. cmds' = [c \in CommandIds |-> IF c \in gone THEN None ELSE cmds[c]]
    BY <2>1 DEF DeleteUnclaimed
  <2>3. /\ TableInv(cmds') /\ NoNewLease(cmds, cmds') /\ Sent(cmds') \subseteq Sent(cmds)
        /\ Live(cmds) \ {cmds[c].subject : c \in gone \cap Rows(cmds)} \subseteq Live(cmds')
    <3>1. TableInv(cmds)
      BY DEF TaskInv
    <3>. HIDE DEF gone
    <3>. QED  BY <2>2, <3>1, RemoveSound
  <2>4. \A s \in Live(cmds) \cap Attempts : s \in Live(cmds') \/ Over(db, s)
    <3>1. \A c \in gone : Over(db, cmds[c].subject)
      BY <1>2, <1>10, <2>1 DEF TaskInv, CommandsKnown
    <3>. QED  BY <2>3, <3>1
  <2>5. StoreInv(db') /\ Grown(db, db')
    BY <1>3, <2>1, SameGrown
  <2>6. reaper' \in Reaping \cup {None} /\ ReaperSound'
    BY <1>2, <1>4, <1>5, <2>1, <2>5 DEF ReapStep
  <2>7. Sent(cmds') \cap Attempts \subseteq Sent(cmds)
    BY <2>3
  <2>. QED  BY <1>1, <2>1, <2>3, <2>4, <2>6, <2>7, SameMemory, IdleStep DEF TaskInv, TypeOK
<1>12. CASE ReapMark
  <2>1. db' = db /\ reaper' = None /\ reaper.pc = "mark"
    BY <1>12 DEF ReapMark
  <2>2. ReaperSound'
    BY <2>1 DEF ReaperSound
  <2>3. CASE cmds' = cmds
    <3>1. TableInv(cmds') /\ NoNewLease(cmds, cmds')
      BY <2>3 DEF TaskInv, NoNewLease
    <3>. QED  BY <1>1, <2>1, <2>2, <2>3, <3>1, SameMemory, IdleStep DEF TaskInv, TypeOK
  <2>4. CASE cmds' # cmds
    <3> DEFINE c == reaper.cmd
               row == [cmds[c] EXCEPT !.reaped = TRUE]
    <3>1. /\ c \in Rows(cmds) /\ cmds[c].subject = a /\ cmds[c].dead
          /\ cmds' = [cmds EXCEPT ![c] = row]
      BY <1>12, <2>4 DEF ReapMark, MarkDeadCommandReaped
    <3>2. /\ cmds[c] \in Row /\ SoundRow(cmds[c]) /\ cmds \in Table
          /\ db.attempts[a] # None
      BY <1>2, <3>1, RowsAreRows DEF TaskInv, TableInv, Sound, CommandsKnown
    <3>3. /\ row \in Row /\ row.subject = a /\ row.token = cmds[c].token
          /\ row.dead = cmds[c].dead /\ row.deliveries = cmds[c].deliveries
      BY <3>1, <3>2 DEF Row
    <3>4. SoundRow(row) /\ row # None
      BY <3>1, <3>2, <3>3, NoneAssumption DEF SoundRow, NoneAssumption
    <3>. HIDE DEF row
    <3>5. /\ cmds' \in Table /\ cmds'[c] = row /\ \A d \in CommandIds \ {c} : cmds'[d] = cmds[d]
          /\ Rows(cmds') = Rows(cmds)
      BY <1>2, <3>1, <3>2, <3>3, <3>4 DEF Table, Rows
    <3>6. TableInv(cmds')
      BY <3>1, <3>3, <3>4, <3>5 DEF TaskInv, TableInv, Sound, ContinuesIdle, Rows
    <3>7. NoNewLease(cmds, cmds')
      BY <3>1, <3>3, <3>5 DEF NoNewLease, Rows
    <3>8. Sent(cmds') \cap Attempts \subseteq Sent(cmds)
      BY <3>1, <3>3, <3>5 DEF Sent, Rows
    <3>9. \A s \in Live(cmds) \cap Attempts : s \in Live(cmds') \/ s = a
      BY <3>1, <3>5 DEF Live, Rows
    <3>10. Over(db, a)
      BY <1>2, <1>10, <2>1, <3>2
    <3>. QED  BY <1>1, <2>1, <2>2, <3>6, <3>7, <3>8, <3>9, <3>10, SameMemory, IdleStep DEF TaskInv, TypeOK
  <2>. QED  BY <2>3, <2>4
<1>. QED  BY <1>6, <1>7, <1>8, <1>9, <1>11, <1>12 DEF ReapProceeds

\* A sweep that dies leaves the rows as they are.
LEMMA ReapCrashInv ==
    ASSUME TaskInv, ReapCrash
    PROVE  TaskInv'
<1>1. db' = db /\ cmds' = cmds /\ held' = held /\ canceller' = canceller /\ reaper' = None
  BY DEF ReapCrash
<1>2. ReaperSound' /\ TableInv(cmds') /\ NoNewLease(cmds, cmds')
  BY <1>1 DEF ReaperSound, TaskInv, NoNewLease
<1>. QED  BY <1>1, <1>2, SameMemory, IdleStep DEF TaskInv, TypeOK
-----------------------------------------------------------------------------
(* Workers.                                                                *)

\* What a busy worker has in hand.
LEMMA InHand ==
    ASSUME TaskInv, NEW w \in Workers, held[w] # None
    PROVE  /\ held[w] \in Execution /\ held[w].attempt \in Attempts /\ held[w].cmd \in CommandIds
           /\ RunOf[held[w].attempt] \in Runs /\ Known(db, held[w].attempt)
           /\ HoldsLease(w) => /\ ~cmds[held[w].cmd].dead
                               /\ cmds[held[w].cmd].subject = held[w].attempt
           /\ held[w].pc \in {"dropping", "stale"} => Over(db, held[w].attempt)
<1>1. held[w] \in Execution /\ held[w].attempt \in Attempts /\ held[w].cmd \in CommandIds
  BY DEF TaskInv, TypeOK, Execution
<1>. QED  BY <1>1, Topology DEF TaskInv, WorkerSound, LeaseMatches, Busy

\* A worker that forgets its command, or moves on with it.
LEMMA MemoryStep ==
    ASSUME TaskInv, NEW w \in Workers, held[w] # None, NEW x,
           held' = [held EXCEPT ![w] = x],
           \/ x = None
           \/ /\ x \in Execution /\ x.cmd = held[w].cmd /\ x.attempt = held[w].attempt
              /\ x.pc \in {"dropping", "stale"} => Over(db', held[w].attempt)
              /\ x.pc = "stale" => x.child = None \/ x.child.current # held[w].attempt
    PROVE  held' \in [Workers -> Execution \cup {None}] /\ \A v \in Workers : Remembers(v)
<1>1. held \in [Workers -> Execution \cup {None}]
  BY DEF TaskInv, TypeOK
<1>2. held' \in [Workers -> Execution \cup {None}] /\ held'[w] = x /\ \A v \in Workers \ {w} : held'[v] = held[v]
  BY <1>1
<1>. QED  BY <1>2 DEF Remembers

\* The same, for the next program counter.
LEMMA GotoStep ==
    ASSUME TaskInv, NEW w \in Workers, held[w] # None,
           NEW pc \in {"starting", "running", "fenced", "dropping"}, Goto(w, pc),
           pc = "dropping" => Over(db', held[w].attempt)
    PROVE  held' \in [Workers -> Execution \cup {None}] /\ \A v \in Workers : Remembers(v)
<1> DEFINE x == [held[w] EXCEPT !.pc = pc]
<1>1. held[w] \in Execution
  BY InHand
<1>2. x \in Execution /\ x.cmd = held[w].cmd /\ x.attempt = held[w].attempt /\ x.pc = pc
  BY <1>1 DEF Execution
<1>3. held' = [held EXCEPT ![w] = x]
  BY DEF Goto
<1>. HIDE DEF x
<1>. QED  BY <1>2, <1>3, MemoryStep

\* A step that writes nothing in the database.
LEMMA ReadStep ==
    ASSUME TaskInv, db' = db, Quiet(cmds, cmds') \/ cmds' = cmds,
           held' \in [Workers -> Execution \cup {None}], \A v \in Workers : Remembers(v),
           canceller' = canceller, reaper' = reaper
    PROVE  TaskInv'
<1>1. /\ TableInv(cmds') /\ NoNewLease(cmds, cmds') /\ Live(cmds) \subseteq Live(cmds')
      /\ Sent(cmds') \cap Attempts \subseteq Sent(cmds)
  BY DEF Quiet, NoNewLease, TaskInv
<1>2. canceller' \subseteq Runs
  BY DEF TaskInv, TypeOK
<1>. QED  BY <1>1, <1>2, IdleStep

\* ackCommand deletes the row of the lease it names.
LEMMA AckSound ==
    ASSUME NEW t, TableInv(t), NEW c \in CommandIds, NEW w \in Workers, NEW u, u = Ack(t, c, w)
    PROVE  /\ TableInv(u) /\ NoNewLease(t, u) /\ Sent(u) \subseteq Sent(t)
           /\ \A s \in Live(t) : s \in Live(u) \/ (Leased(t, c, w) /\ s = t[c].subject)
<1>1. CASE u = t
  BY <1>1 DEF NoNewLease
<1>2. CASE u # t
  <2> DEFINE gone == {c}
  <2>1. Leased(t, c, w) /\ u = [t EXCEPT ![c] = None]
    BY <1>2 DEF Ack
  <2>2. u = [d \in CommandIds |-> IF d \in gone THEN None ELSE t[d]]
    BY <2>1 DEF TableInv, Table
  <2>3. /\ TableInv(u) /\ NoNewLease(t, u) /\ Sent(u) \subseteq Sent(t)
        /\ Live(t) \ {t[x].subject : x \in gone \cap Rows(t)} \subseteq Live(u)
    <3>. HIDE DEF gone
    <3>. QED  BY <2>2, RemoveSound
  <2>. QED  BY <2>1, <2>3
<1>. QED  BY <1>1, <1>2

\* A worker takes a command.
LEMMA ClaimAttemptInv ==
    ASSUME TaskInv, NEW w \in Workers, NEW c \in CommandIds, ClaimAttempt(w, c),
           canceller' = canceller, reaper' = reaper
    PROVE  TaskInv'
<1> DEFINE a == cmds[c].subject
           x == [cmd |-> c, attempt |-> a, pc |-> "loading", outcome |-> None,
                 child |-> None, stored |-> None]
<1>1. /\ held[w] = None /\ Claimable(cmds, c) /\ a \in Attempts /\ cmds' = Claim(cmds, c, w)
      /\ db' = db
      /\ held' = IF cmds'[c].dead THEN held ELSE [held EXCEPT ![w] = x]
  BY DEF ClaimAttempt, Busy
<1>2. /\ TableInv(cmds') /\ Live(cmds) \subseteq Live(cmds') /\ Sent(cmds') \subseteq Sent(cmds)
      /\ cmds'[c].subject = a /\ \A d \in CommandIds \ {c} : cmds'[d] = cmds[d]
  BY <1>1, ClaimQuiet DEF TaskInv
<1>3. cmds'[c].token = w
  BY <1>1, ClaimSound DEF TaskInv, TableInv
<1>4. x \in Execution /\ x.cmd = c /\ x.attempt = a /\ x.pc = "loading"
  BY <1>1 DEF Execution
<1>5. db.attempts[a] # None
  BY <1>1 DEF Claimable, TaskInv, CommandsKnown
<1>. HIDE DEF x
<1>6. /\ held' \in [Workers -> Execution \cup {None}] /\ \A v \in Workers \ {w} : held'[v] = held[v]
      /\ held'[w] = None \/ (held'[w] = x /\ ~cmds'[c].dead)
  BY <1>1, <1>4 DEF TaskInv, TypeOK
<1>7. TypeOK'
  BY <1>1, <1>2, <1>6 DEF TaskInv, TypeOK, TableInv
<1>8. CommandsKnown'
  BY <1>1, <1>2 DEF TaskInv, CommandsKnown, Sent
<1>9. LeaseMatches'
  <2>. SUFFICES ASSUME NEW v \in Workers, held'[v] # None,
                       held'[v].cmd \in Rows(cmds'), cmds'[held'[v].cmd].token = v
                PROVE  /\ ~cmds'[held'[v].cmd].dead
                       /\ cmds'[held'[v].cmd].subject = held'[v].attempt
    BY DEF LeaseMatches, Busy, HoldsLease, Leased
  <2>1. CASE v = w
    BY <1>2, <1>4, <1>6, <2>1
  <2>2. CASE v # w
    <3>1. held'[v] = held[v] /\ held[v].cmd \in CommandIds /\ held[v].cmd # c
      BY <1>3, <1>6, <2>2, InHand
    <3>2. held[v].cmd \in Rows(cmds) /\ cmds[held[v].cmd] = cmds'[held[v].cmd]
      BY <1>2, <3>1 DEF Rows
    <3>. QED  BY <3>1, <3>2 DEF TaskInv, LeaseMatches, Busy, HoldsLease, Leased
  <2>. QED  BY <2>1, <2>2
<1>10. WorkerSound'
  BY <1>1, <1>4, <1>5, <1>6 DEF TaskInv, WorkerSound, Busy, Known
<1>11. StoreInv(db') /\ ReaperSound'
  BY <1>1 DEF TaskInv, ReaperSound
<1>12. NotStranded'
  <2>1. Grown(db, db') /\ SameCurrent(db, db')
    BY <1>1, SameGrown DEF TaskInv
  <2>. QED  BY <1>2, <1>11, <2>1, StrandedKept
<1>. QED  BY <1>2, <1>7, <1>8, <1>9, <1>10, <1>11, <1>12 DEF TaskInv

\* An attempt that is not the open one of its child is over.
LEMMA NotFencedIsOver ==
    ASSUME NEW d, StoreInv(d), NEW a \in Attempts, Known(d, a), ~FencedAttempt(d, a)
    PROVE  Over(d, a)
<1>1. CASE d.attempts[a] = None
  BY <1>1 DEF Known, Over
<1>2. CASE d.attempts[a] # None
  <2> DEFINE r == RunOf[a]
  <2>1. /\ r \in Runs /\ Story(d, r) /\ RunExists(d, r) /\ ChildOf[a] = TaskChild[r]
        /\ d.children[TaskChild[r]] \in ChildRow
    BY <1>2, StartedIsCurrent, Topology
  <2>2. d.children[ChildOf[a]] # None
    BY <2>1, NoneIsNoRow
  <2>3. d.children[ChildOf[a]].current = a /\ d.attempts[a].status # "started" => d.runs[r] \in Terminal
    BY <2>1 DEF Story, Agreed
  <2>. QED  BY <1>2, <2>2, <2>3 DEF Over, FencedAttempt, IsFreshAttempt
<1>. QED  BY <1>1, <1>2

\* The steps in which a worker only reads.
LEMMA ReadingInv ==
    ASSUME TaskInv, NEW w \in Workers, canceller' = canceller, reaper' = reaper,
           \/ LoadSnapshot(w) \/ ReadFence(w) \/ Crash(w)
           \/ \E o \in Outcome : HandlerEnds(w, o)
    PROVE  TaskInv'
<1> DEFINE a == held[w].attempt
           r == RunOf[a]
<1>1. held[w] # None /\ db' = db /\ cmds' = cmds
  BY DEF LoadSnapshot, ReadFence, Crash, HandlerEnds, At, Busy
<1>2. held[w] \in Execution /\ a \in Attempts /\ r \in Runs /\ Known(db, a) /\ StoreInv(db)
  BY <1>1, InHand DEF TaskInv
<1>3. CASE LoadSnapshot(w)
  <2>1. CASE RunIsTerminal(db, r)
    <3>1. Goto(w, "dropping") /\ Over(db', a)
      BY <1>1, <1>3, <2>1 DEF LoadSnapshot, Over, RunIsTerminal
    <3>. QED  BY <1>1, <3>1, GotoStep, ReadStep
  <2>2. CASE Goto(w, "starting")
    BY <1>1, <2>2, GotoStep, ReadStep
  <2>3. CASE ~RunIsTerminal(db, r) /\ ~Goto(w, "starting")
    <3> DEFINE k == db.children[ChildOf[a]]
               x == [held[w] EXCEPT !.pc = "stale", !.child = k, !.stored = db.attempts[a]]
    <3>1. held' = [held EXCEPT ![w] = x] /\ ~(RunExists(db, r) /\ IsFreshAttempt(k, db.attempts[a], a))
      BY <1>3, <2>3 DEF LoadSnapshot
    <3>2. ChildOf[a] \in Children /\ k \in ChildRow \cup {None} /\ db.attempts[a] \in AttemptRow \cup {None}
      BY <1>2, TopologyAssumption DEF StoreInv, Database, TopologyAssumption
    <3>3. /\ x \in Execution /\ x.cmd = held[w].cmd /\ x.attempt = a /\ x.pc = "stale" /\ x.child = k
      BY <1>2, <3>2 DEF Execution
    <3>. HIDE DEF x
    <3>4. k = None \/ k.current # a
      <4>1. CASE ~RunExists(db, r)
        BY <1>2, <4>1, Topology DEF StoreInv, Story, Linked
      <4>2. CASE RunExists(db, r)
        <5>1. db.attempts[a] # None
          BY <1>2, <4>2 DEF Known, RunExists, RunStatus
        <5>2. k.current = a => db.attempts[a].status = "started"
          BY <1>2, <2>3, <4>2, Topology DEF StoreInv, Story, Agreed, RunIsTerminal
        <5>. QED  BY <3>1, <4>2, <5>1, <5>2 DEF IsFreshAttempt
      <4>. QED  BY <4>1, <4>2
    <3>5. Over(db', a)
      <4>1. ~FencedAttempt(db, a)
        BY <3>4 DEF FencedAttempt, IsFreshAttempt
      <4>. QED  BY <1>1, <1>2, <4>1, NotFencedIsOver
    <3>6. held' \in [Workers -> Execution \cup {None}] /\ \A v \in Workers : Remembers(v)
      BY <1>1, <3>1, <3>3, <3>4, <3>5, MemoryStep
    <3>. QED  BY <1>1, <3>6, ReadStep
  <2>. QED  BY <2>1, <2>2, <2>3
<1>4. CASE ReadFence(w)
  <2>1. CASE FencedAttempt(db, a)
    <3>1. Goto(w, "fenced")
      BY <1>4, <2>1 DEF ReadFence
    <3>. QED  BY <1>1, <3>1, GotoStep, ReadStep
  <2>2. CASE ~FencedAttempt(db, a)
    <3>1. Goto(w, "dropping") /\ Over(db', a)
      BY <1>1, <1>2, <1>4, <2>2, NotFencedIsOver DEF ReadFence
    <3>. QED  BY <1>1, <3>1, GotoStep, ReadStep
  <2>. QED  BY <2>1, <2>2
<1>5. CASE Crash(w)
  <2>1. held' = [held EXCEPT ![w] = None]
    BY <1>5 DEF Crash, Drop
  <2>. QED  BY <1>1, <2>1, MemoryStep, ReadStep
<1>6. ASSUME NEW o \in Outcome, HandlerEnds(w, o)  PROVE  TaskInv'
  <2> DEFINE x == [held[w] EXCEPT !.pc = "settling", !.outcome = o]
  <2>1. held' = [held EXCEPT ![w] = x]
    BY <1>6 DEF HandlerEnds
  <2>2. x \in Execution /\ x.cmd = held[w].cmd /\ x.attempt = a /\ x.pc = "settling"
    BY <1>2 DEF Execution
  <2>. HIDE DEF x
  <2>3. held' \in [Workers -> Execution \cup {None}] /\ \A v \in Workers : Remembers(v)
    BY <1>1, <2>1, <2>2, MemoryStep
  <2>. QED  BY <1>1, <2>3, ReadStep
<1>. QED  BY <1>3, <1>4, <1>5, <1>6
\* Giving the command back, extending its lease, and acknowledging what is
\* over.
LEMMA LeaseInv ==
    ASSUME TaskInv, NEW w \in Workers, canceller' = canceller, reaper' = reaper,
           Unroutable(w) \/ Abandon(w) \/ HeartbeatAttempt(w) \/ AckOnly(w)
    PROVE  TaskInv'
<1> DEFINE a == held[w].attempt
           c == held[w].cmd
<1>1. held[w] # None /\ db' = db
  BY DEF Unroutable, Abandon, HeartbeatAttempt, AckOnly, At, Busy
<1>2. /\ held[w] \in Execution /\ a \in Attempts /\ c \in CommandIds /\ TableInv(cmds)
      /\ Leased(cmds, c, w) => ~cmds[c].dead /\ cmds[c].subject = a
  BY <1>1, InHand DEF TaskInv, HoldsLease
<1>3. CASE Unroutable(w) \/ Abandon(w)
  <2>1. held' = [held EXCEPT ![w] = None]
    BY <1>3 DEF Unroutable, Abandon, Drop
  <2>2. cmds' = ReleaseCounted(cmds, c, w) \/ cmds' = ReleasePlain(cmds, c, w)
    BY <1>3 DEF Unroutable, Abandon
  <2>3. Quiet(cmds, cmds')
    BY <1>2, <2>2, ReleaseQuiet
  <2>. QED  BY <1>1, <2>1, <2>3, MemoryStep, ReadStep
<1>4. CASE HeartbeatAttempt(w)
  <2>1. Quiet(cmds, cmds') \/ cmds' = cmds
    <3>1. CASE Leased(cmds, c, w)
      <4>1. c \in Rows(cmds) /\ cmds' = [cmds EXCEPT ![c].expired = FALSE]
        BY <1>4, <3>1 DEF HeartbeatAttempt, Heartbeat, Leased
      <4>. QED  BY <1>2, <4>1, ClockQuiet
    <3>2. CASE ~Leased(cmds, c, w)
      BY <1>4, <3>2 DEF HeartbeatAttempt, Heartbeat
    <3>. QED  BY <3>1, <3>2
  <2>2. CASE held' = held
    BY <1>1, <2>1, <2>2, SameMemory, ReadStep
  <2>3. CASE Drop(w)
    <3>1. held' = [held EXCEPT ![w] = None]
      BY <2>3 DEF Drop
    <3>. QED  BY <1>1, <2>1, <3>1, MemoryStep, ReadStep
  <2>4. CASE CancellationObserved(RunOf[a]) /\ Goto(w, "dropping")
    <3>1. Over(db', a)
      BY <1>1, <2>4 DEF CancellationObserved, RunIsTerminal, Over
    <3>. QED  BY <1>1, <2>1, <2>4, <3>1, GotoStep, ReadStep
  <2>. QED  BY <1>4, <2>2, <2>3, <2>4 DEF HeartbeatAttempt
<1>5. CASE AckOnly(w)
  <2>1. held' = [held EXCEPT ![w] = None] /\ cmds' = Ack(cmds, c, w) /\ held[w].pc = "dropping"
    BY <1>5 DEF AckOnly, Drop, At
  <2>2. Over(db, a)
    BY <1>1, <2>1, InHand
  <2>3. /\ TableInv(cmds') /\ NoNewLease(cmds, cmds') /\ Sent(cmds') \subseteq Sent(cmds)
        /\ \A s \in Live(cmds) : s \in Live(cmds') \/ (Leased(cmds, c, w) /\ s = cmds[c].subject)
    BY <1>2, <2>1, AckSound
  <2>4. \A s \in Live(cmds) \cap Attempts : s \in Live(cmds') \/ Over(db, s)
    BY <1>2, <2>2, <2>3
  <2>5. held' \in [Workers -> Execution \cup {None}] /\ \A v \in Workers : Remembers(v)
    BY <1>1, <2>1, MemoryStep
  <2>. QED  BY <1>1, <2>3, <2>4, <2>5, IdleStep DEF TaskInv, TypeOK
<1>. QED  BY <1>3, <1>4, <1>5

\* The handler starts.
LEMMA StartHandlerInv ==
    ASSUME TaskInv, NEW w \in Workers, canceller' = canceller, reaper' = reaper, StartHandler(w)
    PROVE  TaskInv'
<1> DEFINE r == RunOf[held[w].attempt]
<1>1. held[w] # None /\ cmds' = cmds /\ Goto(w, "running")
  BY DEF StartHandler, At, Busy
<1>2. r \in Runs /\ KindOf[r] = "task"
  BY <1>1, InHand, Topology
<1>3. db' = SetRun(db, r, "running")
  BY <1>2 DEF StartHandler, MarkRunRunning
<1>4. StoreInv(db') /\ Grown(db, db') /\ SameCurrent(db, db') /\ db'.attempts = db.attempts
  BY <1>2, <1>3, SetRunSound DEF TaskInv
<1>5. held' \in [Workers -> Execution \cup {None}] /\ \A v \in Workers : Remembers(v)
  BY <1>1, GotoStep
<1>6. ReaperSound'
  BY <1>4, ReaperKept
<1>. QED  BY <1>1, <1>4, <1>5, <1>6, StoreStep DEF TaskInv, TypeOK

\* A settling transaction that makes no attempt: what it acknowledges is
\* over once it commits.
LEMMA CommitInv ==
    ASSUME TaskInv, NEW w \in Workers, held[w] # None, canceller' = canceller, reaper' = reaper,
           NEW d, NEW t, Commit(w, d, t),
           StoreInv(d), Grown(db, d), SameCurrent(db, d), Over(d, held[w].attempt),
           \A b \in Attempts : db.attempts[b] # None => d.attempts[b] # None,
           TableInv(t), NoNewLease(cmds, t), Live(cmds) \subseteq Live(t),
           Sent(t) \cap Attempts \subseteq Sent(cmds)
    PROVE  TaskInv'
<1> DEFINE a == held[w].attempt
           c == held[w].cmd
<1>1. held' = [held EXCEPT ![w] = None]
  BY DEF Commit, Drop
<1>2. held' \in [Workers -> Execution \cup {None}] /\ \A v \in Workers : Remembers(v)
  BY <1>1, MemoryStep
<1>3. CASE ~HoldsLease(w)
  <2>1. db' = db /\ cmds' = cmds
    BY <1>3 DEF Commit
  <2>. QED  BY <1>2, <2>1, ReadStep
<1>4. CASE HoldsLease(w)
  <2>1. db' = d /\ cmds' = Ack(t, c, w)
    BY <1>4 DEF Commit
  <2>2. c \in CommandIds /\ a \in Attempts /\ cmds[c].subject = a /\ w # None
    BY <1>4, InHand, DisjointAssumption DEF DisjointAssumption
  <2>3. /\ TableInv(cmds') /\ NoNewLease(t, cmds') /\ Sent(cmds') \subseteq Sent(t)
        /\ \A s \in Live(t) : s \in Live(cmds') \/ (Leased(t, c, w) /\ s = t[c].subject)
    BY <2>1, <2>2, AckSound
  <2>4. NoNewLease(cmds, cmds')
    BY <2>3 DEF NoNewLease
  <2>5. Leased(t, c, w) => t[c].subject = a
    BY <2>2 DEF Leased, NoNewLease
  <2>6. \A s \in Live(cmds) \cap Attempts : s \in Live(cmds') \/ Over(db', s)
    BY <2>1, <2>3, <2>5
  <2>7. \A s \in Attempts \cap Sent(cmds') : db'.attempts[s] # None
    BY <2>1, <2>3 DEF TaskInv, CommandsKnown, Sent
  <2>8. NotStranded' /\ ReaperSound'
    BY <2>1, <2>6, StrandedKept, ReaperKept
  <2>. QED  BY <1>2, <2>1, <2>3, <2>4, <2>7, <2>8, StepSound DEF TaskInv, TypeOK
<1>. QED  BY <1>3, <1>4

\* A settling transaction that changes nothing but the queue.
LEMMA CommitNothing ==
    ASSUME TaskInv, NEW w \in Workers, held[w] # None, canceller' = canceller, reaper' = reaper,
           Commit(w, db, cmds), Over(db, held[w].attempt)
    PROVE  TaskInv'
<1>1. StoreInv(db) /\ Grown(db, db) /\ SameCurrent(db, db) /\ TableInv(cmds) /\ NoNewLease(cmds, cmds)
  BY SameGrown DEF TaskInv, NoNewLease
<1>2. Live(cmds) \subseteq Live(cmds) /\ Sent(cmds) \cap Attempts \subseteq Sent(cmds)
  OBVIOUS
<1>. QED  BY <1>1, <1>2, CommitInv

\* A task run has no parent to wake.
LEMMA NobodyNotified ==
    ASSUME NEW d, NEW t, NEW a \in Attempts
    PROVE  Notified(d, t, ChildOf[a]) = t
<1>1. /\ RunOf[a] \in Runs /\ ChildRun(ChildOf[a]) = RunOf[a]
      /\ KindOf[RunOf[a]] = "task" /\ ParentOf[RunOf[a]] = None
  BY Topology
<1>. QED  BY <1>1 DEF Notified, WakeParentRun

\* The attempt completed, or was fenced out between the read and the
\* update.
LEMMA SettleCompletedInv ==
    ASSUME TaskInv, NEW w \in Workers, canceller' = canceller, reaper' = reaper, SettleCompleted(w)
    PROVE  TaskInv'
<1> DEFINE a == held[w].attempt
           d == CompletedDb(CompleteCurrentAttempt(db, a), ChildOf[a])
<1>1. held[w] # None
  BY DEF SettleCompleted, At, Busy
<1>2. a \in Attempts /\ RunOf[a] \in Runs /\ Known(db, a) /\ StoreInv(db)
  BY <1>1, InHand DEF TaskInv
<1>3. CASE FencedAttempt(db, a)
  <2>1. Commit(w, d, Notified(d, cmds, ChildOf[a]))
    BY <1>3 DEF SettleCompleted
  <2>2. Notified(d, cmds, ChildOf[a]) = cmds
    BY <1>2, NobodyNotified
  <2>. HIDE DEF d
  <2>3. /\ StoreInv(d) /\ Grown(db, d) /\ SameCurrent(db, d)
        /\ d.runs[RunOf[a]] = "completed"
        /\ \A b \in Attempts : db.attempts[b] # None => d.attempts[b] # None
    BY <1>2, <1>3, CompleteSound DEF d
  <2>4. Over(d, a)
    BY <2>3 DEF Over, Terminal
  <2>5. TableInv(cmds) /\ NoNewLease(cmds, cmds) /\ Sent(cmds) \cap Attempts \subseteq Sent(cmds)
    BY DEF TaskInv, NoNewLease
  <2>. QED  BY <1>1, <2>1, <2>2, <2>3, <2>4, <2>5, CommitInv
<1>4. CASE ~FencedAttempt(db, a)
  <2>1. Commit(w, db, cmds)
    BY <1>4 DEF SettleCompleted
  <2>2. Over(db, a)
    BY <1>2, <1>4, NotFencedIsOver
  <2>. QED  BY <1>1, <2>1, <2>2, CommitNothing
<1>. QED  BY <1>3, <1>4

\* reconcileStaleAttempt finds nothing to settle in a task run.
LEMMA ReconcileInv ==
    ASSUME TaskInv, NEW w \in Workers, canceller' = canceller, reaper' = reaper, ReconcileStaleAttempt(w)
    PROVE  TaskInv'
<1> DEFINE a == held[w].attempt
           r == RunOf[a]
<1>1. held[w] # None /\ held[w].pc = "stale" /\ RoomFor(cmds, r)
  BY DEF ReconcileStaleAttempt, At, Busy
<1>2. a \in Attempts /\ r \in Runs /\ Over(db, a) /\ r \notin Attempts
  BY <1>1, InHand, DisjointAssumption DEF DisjointAssumption
<1>3. held[w].child = None \/ held[w].child.current # a
  BY <1>1 DEF TaskInv, WorkerSound, Busy
<1>4. Commit(w, db, cmds) \/ Commit(w, db, EnqueueContinueRun(cmds, r))
  BY <1>3 DEF ReconcileStaleAttempt
<1>5. CASE Commit(w, db, cmds)
  BY <1>1, <1>2, <1>5, CommitNothing
<1>6. CASE Commit(w, db, EnqueueContinueRun(cmds, r))
  <2> DEFINE t == EnqueueContinueRun(cmds, r)
  <2>1. /\ TableInv(t) /\ Live(cmds) \subseteq Live(t) /\ Sent(t) \subseteq Sent(cmds) \cup {r}
        /\ NoNewLease(cmds, t)
    BY <1>1, <1>2, EnqueueSound DEF TaskInv
  <2>. HIDE DEF t
  <2>2. Sent(t) \cap Attempts \subseteq Sent(cmds)
    BY <1>2, <2>1
  <2>3. StoreInv(db) /\ Grown(db, db) /\ SameCurrent(db, db)
    BY SameGrown DEF TaskInv
  <2>4. Commit(w, db, t)
    BY <1>6 DEF t
  <2>. QED  BY <1>1, <1>2, <2>1, <2>2, <2>3, <2>4, CommitInv
<1>. QED  BY <1>4, <1>5, <1>6

\* A retry puts the next attempt and its command in the place of the one
\* that failed, together.
LEMMA RetryAttemptInv ==
    ASSUME TaskInv, NEW w \in Workers, held[w] # None, held[w].outcome \in Failure,
           canceller' = canceller, reaper' = reaper, HasRoom(cmds),
           db.attempts[held[w].attempt] # None, db.attempts[held[w].attempt].status = "started",
           ShouldRetryAttempt(db, held[w].attempt),
           NEW a2 \in Attempts, NEW now \in BOOLEAN, RetryAttempt(w, a2, now)
    PROVE  TaskInv'
<1> DEFINE a == held[w].attempt
           c == held[w].cmd
           r == RunOf[a]
           d1 == SettleCurrentAttempt(db, a, held[w].outcome)
           d == CreateAttempt(d1, ChildOf[a], a2)
           t == [cmds EXCEPT ![FreeId(cmds)] = NewRow(a2, now)]
<1>1. /\ a \in Attempts /\ c \in CommandIds /\ r \in Runs /\ TableInv(cmds)
      /\ Leased(cmds, c, w) => ~cmds[c].dead /\ cmds[c].subject = a
  BY InHand DEF TaskInv, HoldsLease
<1>2. held' = [held EXCEPT ![w] = None]
  BY DEF RetryAttempt, Commit, Drop
<1>3. held' \in [Workers -> Execution \cup {None}] /\ \A v \in Workers : Remembers(v)
  BY <1>2, MemoryStep
<1>4. CASE ~CanCreateAttempt(d1, ChildOf[a])
  <2>1. cmds' = ReleaseCounted(cmds, c, w) /\ db' = db
    BY <1>4 DEF RetryAttempt
  <2>2. Quiet(cmds, cmds')
    BY <1>1, <2>1, ReleaseQuiet
  <2>. QED  BY <1>3, <2>1, <2>2, ReadStep
<1>5. CASE CanCreateAttempt(d1, ChildOf[a])
  <2>1. ChildOf[a2] = ChildOf[a] /\ db.attempts[a2] = None /\ a2 # a
    BY DEF RetryAttempt
  <2>2. ~AttemptRowExists(cmds, a2)
    BY <2>1 DEF AttemptRowExists, TaskInv, CommandsKnown
  <2>3. Commit(w, d, t)
    BY <1>5, <2>2 DEF RetryAttempt, DispatchAttempt
  <2>4. CASE ~HoldsLease(w)
    <3>1. db' = db /\ cmds' = cmds
      BY <2>3, <2>4 DEF Commit
    <3>. QED  BY <1>3, <3>1, ReadStep
  <2>5. CASE HoldsLease(w)
    <3>1. db' = d /\ cmds' = Ack(t, c, w)
      BY <2>3, <2>5 DEF Commit
    <3>2. /\ StoreInv(d) /\ Grown(db, d)
          /\ d.runs = db.runs /\ d.children[ChildOf[a]].current = a2
          /\ d.attempts[a2] # None
          /\ \A b \in Attempts : db.attempts[b] # None => d.attempts[b] # None
          /\ \A q \in Runs \ {r} : d.children[TaskChild[q]] = db.children[TaskChild[q]]
      <4>1. StoreInv(db)
        BY DEF TaskInv
      <4>. QED  BY <1>1, <1>5, <2>1, <4>1, RetrySound
    <3>. HIDE DEF d
    <3>3. /\ TableInv(t) /\ Live(cmds) \cup {a2} \subseteq Live(t)
          /\ Sent(t) \subseteq Sent(cmds) \cup {a2} /\ NoNewLease(cmds, t)
      <4>1. a2 \in Subjects /\ TableInv(cmds) /\ HasRoom(cmds)
        BY <1>1 DEF Subjects
      <4>2. \A u : u = [cmds EXCEPT ![FreeId(cmds)] = NewRow(a2, now)] =>
                /\ TableInv(u) /\ Live(cmds) \cup {a2} \subseteq Live(u)
                /\ Sent(u) \subseteq Sent(cmds) \cup {a2} /\ NoNewLease(cmds, u)
        BY <4>1, InsertSound
      <4>. QED  BY <4>2
    <3>. HIDE DEF t
    <3>4. /\ TableInv(cmds') /\ NoNewLease(t, cmds') /\ Sent(cmds') \subseteq Sent(t)
          /\ \A s \in Live(t) : s \in Live(cmds') \/ (Leased(t, c, w) /\ s = t[c].subject)
      BY <1>1, <3>1, <3>3, AckSound
    <3>5. NoNewLease(cmds, cmds')
      BY <3>3, <3>4 DEF NoNewLease
    <3>6. Leased(t, c, w) => t[c].subject = a
      <4>1. w # None /\ cmds[c].subject = a
        BY <1>1, <2>5, DisjointAssumption DEF DisjointAssumption, HoldsLease
      <4>. QED  BY <3>3, <4>1, <1>1 DEF Leased, NoNewLease
    <3>7. \A s \in (Live(cmds) \cup {a2}) \ {a} : s \in Live(cmds')
      BY <3>3, <3>4, <3>6
    <3>8. \A s \in Attempts \cap Sent(cmds') : db'.attempts[s] # None
      BY <3>1, <3>2, <3>3, <3>4 DEF TaskInv, CommandsKnown, Sent
    <3>9. NotStranded'
      <4>. SUFFICES ASSUME NEW q \in Runs, db'.runs[q] \in {"queued", "running"},
                           db'.children[TaskChild[q]].status \notin Terminal
                    PROVE  db'.children[TaskChild[q]].current \in Live(cmds')
        BY DEF NotStranded, Started, Unreaped, Live
      <4>1. CASE q = r
        BY <1>1, <2>1, <3>1, <3>2, <3>7, <4>1, Topology
      <4>2. CASE q # r
        <5>1. db.children[TaskChild[q]].current \in Live(cmds)
          BY <3>1, <3>2, <4>2 DEF TaskInv, NotStranded, Started, Unreaped, Live
        <5>2. db.children[TaskChild[q]].current # a
          <6>1. RunExists(db, q) /\ Story(db, q)
            BY <3>1, <3>2 DEF RunExists, RunStatus, TaskInv, StoreInv
          <6>. QED  BY <1>1, <4>2, <6>1, Topology DEF Story, Linked, Made
        <5>. QED  BY <3>1, <3>2, <3>7, <4>2, <5>1, <5>2
      <4>. QED  BY <4>1, <4>2
    <3>10. ReaperSound'
      BY <3>1, <3>2, ReaperKept
    <3>. QED  BY <1>3, <3>1, <3>2, <3>4, <3>5, <3>8, <3>9, <3>10, StepSound DEF TaskInv, TypeOK
  <2>. QED  BY <2>4, <2>5
<1>. QED  BY <1>4, <1>5

\* The attempt failed or timed out.
LEMMA SettleFailedInv ==
    ASSUME TaskInv, NEW w \in Workers, canceller' = canceller, reaper' = reaper, SettleFailed(w)
    PROVE  TaskInv'
<1> DEFINE a == held[w].attempt
           d == FailedDb(SettleCurrentAttempt(db, a, held[w].outcome), ChildOf[a])
<1>1. held[w] # None /\ held[w].outcome \in Failure /\ HasRoom(cmds)
  BY DEF SettleFailed, At, Busy, Failure
<1>2. a \in Attempts /\ RunOf[a] \in Runs /\ Known(db, a) /\ StoreInv(db)
  BY <1>1, InHand DEF TaskInv
<1>3. CASE db.attempts[a] = None \/ db.attempts[a].status # "started"
  <2>1. Commit(w, db, cmds)
    BY <1>3 DEF SettleFailed
  <2>2. Over(db, a)
    BY <1>2, <1>3, NotFencedIsOver DEF FencedAttempt, IsFreshAttempt
  <2>. QED  BY <1>1, <2>1, <2>2, CommitNothing
<1>4. CASE ~(db.attempts[a] = None \/ db.attempts[a].status # "started") /\ ShouldRetryAttempt(db, a)
  <2>1. PICK a2 \in Attempts, now \in BOOLEAN : RetryAttempt(w, a2, now)
    BY <1>4 DEF SettleFailed
  <2>. QED  BY <1>1, <1>4, <2>1, RetryAttemptInv
<1>5. CASE ~(db.attempts[a] = None \/ db.attempts[a].status # "started") /\ ~ShouldRetryAttempt(db, a)
  <2>1. Commit(w, d, Notified(d, cmds, ChildOf[a]))
    BY <1>5 DEF SettleFailed
  <2>2. Notified(d, cmds, ChildOf[a]) = cmds
    BY <1>2, NobodyNotified
  <2>. HIDE DEF d
  <2>3. /\ StoreInv(d) /\ Grown(db, d) /\ SameCurrent(db, d)
        /\ d.runs[RunOf[a]] \in Terminal
        /\ \A b \in Attempts : db.attempts[b] # None => d.attempts[b] # None
    BY <1>1, <1>2, <1>5, ExhaustSound DEF d
  <2>4. Over(d, a)
    BY <2>3 DEF Over
  <2>5. TableInv(cmds) /\ NoNewLease(cmds, cmds) /\ Sent(cmds) \cap Attempts \subseteq Sent(cmds)
    BY DEF TaskInv, NoNewLease
  <2>. QED  BY <1>1, <2>1, <2>2, <2>3, <2>4, <2>5, CommitInv
<1>. QED  BY <1>3, <1>4, <1>5
-----------------------------------------------------------------------------
(* The invariant.                                                          *)

\* The empty database satisfies it.
LEMMA TaskInit == Init => TaskInv
<1>. SUFFICES ASSUME Init PROVE TaskInv
  OBVIOUS
<1>1. /\ db.runs = [r \in Runs |-> "absent"] /\ db.nodes = [n \in Nodes |-> None]
      /\ db.children = [k \in Children |-> None] /\ db.attempts = [a \in Attempts |-> None]
      /\ db \in Database
  BY DEF Init, EmptyDatabase, Database
<1>2. cmds = [c \in CommandIds |-> None] /\ Rows(cmds) = {} /\ cmds \in Table
  BY DEF Init, EmptyTable, Rows, Table
<1>3. \A r \in Runs : ~RunExists(db, r)
  BY <1>1 DEF RunExists, RunStatus
<1>4. StoreInv(db)
  BY <1>1, <1>3, Topology DEF StoreInv, Story, Linked, Agreed, Retried, Made
<1>5. TableInv(cmds)
  BY <1>2 DEF TableInv, Sound, ContinuesIdle, InDedupIndex
<1>6. held = [w \in Workers |-> None] /\ canceller = {} /\ reaper = None
  BY DEF Init
<1>7. TypeOK
  BY <1>1, <1>2, <1>6 DEF TypeOK
<1>8. NotStranded
  BY <1>3 DEF NotStranded, Started, RunExists, RunStatus
<1>. QED  BY <1>2, <1>4, <1>5, <1>6, <1>7, <1>8
          DEF TaskInv, CommandsKnown, LeaseMatches, WorkerSound, Busy, ReaperSound

\* A step of a worker keeps it.
LEMMA WorkerStepInv ==
    ASSUME TaskInv, NEW w \in Workers, WorkerStep(w), UNCHANGED <<canceller, reaper>>
    PROVE  TaskInv'
<1>1. ASSUME NEW c \in CommandIds, ClaimAttempt(w, c)  PROVE  TaskInv'
  BY <1>1, ClaimAttemptInv
<1>2. CASE LoadSnapshot(w) \/ ReadFence(w) \/ Crash(w) \/ \E o \in Outcome : HandlerEnds(w, o)
  BY <1>2, ReadingInv
<1>3. CASE Unroutable(w) \/ Abandon(w) \/ HeartbeatAttempt(w) \/ AckOnly(w)
  BY <1>3, LeaseInv
<1>4. CASE StartHandler(w)
  BY <1>4, StartHandlerInv
<1>5. CASE SettleCompleted(w)
  BY <1>5, SettleCompletedInv
<1>6. CASE SettleFailed(w)
  BY <1>6, SettleFailedInv
<1>7. CASE ReconcileStaleAttempt(w)
  BY <1>7, ReconcileInv
<1>. QED  BY <1>1, <1>2, <1>3, <1>4, <1>5, <1>6, <1>7 DEF WorkerStep

\* The passing of time keeps it.
LEMMA ClockInv ==
    ASSUME TaskInv, NEW c \in CommandIds, LeaseExpires(c) \/ BecomesDue(c),
           UNCHANGED <<canceller, reaper>>
    PROVE  TaskInv'
<1>1. c \in Rows(cmds) /\ db' = db /\ held' = held /\ TableInv(cmds)
  BY DEF LeaseExpires, BecomesDue, TaskInv
<1>2. cmds' = [cmds EXCEPT ![c].expired = TRUE] \/ cmds' = [cmds EXCEPT ![c].due = TRUE]
  BY DEF LeaseExpires, BecomesDue
<1>3. Quiet(cmds, cmds')
  BY <1>1, <1>2, ClockQuiet
<1>. QED  BY <1>1, <1>3, SameMemory, ReadStep

\* Every step keeps it.
LEMMA TaskStep == TaskInv /\ [Next]_vars => TaskInv'
<1>. SUFFICES ASSUME TaskInv, [Next]_vars PROVE TaskInv'
  OBVIOUS
<1>1. CASE Client
  BY <1>1, StartTaskRunInv, CancelInv, DeleteRunInv, DeadCommandInv DEF Client
<1>2. CASE Maintenance
  BY <1>2, ReapListInv, ReapProceedsInv, ReapCrashInv DEF Maintenance
<1>3. ASSUME NEW w \in Workers, WorkerStep(w), UNCHANGED <<canceller, reaper>>  PROVE  TaskInv'
  BY <1>3, WorkerStepInv
<1>4. ASSUME NEW c \in CommandIds, LeaseExpires(c) \/ BecomesDue(c), UNCHANGED <<canceller, reaper>>
      PROVE  TaskInv'
  BY <1>4, ClockInv
<1>5. CASE UNCHANGED vars
  <2>1. db' = db /\ cmds' = cmds /\ held' = held /\ canceller' = canceller /\ reaper' = reaper
    BY <1>5 DEF vars
  <2>. QED  BY <2>1, SameMemory, ReadStep
<1>. QED  BY <1>1, <1>2, <1>3, <1>4, <1>5 DEF Next

\* TaskInv is an invariant of the specification.
LEMMA TaskInvariant == Spec => []TaskInv
BY TaskInit, TaskStep, PTL DEF Spec

\* Every variable of the task runs keeps its type: no transition writes a
\* status the column does not have, and the numbers of attempts stay
\* within their ids.
THEOREM TasksTyped == Spec => []TypeOK
<1>1. TaskInv => TypeOK
  BY DEF TaskInv
<1>. QED  BY <1>1, TaskInvariant, PTL

\* The rows of a run agree: run, node, child and current attempt complete
\* together, and a failed run has nothing open, however settlements,
\* cancellations and sweeps interleave.
THEOREM RowsTellOneStory == Spec => []RowsAgree
<1>1. TaskInv => RowsAgree
  BY DEF TaskInv, StoreInv, Story, Agreed, RowsAgree, Terminal
<1>. QED  BY <1>1, TaskInvariant, PTL

\* Retries follow the policy: attempts are numbered without a gap or a
\* repetition, each one but the last failed, and no failure below the
\* limit is left without its retry.
THEOREM RetriesFollowPolicy == Spec => []RetryDiscipline
<1>1. ASSUME TaskInv  PROVE  RetryDiscipline
  <2>. SUFFICES ASSUME NEW k \in Children, db.children[k] # None
                PROVE  LET row  == db.children[k]
                           made == Made(db, k)
                           last == db.attempts[row.current]
                       IN  /\ {db.attempts[a].number : a \in made} = 1..row.count
                           /\ Cardinality(made) = row.count
                           /\ last.number = row.count
                           /\ \A a \in made \ {row.current} : db.attempts[a].status \in {"failed", "timedOut"}
                           /\ row.count > 1 => row.count <= RetryAttempts[k]
                           /\ last.status \in {"failed", "timedOut"} => row.count >= RetryAttempts[k]
    BY DEF RetryDiscipline, Made
  <2>1. PICK r \in Runs : k = TaskChild[r]
    BY Topology
  <2>2. Story(db, r) /\ RunExists(db, r)
    BY <1>1, <2>1 DEF TaskInv, StoreInv, Story, Linked
  <2>. QED  BY <2>1, <2>2 DEF Story, Retried, Failure
<1>. QED  BY <1>1, TaskInvariant, PTL

\* No run is stranded: while a started run is open it has a command of its
\* current attempt that will be delivered or reaped, whatever crashed.
THEOREM NoRunStranded == Spec => []NotStranded
<1>1. TaskInv => NotStranded
  BY DEF TaskInv
<1>. QED  BY <1>1, TaskInvariant, PTL
-----------------------------------------------------------------------------
(* What a step does to the statuses and results of the runs, and the       *)
(* refinement of DurableTask.                                              *)

\* A step of the sweep writes the rows of one run.
LEMMA ReapShows ==
    ASSUME TaskInv, ReapProceeds
    PROVE  Shown(db, db') /\ Grown(db, db')
<1> DEFINE a == reaper.attempt
           r == RunOf[a]
<1>1. reaper # None
  BY DEF ReapProceeds, ReapFailChild, ReapFailNode, ReapLoadRun, ReapDeleteUnclaimed,
         ReapCancelNodes, ReapFailRun, ReapMark
<1>2. /\ a \in Attempts /\ r \in Runs /\ StoreInv(db)
      /\ ChildOf[a] = TaskChild[r] /\ NodeOf[ChildOf[a]] = TaskNode[r]
  BY <1>1, Topology DEF TaskInv, TypeOK, Reaping
<1>3. /\ reaper.pc # "failChild" => db.runs[r] = "deleted" \/ db.children[TaskChild[r]].status \in Terminal
      /\ reaper.pc \notin {"failChild", "failNode"} => db.runs[r] = "deleted" \/ db.nodes[TaskNode[r]] \in Terminal
      /\ db.runs[r] = "deleted" => ~RunExists(db, r)
  BY <1>1, <1>2 DEF TaskInv, ReaperSound, RunExists, RunStatus
<1>4. CASE ReapFailChild
  BY <1>2, <1>4, FailChildSound DEF ReapFailChild, ReapAt
<1>5. CASE ReapFailNode
  BY <1>2, <1>3, <1>5, FailNodeSound DEF ReapFailNode, ReapAt
<1>6. CASE ReapCancelNodes
  <2>1. db' = CancelNonTerminalRunNodes(db, r) /\ reaper.pc = "cancelNodes"
    BY <1>6 DEF ReapCancelNodes, ReapAt, Reaped
  <2>2. db' = db
    BY <1>2, <1>3, <2>1, CancelNodesSound
  <2>. QED  BY <1>2, <2>2, SameGrown DEF Shown
<1>7. CASE ReapFailRun
  <2>1. db' = FailRun(db, r) /\ reaper.pc = "failRun"
    BY <1>7 DEF ReapFailRun, ReapAt, Reaped
  <2>. QED  BY <1>2, <1>3, <2>1, FailRunSound
<1>8. CASE ReapLoadRun \/ ReapDeleteUnclaimed \/ ReapMark
  <2>1. db' = db
    BY <1>8 DEF ReapLoadRun, ReapDeleteUnclaimed, ReapMark, ReapAt
  <2>. QED  BY <1>2, <2>1, SameGrown DEF Shown
<1>. QED  BY <1>4, <1>5, <1>6, <1>7, <1>8 DEF ReapProceeds

\* So does a step of a worker.
LEMMA WorkerShows ==
    ASSUME TaskInv, NEW w \in Workers, WorkerStep(w)
    PROVE  Shown(db, db') /\ Grown(db, db')
<1> DEFINE a == held[w].attempt
<1>1. CASE db' = db
  BY <1>1, SameGrown DEF Shown, TaskInv
<1>2. CASE StartHandler(w)
  <2>1. held[w] # None
    BY <1>2 DEF StartHandler, At, Busy
  <2>2. RunOf[a] \in Runs /\ KindOf[RunOf[a]] = "task"
    BY <2>1, InHand, Topology
  <2>. QED  BY <1>2, <2>2, SetRunSound DEF StartHandler, MarkRunRunning, TaskInv
<1>3. CASE SettleCompleted(w) /\ db' # db
  <2>1. held[w] # None
    BY <1>3 DEF SettleCompleted, At, Busy
  <2>2. a \in Attempts /\ StoreInv(db)
    BY <2>1, InHand DEF TaskInv
  <2>3. FencedAttempt(db, a) /\ db' = CompletedDb(CompleteCurrentAttempt(db, a), ChildOf[a])
    BY <1>3 DEF SettleCompleted, Commit
  <2>. QED  BY <2>2, <2>3, CompleteSound
<1>4. CASE SettleFailed(w) /\ db' # db
  <2>1. held[w] # None /\ held[w].outcome \in Failure
    BY <1>4 DEF SettleFailed, At, Busy, Failure
  <2>2. a \in Attempts /\ StoreInv(db)
    BY <2>1, InHand DEF TaskInv
  <2>3. db.attempts[a] # None /\ db.attempts[a].status = "started"
    BY <1>4 DEF SettleFailed, Commit
  <2>4. CASE ShouldRetryAttempt(db, a)
    <3>1. PICK a2 \in Attempts, now \in BOOLEAN : RetryAttempt(w, a2, now)
      BY <1>4, <2>3, <2>4 DEF SettleFailed
    <3>2. /\ ChildOf[a2] = ChildOf[a] /\ db.attempts[a2] = None
          /\ CanCreateAttempt(SettleCurrentAttempt(db, a, held[w].outcome), ChildOf[a])
          /\ db' = CreateAttempt(SettleCurrentAttempt(db, a, held[w].outcome), ChildOf[a], a2)
      BY <1>4, <3>1 DEF RetryAttempt, Commit
    <3>. QED  BY <2>1, <2>2, <2>3, <2>4, <3>2, RetrySound
  <2>5. CASE ~ShouldRetryAttempt(db, a)
    <3>1. db' = FailedDb(SettleCurrentAttempt(db, a, held[w].outcome), ChildOf[a])
      BY <1>4, <2>3, <2>5 DEF SettleFailed, Commit
    <3>. QED  BY <2>1, <2>2, <2>3, <2>5, <3>1, ExhaustSound
  <2>. QED  BY <2>4, <2>5
<1>5. CASE ReconcileStaleAttempt(w)
  <2>1. held[w] # None /\ held[w].pc = "stale"
    BY <1>5 DEF ReconcileStaleAttempt, At, Busy
  <2>2. held[w].child = None \/ held[w].child.current # a
    BY <2>1 DEF TaskInv, WorkerSound, Busy
  <2>3. db' = db
    BY <1>5, <2>2 DEF ReconcileStaleAttempt, Commit
  <2>. QED  BY <1>1, <2>3
<1>6. CASE ~(StartHandler(w) \/ SettleCompleted(w) \/ SettleFailed(w) \/ ReconcileStaleAttempt(w))
  <2>1. db' = db
    BY <1>6 DEF WorkerStep, ClaimAttempt, LoadSnapshot, Unroutable, HandlerEnds, HeartbeatAttempt,
                Abandon, AckOnly, ReadFence, Crash
  <2>. QED  BY <1>1, <2>1
<1>. QED  BY <1>1, <1>2, <1>3, <1>4, <1>5, <1>6

\* Every step writes the rows of at most one run, in one of the ways of
\* Seen.
LEMMA StepShows ==
    ASSUME TaskInv, [Next]_vars
    PROVE  Shown(db, db') /\ Grown(db, db')
<1>. StoreInv(db)
  BY DEF TaskInv
<1>1. CASE db' = db
  BY <1>1, SameGrown DEF Shown
<1>2. ASSUME NEW r \in Runs, NEW now \in BOOLEAN, StartTaskRun(r, now)
      PROVE  Shown(db, db') /\ Grown(db, db')
  BY <1>2, StartSound DEF StartTaskRun
<1>3. ASSUME NEW r \in Runs, RequestCancel(r)  PROVE  Shown(db, db') /\ Grown(db, db')
  BY <1>3, SetRunSound DEF RequestCancel, RequestRunCancellation
<1>4. ASSUME NEW r \in Runs, DeleteRun(r)  PROVE  Shown(db, db') /\ Grown(db, db')
  BY <1>4, DeleteRunSound DEF DeleteRun
<1>5. CASE ReapProceeds
  BY <1>5, ReapShows
<1>6. ASSUME NEW w \in Workers, WorkerStep(w)  PROVE  Shown(db, db') /\ Grown(db, db')
  BY <1>6, WorkerShows
<1>7. CASE Client
  BY <1>1, <1>2, <1>3, <1>4, <1>7 DEF Client, EnqueueCancel, SweepDead, RequeueDead
<1>8. CASE Maintenance
  BY <1>1, <1>5, <1>8 DEF Maintenance, ReapList, ReapCrash
<1>9. CASE UNCHANGED vars \/ \E c \in CommandIds : LeaseExpires(c) \/ BecomesDue(c)
  BY <1>1, <1>9 DEF vars, LeaseExpires, BecomesDue
<1>. QED  BY <1>6, <1>7, <1>8, <1>9 DEF Next

\* What is settled stays: no late settlement, sweep or cancellation
\* rewrites the status of a run, a node or an attempt that has ended; only
\* deleteRun removes it.
THEOREM SettledStays == Spec => SettledIsFinal
<1> DEFINE Keeps ==
        /\ \A r \in Runs : RunIsTerminal(db, r) => db'.runs[r] \in {db.runs[r], "deleted"}
        /\ \A n \in Nodes : db.nodes[n] \in Terminal => db'.nodes[n] \in {db.nodes[n], None}
        /\ \A a \in Attempts : db.attempts[a] # None /\ db.attempts[a].status # "started"
                => db'.attempts[a] \in {db.attempts[a], None}
<1>1. ASSUME TaskInv, TaskInv', [Next]_vars  PROVE  Keeps
  <2>1. Grown(db, db') /\ StoreInv(db) /\ StoreInv(db')
    BY <1>1, StepShows DEF TaskInv
  <2>2. ASSUME NEW r \in Runs, db'.runs[r] = "deleted"
        PROVE  db'.nodes[TaskNode[r]] = None /\ Made(db', TaskChild[r]) = {}
    BY <2>1, <2>2 DEF StoreInv, Story, Linked, RunExists, RunStatus
  <2>3. ASSUME NEW n \in Nodes, db.nodes[n] \in Terminal
        PROVE  db'.nodes[n] \in {db.nodes[n], None}
    BY <2>1, <2>2, <2>3, Topology DEF Grown, Grows
  <2>4. ASSUME NEW a \in Attempts, db.attempts[a] # None, db.attempts[a].status # "started"
        PROVE  db'.attempts[a] \in {db.attempts[a], None}
    <3>1. RunOf[a] \in Runs /\ a \in Made(db, TaskChild[RunOf[a]]) /\ ChildOf[a] = TaskChild[RunOf[a]]
      BY <2>4, Topology DEF Made
    <3>2. CASE db'.runs[RunOf[a]] = "deleted"
      BY <2>2, <3>1, <3>2 DEF Made
    <3>3. CASE db'.runs[RunOf[a]] # "deleted"
      BY <2>1, <2>4, <3>1, <3>3 DEF Grown, Grows
    <3>. QED  BY <3>2, <3>3
  <2>. QED  BY <2>1, <2>3, <2>4 DEF Grown, Grows
<1>2. TaskInv /\ TaskInv' /\ [Next]_vars => [Keeps]_vars
  BY <1>1
<1>. QED  BY <1>2, TaskInvariant, PTL DEF Spec, SettledIsFinal

\* The refinement mapping, as functions of the database.
NumberedIn(d, r, i) ==
    CHOOSE a \in Attempts : /\ ChildOf[a] = TaskChild[r] /\ d.attempts[a] # None
                            /\ d.attempts[a].number = i

SettledIn(d, r) ==
    LET k == d.children[TaskChild[r]]
    IN  IF d.attempts[k.current].status = "started" THEN k.count - 1 ELSE k.count

ResultsIn(d, r) ==
    IF ~RunExists(d, r) THEN <<>>
    ELSE [i \in 1..SettledIn(d, r) |-> d.attempts[NumberedIn(d, r, i)].status]

PhaseIn(d, r) == IF d.runs[r] \in {"queued", "running"} THEN "open" ELSE d.runs[r]

\* An attempt is found by its number, and every number up to the count is
\* the number of one.
LEMMA ByNumber ==
    ASSUME NEW d, StoreInv(d), NEW r \in Runs, RunExists(d, r)
    PROVE  /\ d.children[TaskChild[r]].count \in Nat /\ d.children[TaskChild[r]].count >= 1
           /\ \A a \in Made(d, TaskChild[r]) :
                /\ d.attempts[a].number \in 1..d.children[TaskChild[r]].count
                /\ NumberedIn(d, r, d.attempts[a].number) = a
           /\ \A i \in 1..d.children[TaskChild[r]].count :
                /\ NumberedIn(d, r, i) \in Made(d, TaskChild[r])
                /\ d.attempts[NumberedIn(d, r, i)].number = i
<1> DEFINE k == TaskChild[r]
           made == Made(d, k)
           c == d.children[k].count
<1>1. /\ Linked(d, r) /\ Retried(d, r) /\ d \in Database /\ k \in Children
  BY Topology DEF StoreInv, Story
<1>2. /\ {d.attempts[a].number : a \in made} = 1..c
      /\ \A a, b \in made : d.attempts[a].number = d.attempts[b].number => a = b
      /\ d.children[k].current \in made /\ d.attempts[d.children[k].current].number = c
  BY <1>1 DEF Retried, Linked
<1>3. d.children[k] \in ChildRow
  BY <1>1 DEF Linked, Database
<1>4. c \in Nat /\ c >= 1
  <2>1. c \in 1..c
    BY <1>2
  <2>2. c \in Int
    BY <1>3 DEF ChildRow
  <2>. QED  BY <2>1, <2>2
<1>5. ASSUME NEW a \in made
      PROVE  d.attempts[a].number \in 1..c /\ NumberedIn(d, r, d.attempts[a].number) = a
  <2> DEFINE x == NumberedIn(d, r, d.attempts[a].number)
  <2>1. x \in made /\ d.attempts[x].number = d.attempts[a].number
    BY <1>5 DEF NumberedIn, Made
  <2>. QED  BY <1>2, <2>1
<1>6. ASSUME NEW i \in 1..c
      PROVE  NumberedIn(d, r, i) \in made /\ d.attempts[NumberedIn(d, r, i)].number = i
  <2>1. PICK a \in made : d.attempts[a].number = i
    BY <1>2
  <2>. QED  BY <1>5, <2>1
<1>. QED  BY <1>4, <1>5, <1>6

\* The results of a run are a sequence.
LEMMA ResultsAreSeq ==
    ASSUME NEW d, StoreInv(d), NEW r \in Runs, RunExists(d, r)
    PROVE  /\ SettledIn(d, r) \in Nat
           /\ ResultsIn(d, r) \in Seq(AttemptStatus) /\ Len(ResultsIn(d, r)) = SettledIn(d, r)
           /\ \A i \in 1..SettledIn(d, r) :
                ResultsIn(d, r)[i] = d.attempts[NumberedIn(d, r, i)].status
<1> DEFINE m == SettledIn(d, r)
           c == d.children[TaskChild[r]].count
<1>1. c \in Nat /\ c >= 1
  BY ByNumber
<1>2. m \in Nat /\ m <= c
  BY <1>1 DEF SettledIn
<1>. HIDE DEF m
<1>3. ASSUME NEW i \in 1..m  PROVE  d.attempts[NumberedIn(d, r, i)].status \in AttemptStatus
  <2>1. i \in 1..c
    BY <1>1, <1>2
  <2>2. NumberedIn(d, r, i) \in Made(d, TaskChild[r])
    BY <2>1, ByNumber
  <2>3. d.attempts[NumberedIn(d, r, i)] \in AttemptRow
    BY <2>2 DEF Made, StoreInv, Database
  <2>. QED  BY <2>3 DEF AttemptRow
<1>4. ResultsIn(d, r) = [i \in 1..m |-> d.attempts[NumberedIn(d, r, i)].status]
  BY DEF ResultsIn, m
<1>. QED  BY <1>2, <1>3, <1>4 DEF m

\* Attempts that keep their numbers and results keep their places.
LEMMA SamePlace ==
    ASSUME NEW d, NEW e, StoreInv(d), StoreInv(e), NEW r \in Runs, RunExists(d, r), RunExists(e, r),
           NEW a \in Made(d, TaskChild[r]), e.attempts[a] = d.attempts[a], NEW i,
           i = d.attempts[a].number
    PROVE  e.attempts[NumberedIn(e, r, i)].status = d.attempts[NumberedIn(d, r, i)].status
<1>1. a \in Made(e, TaskChild[r])
  BY DEF Made
<1>. QED  BY <1>1, ByNumber

\* If no result is new the results are the same, and a result that is new
\* is appended.
LEMMA ResultsGrow ==
    ASSUME NEW d, NEW e, StoreInv(d), StoreInv(e), NEW r \in Runs, RunExists(d, r), RunExists(e, r),
           \A a \in Made(d, TaskChild[r]) :
                d.attempts[a].number <= SettledIn(d, r) => e.attempts[a] = d.attempts[a]
    PROVE  /\ SettledIn(e, r) = SettledIn(d, r) => ResultsIn(e, r) = ResultsIn(d, r)
           /\ \A f \in AttemptStatus :
                /\ SettledIn(e, r) = SettledIn(d, r) + 1
                /\ e.attempts[NumberedIn(e, r, SettledIn(e, r))].status = f
                => ResultsIn(e, r) = Append(ResultsIn(d, r), f)
<1> DEFINE s == ResultsIn(d, r)
           t == ResultsIn(e, r)
           m == SettledIn(d, r)
<1>1. /\ m \in Nat /\ s \in Seq(AttemptStatus) /\ Len(s) = m
      /\ \A i \in 1..m : s[i] = d.attempts[NumberedIn(d, r, i)].status
  BY ResultsAreSeq
<1>2. /\ SettledIn(e, r) \in Nat /\ t \in Seq(AttemptStatus) /\ Len(t) = SettledIn(e, r)
      /\ \A i \in 1..SettledIn(e, r) : t[i] = e.attempts[NumberedIn(e, r, i)].status
  BY ResultsAreSeq
<1>3. m <= d.children[TaskChild[r]].count /\ d.children[TaskChild[r]].count \in Nat
  BY ByNumber DEF SettledIn
<1>. HIDE DEF s, t, m
<1>4. ASSUME NEW i \in 1..m, i <= SettledIn(e, r)  PROVE  t[i] = s[i]
  <2>1. i \in 1..d.children[TaskChild[r]].count
    BY <1>1, <1>3
  <2>2. NumberedIn(d, r, i) \in Made(d, TaskChild[r]) /\ d.attempts[NumberedIn(d, r, i)].number = i
    BY <2>1, ByNumber
  <2>3. e.attempts[NumberedIn(d, r, i)] = d.attempts[NumberedIn(d, r, i)]
    BY <1>1, <2>2 DEF m
  <2>4. e.attempts[NumberedIn(e, r, i)].status = d.attempts[NumberedIn(d, r, i)].status
    BY <2>2, <2>3, SamePlace
  <2>. QED  BY <1>1, <1>2, <1>4, <2>4
<1>5. SettledIn(e, r) = m => t = s
  BY <1>1, <1>2, <1>4
<1>6. ASSUME NEW f \in AttemptStatus, SettledIn(e, r) = m + 1,
             e.attempts[NumberedIn(e, r, SettledIn(e, r))].status = f
      PROVE  t = Append(s, f)
  <2>1. t[m + 1] = f
    BY <1>1, <1>2, <1>6
  <2>. QED  BY <1>1, <1>2, <1>4, <1>6, <2>1
<1>. QED  BY <1>5, <1>6 DEF s, t, m

\* A run whose rows were not written is where it was.
LEMMA OthersStay ==
    ASSUME NEW d, NEW e, StoreInv(d), StoreInv(e), NEW r \in Runs, Local(d, e, r),
           NEW q \in Runs \ {r}
    PROVE  PhaseIn(e, q) = PhaseIn(d, q) /\ ResultsIn(e, q) = ResultsIn(d, q)
<1>1. e.runs[q] = d.runs[q] /\ e.children[TaskChild[q]] = d.children[TaskChild[q]]
  BY DEF Local
<1>2. CASE ~RunExists(d, q)
  BY <1>1, <1>2 DEF PhaseIn, ResultsIn, RunExists
<1>3. CASE RunExists(d, q)
  <2>1. RunExists(e, q) /\ \A a \in Made(d, TaskChild[q]) : e.attempts[a] = d.attempts[a]
    BY <1>1, <1>3, Topology DEF RunExists, Local, Made
  <2>2. d.children[TaskChild[q]].current \in Made(d, TaskChild[q])
    BY <1>3 DEF StoreInv, Story, Linked
  <2>3. SettledIn(e, q) = SettledIn(d, q)
    BY <1>1, <2>1, <2>2 DEF SettledIn
  <2>. QED  BY <1>1, <1>3, <2>1, <2>3, ResultsGrow DEF PhaseIn
<1>. QED  BY <1>2, <1>3

\* The steps of DurableTask, for one run in phase p with results s.
Advances(r, p, s, p2, s2) ==
    LET open == p \in {"open", "cancelling"}
    IN  \/ p2 = p /\ s2 = s
        \/ p = "absent" /\ p2 = "open" /\ s2 = s
        \/ p = "open" /\ p2 = "cancelling" /\ s2 = s
        \/ open /\ p2 = "completed" /\ s2 = Append(s, "completed")
        \/ open /\ p2 = "failed" /\ s2 = s
        \/ p \in {"completed", "failed"} /\ p2 = "deleted" /\ s2 = <<>>
        \/ \E f \in Failure :
            /\ s2 = Append(s, f)
            /\ \/ open /\ p2 = p /\ Len(s) + 1 < LimitOf(r)
               \/ open /\ p2 = "failed" /\ Len(s) + 1 = LimitOf(r)
               \/ p = "failed" /\ p2 = p /\ Len(s) + 1 = LimitOf(r)

\* The end of an attempt appends its result.
LEMMA EndAppends ==
    ASSUME NEW d, NEW e, StoreInv(d), StoreInv(e), NEW r \in Runs, NEW a \in Attempts,
           NEW f \in {"completed"} \cup Failure, Ends(d, e, r, a, f),
           \/ e.children[TaskChild[r]].current = a /\ e.children[TaskChild[r]].count = d.children[TaskChild[r]].count
           \/ /\ e.attempts[e.children[TaskChild[r]].current].status = "started"
              /\ e.children[TaskChild[r]].count = d.children[TaskChild[r]].count + 1
    PROVE  /\ ResultsIn(e, r) = Append(ResultsIn(d, r), f)
           /\ Len(ResultsIn(d, r)) + 1 = d.children[TaskChild[r]].count
           /\ RunExists(d, r) /\ d.children[TaskChild[r]].count \in Nat
           /\ d.children[TaskChild[r]].count >= 1
<1> DEFINE k == TaskChild[r]
           c == d.children[k].count
<1>1. /\ RunExists(d, r) /\ d.children[k].current = a /\ Story(d, r) /\ a \in Made(d, k) /\ RunExists(e, r)
      /\ d.attempts[a].status = "started"
  BY StartedIsCurrent DEF Ends
<1>2. c \in Nat /\ c >= 1 /\ d.attempts[a].number = c
  BY <1>1, ByNumber DEF Story, Retried
<1>3. SettledIn(d, r) = c - 1
  BY <1>1 DEF SettledIn
<1>4. /\ e.attempts[a].status = f /\ f # "started" /\ f \in AttemptStatus /\ e.attempts[a].number = c
  BY <1>2 DEF Ends, Failure, AttemptStatus
<1>5. SettledIn(e, r) = c
  BY <1>2, <1>4 DEF SettledIn
<1>6. \A b \in Made(d, k) : d.attempts[b].number <= SettledIn(d, r) => e.attempts[b] = d.attempts[b]
  BY <1>2, <1>3 DEF Ends
<1>7. e.attempts[NumberedIn(e, r, c)].status = f
  <2>1. NumberedIn(e, r, c) \in Made(e, k) /\ e.attempts[NumberedIn(e, r, c)].number = c
    <3>1. c \in 1..e.children[k].count
      BY <1>2
    <3>. QED  BY <1>1, <3>1, ByNumber
  <2>2. a \in Made(e, k)
    BY <1>1 DEF Made, Ends
  <2>3. NumberedIn(e, r, c) = a
    BY <1>1, <1>4, <2>2, ByNumber
  <2>. QED  BY <1>4, <2>3
<1>8. ResultsIn(e, r) = Append(ResultsIn(d, r), f)
  <2>1. SettledIn(e, r) = SettledIn(d, r) + 1
    BY <1>2, <1>3, <1>5
  <2>. QED  BY <1>1, <1>4, <1>5, <1>6, <1>7, <2>1, ResultsGrow
<1>9. Len(ResultsIn(d, r)) + 1 = c
  BY <1>1, <1>2, <1>3, ResultsAreSeq
<1>. QED  BY <1>1, <1>2, <1>8, <1>9

\* What a transaction does to a run is a step of DurableTask.
LEMMA SeenAdvances ==
    ASSUME NEW d, NEW e, StoreInv(d), StoreInv(e), NEW r \in Runs, Local(d, e, r), Seen(d, e, r)
    PROVE  Advances(r, PhaseIn(d, r), ResultsIn(d, r), PhaseIn(e, r), ResultsIn(e, r))
<1> DEFINE k == TaskChild[r]
           row == d.children[k]
           new == e.children[k]
           max == RetryAttempts[k]
           p == PhaseIn(d, r)
           p2 == PhaseIn(e, r)
           s == ResultsIn(d, r)
           s2 == ResultsIn(e, r)
<1>1. /\ Story(d, r) /\ Story(e, r) /\ max \in Nat
      /\ d.runs[r] \in RunStatus \cup {"absent", "deleted"}
  BY Topology, RunAssumption DEF StoreInv, Database, RunAssumption
<1>2. d.runs[r] \notin {"waiting", "cancelled"}
  BY <1>1 DEF Story, Agreed
<1>3. ASSUME RunExists(d, r), d.runs[r] \notin Terminal  PROVE  p \in {"open", "cancelling"}
  BY <1>2, <1>3 DEF PhaseIn, RunExists, RunStatus, Terminal
<1>4. CASE SameResults(d, e, r)
  <2>1. /\ RunExists(d, r) /\ RunExists(e, r) /\ row.current \in Made(d, k)
        /\ \A a \in Made(d, k) : e.attempts[a] = d.attempts[a]
    BY <1>1, <1>4, Topology DEF SameResults, Story, Linked, Made
  <2>2. SettledIn(e, r) = SettledIn(d, r)
    BY <1>4, <2>1 DEF SettledIn, SameResults
  <2>3. s2 = s
    BY <2>1, <2>2, ResultsGrow
  <2>4. \/ e.runs[r] = d.runs[r]
        \/ d.runs[r] \in {"queued", "running"} /\ e.runs[r] \in {"running", "cancelling"}
        \/ d.runs[r] \notin Terminal /\ e.runs[r] = "failed"
    <3>1. CASE ~\E a \in Attempts, f \in Failure \cup {"completed"} : Ends(d, e, r, a, f)
      BY <1>4, <2>1, <3>1 DEF Seen, RunExists, RunStatus
    <3>2. ASSUME NEW a \in Attempts, NEW f \in Failure \cup {"completed"}, Ends(d, e, r, a, f)
          PROVE  FALSE
      BY <1>4, <3>2 DEF Ends, SameResults, Failure
    <3>. QED  BY <3>1, <3>2
  <2>5. \/ p2 = p \/ (p = "open" /\ p2 = "cancelling") \/ (p \in {"open", "cancelling"} /\ p2 = "failed")
    BY <1>3, <2>1, <2>4 DEF PhaseIn
  <2>. QED  BY <2>3, <2>5 DEF Advances
<1>5. CASE d.runs[r] = "absent" /\ e.runs[r] = "queued" /\ new.count = 1
           /\ e.attempts[new.current].status = "started"
  <2>1. p = "absent" /\ p2 = "open" /\ ~RunExists(d, r) /\ RunExists(e, r)
    BY <1>5 DEF PhaseIn, RunExists, RunStatus
  <2>2. SettledIn(e, r) = 0
    BY <1>5 DEF SettledIn
  <2>3. s = <<>> /\ s2 = <<>>
    BY <2>1, <2>2, ResultsAreSeq DEF ResultsIn
  <2>. QED  BY <2>1, <2>3 DEF Advances
<1>6. CASE d.runs[r] \in Terminal /\ e.runs[r] = "deleted"
  <2>1. p \in {"completed", "failed"} /\ p2 = "deleted" /\ s2 = <<>>
    BY <1>2, <1>6 DEF PhaseIn, ResultsIn, RunExists, RunStatus, Terminal
  <2>. QED  BY <2>1 DEF Advances
<1>7. ASSUME NEW a \in Attempts, Ends(d, e, r, a, "completed"),
             d.runs[r] \notin Terminal, e.runs[r] = "completed",
             new.current = a, new.count = row.count
      PROVE  Advances(r, p, s, p2, s2)
  <2>1. s2 = Append(s, "completed") /\ RunExists(d, r)
    BY <1>7, EndAppends
  <2>2. p \in {"open", "cancelling"} /\ p2 = "completed"
    BY <1>3, <1>7, <2>1 DEF PhaseIn
  <2>. QED  BY <2>1, <2>2 DEF Advances
<1>8. ASSUME NEW a \in Attempts, NEW f \in Failure, Ends(d, e, r, a, f), row.count >= max,
             e.runs[r] = IF d.runs[r] \in Terminal THEN d.runs[r] ELSE "failed",
             new.current = a, new.count = row.count
      PROVE  Advances(r, p, s, p2, s2)
  <2>1. /\ s2 = Append(s, f) /\ RunExists(d, r) /\ Len(s) + 1 = row.count
        /\ row.count \in Nat /\ row.count >= 1
    <3>1. f \in {"completed"} \cup Failure
      OBVIOUS
    <3>. QED  BY <1>8, <3>1, EndAppends
  <2>2. row.count = LimitOf(r)
    BY <1>1, <1>8, <2>1 DEF Story, Retried, LimitOf
  <2>3. \/ p \in {"open", "cancelling"} /\ p2 = "failed"
        \/ p = "failed" /\ p2 = p
    <3>1. d.runs[r] # "completed"
      <4>1. d.children[k].current = a /\ d.attempts[a].status = "started"
        BY <1>8, StartedIsCurrent DEF Ends
      <4>. QED  BY <1>1, <2>1, <4>1 DEF Story, Agreed
    <3>2. CASE d.runs[r] \in Terminal
      BY <1>2, <1>8, <3>1, <3>2 DEF PhaseIn, Terminal
    <3>3. CASE d.runs[r] \notin Terminal
      BY <1>3, <1>8, <2>1, <3>3 DEF PhaseIn
    <3>. QED  BY <3>2, <3>3
  <2>. QED  BY <2>1, <2>2, <2>3 DEF Advances
<1>9. ASSUME NEW a \in Attempts, NEW f \in Failure, Ends(d, e, r, a, f), row.count < max,
             d.runs[r] \notin Terminal, e.runs[r] = d.runs[r],
             new.count = row.count + 1, e.attempts[new.current].status = "started"
      PROVE  Advances(r, p, s, p2, s2)
  <2>1. /\ s2 = Append(s, f) /\ RunExists(d, r) /\ Len(s) + 1 = row.count
        /\ row.count \in Nat /\ row.count >= 1
    <3>1. f \in {"completed"} \cup Failure
      OBVIOUS
    <3>. QED  BY <1>9, <3>1, EndAppends
  <2>2. row.count < LimitOf(r)
    BY <1>1, <1>9, <2>1 DEF LimitOf
  <2>3. p \in {"open", "cancelling"} /\ p2 = p
    BY <1>3, <1>9, <2>1 DEF PhaseIn
  <2>. QED  BY <2>1, <2>2, <2>3 DEF Advances
<1>. QED  BY <1>4, <1>5, <1>6, <1>7, <1>8, <1>9 DEF Seen

\* The task runs implement DurableTask: through clients, workers, leases,
\* crashes, redeliveries and sweeps, each attempt's result is recorded
\* once and in order, and a run ends as its last result or the sweep says.
THEOREM TasksAreDurable == Spec => ImplementsDurableTask
<1>1. Init => Durable!Init
  <2>. SUFFICES ASSUME Init PROVE Durable!Init
    OBVIOUS
  <2>1. \A r \in Runs : db.runs[r] = "absent"
    BY DEF Init, EmptyDatabase
  <2>2. \A r \in Runs : PhaseOf(r) = "absent" /\ ResultsOf(r) = <<>>
    BY <2>1 DEF PhaseOf, Started, ResultsOf, RunExists, RunStatus
  <2>. QED  BY <2>2 DEF Durable!Init
<1>2. /\ [r \in Runs |-> PhaseOf(r)] = [r \in Runs |-> PhaseIn(db, r)]
      /\ [r \in Runs |-> PhaseOf(r)]' = [r \in Runs |-> PhaseIn(db', r)]
  BY DEF PhaseOf, PhaseIn, Started
<1>3. /\ [r \in Runs |-> ResultsOf(r)] = [r \in Runs |-> ResultsIn(db, r)]
      /\ [r \in Runs |-> ResultsOf(r)]' = [r \in Runs |-> ResultsIn(db', r)]
  BY DEF ResultsOf, ResultsIn, SettledIn, Numbered, NumberedIn
<1>4. ASSUME TaskInv, TaskInv', [Next]_vars  PROVE  [Durable!Next]_(Durable!dvars)
  <2>1. Shown(db, db') /\ StoreInv(db) /\ StoreInv(db')
    BY <1>4, StepShows DEF TaskInv
  <2>2. CASE db' = db
    BY <1>2, <1>3, <2>2 DEF Durable!dvars
  <2>3. ASSUME NEW r \in Runs, Local(db, db', r), Seen(db, db', r)
        PROVE  [Durable!Next]_(Durable!dvars)
    <3>1. PICK ph, ph2, rs, rs2 :
            /\ ph = [q \in Runs |-> PhaseOf(q)] /\ ph2 = [q \in Runs |-> PhaseOf(q)]'
            /\ rs = [q \in Runs |-> ResultsOf(q)] /\ rs2 = [q \in Runs |-> ResultsOf(q)]'
      OBVIOUS
    <3>2. PICK p, p2, s, s2 : /\ p = PhaseIn(db, r) /\ p2 = PhaseIn(db', r)
                              /\ s = ResultsIn(db, r) /\ s2 = ResultsIn(db', r)
      OBVIOUS
    <3>3. /\ ph[r] = p /\ rs[r] = s
          /\ ph2 = [ph EXCEPT ![r] = p2] /\ rs2 = [rs EXCEPT ![r] = s2]
      <4>1. /\ ph = [q \in Runs |-> PhaseIn(db, q)] /\ rs = [q \in Runs |-> ResultsIn(db, q)]
            /\ ph2 = [q \in Runs |-> PhaseIn(db', q)] /\ rs2 = [q \in Runs |-> ResultsIn(db', q)]
        BY <1>2, <1>3, <3>1
      <4>2. \A q \in Runs \ {r} : PhaseIn(db', q) = PhaseIn(db, q) /\ ResultsIn(db', q) = ResultsIn(db, q)
        BY <2>1, <2>3, OthersStay
      <4>3. ph2 = [ph EXCEPT ![r] = p2] /\ rs2 = [rs EXCEPT ![r] = s2]
        BY <3>2, <4>1, <4>2
      <4>. QED  BY <3>2, <4>1, <4>3
    <3>4. DOMAIN ph = Runs /\ DOMAIN rs = Runs /\ ph = [q \in Runs |-> ph[q]] /\ rs = [q \in Runs |-> rs[q]]
      BY <3>1
    <3>5. Advances(r, p, s, p2, s2)
      BY <2>1, <2>3, <3>2, SeenAdvances
    <3>6. s2 = s => rs2 = rs
      BY <3>3, <3>4
    <3>7. p2 = p => ph2 = ph
      BY <3>3, <3>4
    <3>8. CASE p2 = p /\ s2 = s
      BY <3>1, <3>6, <3>7, <3>8 DEF Durable!dvars
    <3>9. CASE p = "absent" /\ p2 = "open" /\ s2 = s
      <4>1. Durable!Start(r)
        BY <3>1, <3>3, <3>6, <3>9 DEF Durable!Start
      <4>. QED  BY <4>1 DEF Durable!Next
    <3>10. CASE p = "open" /\ p2 = "cancelling" /\ s2 = s
      <4>1. Durable!RequestCancel(r)
        BY <3>1, <3>3, <3>6, <3>10 DEF Durable!RequestCancel
      <4>. QED  BY <4>1 DEF Durable!Next
    <3>11. CASE p \in {"open", "cancelling"} /\ p2 = "completed" /\ s2 = Append(s, "completed")
      <4>1. Durable!Succeed(r)
        BY <3>1, <3>3, <3>11 DEF Durable!Succeed, Durable!Open
      <4>. QED  BY <4>1 DEF Durable!Next
    <3>12. CASE p \in {"open", "cancelling"} /\ p2 = "failed" /\ s2 = s
      <4>1. Durable!GiveUp(r)
        BY <3>1, <3>3, <3>6, <3>12 DEF Durable!GiveUp, Durable!Open
      <4>. QED  BY <4>1 DEF Durable!Next
    <3>13. CASE p \in {"completed", "failed"} /\ p2 = "deleted" /\ s2 = <<>>
      <4>1. Durable!Delete(r)
        BY <3>1, <3>3, <3>13 DEF Durable!Delete
      <4>. QED  BY <4>1 DEF Durable!Next
    <3>14. ASSUME NEW f \in Failure, s2 = Append(s, f),
                  \/ p \in {"open", "cancelling"} /\ p2 = p /\ Len(s) + 1 < LimitOf(r)
                  \/ p \in {"open", "cancelling"} /\ p2 = "failed" /\ Len(s) + 1 = LimitOf(r)
                  \/ p = "failed" /\ p2 = p /\ Len(s) + 1 = LimitOf(r)
           PROVE  Durable!Next
      <4>1. f \in Durable!Failure /\ [q \in Runs |-> LimitOf(q)][r] = LimitOf(r)
        BY DEF Failure, Durable!Failure
      <4>2. CASE p \in {"open", "cancelling"} /\ p2 = p /\ Len(s) + 1 < LimitOf(r)
        <5>1. Durable!Retry(r, f)
          BY <3>1, <3>3, <3>7, <3>14, <4>1, <4>2 DEF Durable!Retry, Durable!Open
        <5>. QED  BY <4>1, <5>1 DEF Durable!Next
      <4>3. CASE p \in {"open", "cancelling"} /\ p2 = "failed" /\ Len(s) + 1 = LimitOf(r)
        <5>1. Durable!Exhaust(r, f)
          BY <3>1, <3>3, <3>14, <4>1, <4>3 DEF Durable!Exhaust, Durable!Open
        <5>. QED  BY <4>1, <5>1 DEF Durable!Next
      <4>4. CASE p = "failed" /\ p2 = p /\ Len(s) + 1 = LimitOf(r)
        <5>1. Durable!ReportLate(r, f)
          BY <3>1, <3>3, <3>7, <3>14, <4>1, <4>4 DEF Durable!ReportLate
        <5>. QED  BY <4>1, <5>1 DEF Durable!Next
      <4>. QED  BY <3>14, <4>2, <4>3, <4>4
    <3>. QED  BY <3>5, <3>8, <3>9, <3>10, <3>11, <3>12, <3>13, <3>14 DEF Advances
  <2>. QED  BY <2>1, <2>2, <2>3 DEF Shown
<1>. QED  BY <1>1, <1>4, TaskInvariant, PTL DEF Spec, ImplementsDurableTask, Durable!Spec
=============================================================================
