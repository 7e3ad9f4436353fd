--------------------------- MODULE SidecarProofs ---------------------------
(***************************************************************************)
(* Theorems about Sidecar, for any jobs and any number of run objects.     *)
(***************************************************************************)
EXTENDS Sidecar, FiniteSetTheorems, TLAPS

\* Where the worker thread has a worker process.
Attempting == {"spawned", "waiting", "terminating", "overdue"}

\* The steps of the worker thread that stay within one run.
Within ==
    \/ SkipCompleted \/ RaiseEarly \/ BeginAttempt \/ StartFails
    \/ Await \/ Expire \/ RaiseTimeout

\* No run object waits twice, and the one that runs no longer waits.
Unrepeated ==
    /\ \A i, k \in DOMAIN queue : queue[i] = queue[k] => i = k
    /\ ~Queued(current)

(***************************************************************************)
(* The types of the variables, and what the length of the queue rests on:  *)
(* each run object waits once.                                             *)
(***************************************************************************)
QueueInv ==
    /\ registry \in [Jobs -> Handles \cup {NoHandle}]
    /\ handle \in [Handles -> Handle]
    /\ queue \in Seq(Handles)
    /\ current \in Handles \cup {NoHandle}
    /\ phase \in {"idle", "claimed", "ended"} \cup Attempting
    /\ phase = "idle" <=> current = NoHandle
    /\ status \in [Jobs -> Status]
    /\ open \in BOOLEAN
    /\ doomed \subseteq Handles
    /\ \A h \in Handles : Live(h) => handle[h].job \in Jobs
    /\ Unrepeated

(***************************************************************************)
(* LiveRunsRegistered is not inductive: Release takes the entry of the     *)
(* job out, and only because a run object is not live twice is there no    *)
(* other run left that the entry should have kept.                         *)
(***************************************************************************)
RegistryInv == QueueInv /\ LiveRunsRegistered

-----------------------------------------------------------------------------
\* The elements of the queue after an Append and after a Tail.
LEMMA AppendQueued ==
    ASSUME NEW q \in Seq(Handles), NEW h \in Handles
    PROVE  ToSet(Append(q, h)) = ToSet(q) \cup {h}
<1>1. /\ DOMAIN q = 1..Len(q) /\ Len(q) \in Nat
      /\ DOMAIN Append(q, h) = 1..(Len(q) + 1)
      /\ Append(q, h)[Len(q) + 1] = h
      /\ \A i \in 1..Len(q) : Append(q, h)[i] = q[i]
  OBVIOUS
<1>2. ASSUME NEW x \in ToSet(Append(q, h)) PROVE x \in ToSet(q) \cup {h}
  <2>1. PICK i \in 1..(Len(q) + 1) : x = Append(q, h)[i]
    BY <1>1 DEF ToSet
  <2>2. CASE i \in 1..Len(q)
    BY <1>1, <2>1, <2>2 DEF ToSet
  <2>3. CASE i = Len(q) + 1
    BY <1>1, <2>1, <2>3
  <2>4. QED
    BY <1>1, <2>1, <2>2, <2>3
<1>3. ASSUME NEW x \in ToSet(q) PROVE x \in ToSet(Append(q, h))
  <2>1. PICK i \in 1..Len(q) : x = q[i]
    BY <1>1 DEF ToSet
  <2>2. i \in 1..(Len(q) + 1) /\ Append(q, h)[i] = x
    BY <1>1, <2>1
  <2>3. QED
    BY <1>1, <2>2 DEF ToSet
<1>4. h \in ToSet(Append(q, h))
  BY <1>1 DEF ToSet
<1>5. QED
  BY <1>2, <1>3, <1>4

\* What is left of the queue was in the queue.
LEMMA TailQueued ==
    ASSUME NEW q \in Seq(Handles), q # <<>>,
           \A i, k \in DOMAIN q : q[i] = q[k] => i = k
    PROVE  /\ Tail(q) \in Seq(Handles)
           /\ Head(q) \in ToSet(q)
           /\ ToSet(Tail(q)) \subseteq ToSet(q) \ {Head(q)}
           /\ \A i, k \in DOMAIN Tail(q) : Tail(q)[i] = Tail(q)[k] => i = k
<1>1. /\ Tail(q) \in Seq(Handles) /\ Len(q) > 0
      /\ Len(Tail(q)) = Len(q) - 1
      /\ Head(q) = q[1] /\ DOMAIN q = 1..Len(q)
      /\ \A i \in 1..Len(Tail(q)) : Tail(q)[i] = q[i + 1]
  OBVIOUS
<1>2. DOMAIN Tail(q) = 1..(Len(q) - 1)
  BY <1>1
<1>3. \A i \in DOMAIN Tail(q) : i + 1 \in DOMAIN q /\ i + 1 # 1 /\ Tail(q)[i] = q[i + 1]
  BY <1>1, <1>2
<1>4. ToSet(Tail(q)) \subseteq ToSet(q) \ {Head(q)}
  BY <1>1, <1>3 DEF ToSet
<1>5. \A i, k \in DOMAIN Tail(q) : Tail(q)[i] = Tail(q)[k] => i = k
  BY <1>1, <1>2, <1>3
<1>6. Head(q) \in ToSet(q)
  BY <1>1 DEF ToSet
<1>7. QED
  BY <1>1, <1>4, <1>5, <1>6

\* A new run object.
LEMMA SubmitQueues ==
    ASSUME QueueInv, NEW j \in Jobs, NEW h \in Handles, NEW forced \in BOOLEAN,
           Submit(h, j, forced)
    PROVE  /\ QueueInv'
           /\ \A g \in Handles : Live(g)' => g = h \/ Live(g)
           /\ ~Queued(h) /\ current # h
           /\ DOMAIN queue' = 1..(Len(queue) + 1)
           /\ queue'[Len(queue) + 1] = h
           /\ \A n \in 1..Len(queue) : queue'[n] = queue[n]
<1> USE DEF Submit, QueueInv
<1>1. ToSet(queue') = ToSet(queue) \cup {h}
  BY AppendQueued
<1>2. ~Queued(h) /\ current # h
  BY DEF Free, Live
<1>3. /\ registry' \in [Jobs -> Handles \cup {NoHandle}]
      /\ handle' \in [Handles -> Handle]
      /\ queue' \in Seq(Handles)
      /\ current' \in Handles \cup {NoHandle}
  BY DEF Handle
<1>4. \A g \in Handles : Live(g)' => g = h \/ Live(g)
  BY <1>1 DEF Live, Queued
<1>5. \A g \in Handles : Live(g)' => handle'[g].job \in Jobs
  BY <1>4
<1>6. ~Queued(current)'
  BY <1>1, <1>2, NullsAssumption DEF Unrepeated, Queued
<1>7. /\ DOMAIN queue = 1..Len(queue) /\ Len(queue) \in Nat
      /\ DOMAIN queue' = 1..(Len(queue) + 1)
      /\ queue'[Len(queue) + 1] = h
      /\ \A n \in DOMAIN queue : queue'[n] = queue[n] /\ queue[n] # h
  BY <1>2 DEF Queued, ToSet
<1>8. ASSUME NEW i \in DOMAIN queue', NEW k \in DOMAIN queue', queue'[i] = queue'[k]
      PROVE  i = k
  <2>1. i \in DOMAIN queue \/ i = Len(queue) + 1
    BY <1>7
  <2>2. k \in DOMAIN queue \/ k = Len(queue) + 1
    BY <1>7
  <2>3. QED
    BY <1>7, <1>8, <2>1, <2>2 DEF Unrepeated
<1>9. QED
  BY <1>2, <1>3, <1>4, <1>5, <1>6, <1>7, <1>8 DEF Unrepeated

\* The worker takes the oldest run, or drops it.
LEMMA TakeQueues ==
    ASSUME QueueInv, NEW taken, taken = Head(queue) \/ taken = NoHandle, Take(taken),
           phase' = IF taken = NoHandle THEN "idle" ELSE "claimed",
           status' \in [Jobs -> Status]
    PROVE  /\ QueueInv'
           /\ Head(queue) \in Handles /\ Queued(Head(queue)) /\ current = NoHandle
           /\ ToSet(queue') \subseteq ToSet(queue) \ {Head(queue)}
           /\ \A g \in Handles : Live(g)' => Live(g)
<1> USE DEF Take, QueueInv
<1>1. /\ queue' \in Seq(Handles)
      /\ Head(queue) \in ToSet(queue)
      /\ ToSet(queue') \subseteq ToSet(queue) \ {Head(queue)}
      /\ \A i, k \in DOMAIN queue' : queue'[i] = queue'[k] => i = k
  BY TailQueued DEF Unrepeated
<1>2. Head(queue) \in Handles
  OBVIOUS
<1>3. ToSet(queue') \subseteq Handles
  BY <1>1 DEF ToSet
<1>4. \A g \in Handles : Live(g)' => Live(g)
  BY <1>1, NullsAssumption DEF Live, Queued
<1>5. ~Queued(current)'
  BY <1>1, <1>3, NullsAssumption DEF Queued
<1>6. phase' = "idle" <=> current' = NoHandle
  BY <1>2, NullsAssumption
<1>7. QED
  BY <1>1, <1>2, <1>4, <1>5, <1>6 DEF Unrepeated, Queued

\* What leaves the registry, the queue, the run and the jobs of the run
\* objects alone.
LEMMA QuietQueues ==
    ASSUME QueueInv, UNCHANGED <<registry, queue, current, open>>,
           phase' \in {"idle", "claimed", "ended"} \cup Attempting,
           phase' = "idle" <=> phase = "idle",
           handle' \in [Handles -> Handle],
           \A h \in Handles : handle'[h].job = handle[h].job,
           status' \in [Jobs -> Status], doomed' \subseteq Handles
    PROVE  QueueInv' /\ \A h \in Handles : Live(h)' <=> Live(h)
  BY DEF QueueInv, Unrepeated, Live, Queued

\* cancel_job sets one flag.
LEMMA CancelQueues ==
    ASSUME QueueInv, NEW j \in Jobs, Cancel(j)
    PROVE  /\ QueueInv'
           /\ \A h \in Handles : Live(h)' <=> Live(h)
           /\ \A h \in Handles : handle'[h].job = handle[h].job
           /\ \A h \in Handles : handle'[h].cancel <=> handle[h].cancel \/ h = registry[j]
<1>1. registry[j] \in Handles
  BY DEF Cancel, QueueInv
<1>2. /\ handle' \in [Handles -> Handle]
      /\ \A h \in Handles : handle'[h].job = handle[h].job
      /\ \A h \in Handles : handle'[h].cancel <=> handle[h].cancel \/ h = registry[j]
  BY <1>1 DEF Cancel, QueueInv, Handle
<1>3. doomed' \subseteq Handles
  BY <1>1 DEF Cancel, QueueInv
<1>4. UNCHANGED <<registry, queue, current, phase, status, open>>
  BY DEF Cancel
<1>5. QED
  BY <1>2, <1>3, <1>4, QuietQueues DEF QueueInv

\* The worker thread moves on within its run.
LEMMA MovesQueues ==
    ASSUME QueueInv, NEW from, NEW to, NEW saved, Moves(from, to, saved),
           from # "idle", to \in {"claimed", "ended"} \cup Attempting,
           saved \in Status \/ \E j \in Jobs : saved = status[j]
    PROVE  QueueInv'
<1>1. status' \in [Jobs -> Status]
  BY DEF Moves, QueueInv
<1>2. UNCHANGED <<registry, handle, queue, current, open, doomed>> /\ phase = from /\ phase' = to
  BY DEF Moves
<1>3. QED
  BY <1>1, <1>2, QuietQueues DEF QueueInv, Attempting

\* The thread is done with its run.
LEMMA ReleaseQueues ==
    ASSUME QueueInv, Release
    PROVE  /\ QueueInv'
           /\ current \in Handles /\ Live(current) /\ handle[current].job \in Jobs
           /\ \A h \in Handles : Live(h)' => Live(h) /\ h # current
<1> USE DEF Release, QueueInv
<1>1. current \in Handles /\ Live(current) /\ handle[current].job \in Jobs
  BY DEF Live
<1>2. \A h \in Handles : Live(h)' => Live(h) /\ h # current
  BY NullsAssumption DEF Live, Queued, Unrepeated
<1>3. ToSet(queue) \subseteq Handles
  BY DEF ToSet
<1>4. Unrepeated'
  BY <1>3, NullsAssumption DEF Unrepeated, Queued
<1>5. QED
  BY <1>1, <1>2, <1>4

\* The queue is dropped, or the process is.
LEMMA EmptyQueues ==
    ASSUME QueueInv, Close \/ Restart
    PROVE  /\ QueueInv'
           /\ DOMAIN queue' = {}
           /\ \A h \in Handles : ~Queued(h)' /\ (Live(h)' => Live(h))
<1>0. queue' = <<>>
  BY DEF Close, Restart
<1>1. ToSet(queue') = {} /\ DOMAIN queue' = {} /\ queue' \in Seq(Handles)
  BY <1>0 DEF ToSet
<1>2. \A h \in Handles : ~Queued(h)' /\ (Live(h)' => Live(h))
  BY <1>1, NullsAssumption DEF Close, Restart, Live, Queued
<1>3. Unrepeated'
  BY <1>1 DEF Unrepeated, Queued
<1>4. CASE Close
  BY <1>1, <1>2, <1>3, <1>4 DEF Close, QueueInv
<1>5. CASE Restart
  <2>1. handle' \in [Handles -> Handle] /\ status' \in [Jobs -> Status]
    BY <1>5 DEF Restart, QueueInv, Handle, NotCreated, Status
  <2>2. \A h \in Handles : ~Live(h)'
    BY <1>2, <1>5, NullsAssumption DEF Restart, Live
  <2>3. /\ registry' \in [Jobs -> Handles \cup {NoHandle}]
        /\ current' = NoHandle /\ phase' = "idle" /\ open' = TRUE /\ doomed' = {}
    BY <1>5 DEF Restart
  <2>4. QED
    BY <1>1, <1>2, <1>3, <2>1, <2>2, <2>3 DEF QueueInv
<1>6. QED
  BY <1>1, <1>2, <1>4, <1>5

-----------------------------------------------------------------------------
\* A sidecar that has just started has nothing queued or under way.
LEMMA QueueInit == Init => QueueInv /\ \A h \in Handles : ~Live(h)
<1> SUFFICES ASSUME Init PROVE QueueInv /\ \A h \in Handles : ~Live(h)
  OBVIOUS
<1>1. ToSet(queue) = {} /\ DOMAIN queue = {} /\ queue \in Seq(Handles)
  BY DEF Init, ToSet
<1>2. \A h \in Handles : ~Live(h)
  BY <1>1, NullsAssumption DEF Init, Live, Queued
<1>3. QED
  BY <1>1, <1>2 DEF Init, QueueInv, Unrepeated, Queued, Handle, NotCreated

\* The steps of the worker thread that stay within one run.
LEMMA WithinQueues ==
    ASSUME QueueInv, Within
    PROVE  QueueInv'
<1>1. \A s \in {"running", "completed", "failed", "cancelled"} : s \in Status
  BY DEF Status
<1>2. CASE RaiseEarly
  <2>1. handle[current].job \in Jobs
    BY <1>2 DEF RaiseEarly, QueueInv, Live
  <2>2. QED
    BY <1>2, <2>1, MovesQueues DEF RaiseEarly
<1>3. CASE SkipCompleted \/ BeginAttempt \/ StartFails
  BY <1>1, <1>3, MovesQueues DEF SkipCompleted, BeginAttempt, StartFails, Attempting
<1>4. CASE Await
  BY <1>1, <1>4, MovesQueues
  DEF Await, Wait, StillRunning, Complete, Fail, Terminate, Terminated, StillHeld, Attempting
<1>5. CASE Expire \/ RaiseTimeout
  BY <1>1, <1>5, MovesQueues DEF Expire, RaiseTimeout, Attempting
<1>6. QED
  BY <1>2, <1>3, <1>4, <1>5 DEF Within

\* The two ways the worker thread leaves its idle place.
LEMMA TakingQueues ==
    ASSUME QueueInv, Claim \/ DropCancelled
    PROVE  /\ QueueInv'
           /\ Head(queue) \in Handles /\ Queued(Head(queue)) /\ current = NoHandle
           /\ ToSet(queue') \subseteq ToSet(queue) \ {Head(queue)}
           /\ \A g \in Handles : Live(g)' => Live(g)
<1>1. CASE Claim
  <2>1. Head(queue) \in Handles /\ status' \in [Jobs -> Status]
    BY <1>1 DEF Claim, QueueInv
  <2>2. QED
    BY <1>1, <2>1, TakeQueues, NullsAssumption DEF Claim
<1>2. CASE DropCancelled
  <2>1. status' \in [Jobs -> Status] /\ phase' = "idle"
    BY <1>2 DEF DropCancelled, Take, QueueInv, Status
  <2>2. QED
    BY <1>2, <2>1, TakeQueues DEF DropCancelled
<1>3. QED
  BY <1>1, <1>2

\* Every step keeps QueueInv, whatever the clients do.
LEMMA QueueStep == QueueInv /\ [Next]_vars => QueueInv'
<1> SUFFICES ASSUME QueueInv, [Next]_vars PROVE QueueInv'
  OBVIOUS
<1>1. ASSUME NEW j \in Jobs, NEW h \in Handles,
             (\E forced \in BOOLEAN : Start(j, h, forced)) \/ Retry(j, h)
      PROVE  QueueInv'
  BY <1>1, SubmitQueues DEF Start, Retry
<1>2. CASE UNCHANGED vars
  BY <1>2, QuietQueues DEF vars, QueueInv
<1>3. QED
  BY <1>1, <1>2, CancelQueues, WithinQueues, TakingQueues, ReleaseQueues, EmptyQueues
  DEF Next, Worker, Within

(***************************************************************************)
(* The sidecar's state keeps its types whatever its clients ask, and the   *)
(* executor's queue never holds more runs than there are run objects.      *)
(***************************************************************************)
THEOREM TypesCorrect ==
    ASSUME IsFiniteSet(Handles)
    PROVE  Spec => []TypeOK
<1>1. ASSUME QueueInv PROVE TypeOK
  <2>1. queue \in Seq(Handles) /\ DOMAIN queue = 1..Len(queue) /\ Len(queue) \in Nat
    BY <1>1 DEF QueueInv
  <2>2. queue \in [1..Len(queue) -> Handles]
    BY <2>1
  <2>3. queue \in Injection(1..Len(queue), Handles)
    BY <1>1, <2>1, <2>2 DEF QueueInv, Unrepeated, Injection, IsInjective
  <2>4. Cardinality(1..Len(queue)) <= Cardinality(Handles)
    BY <2>3, FS_Injection
  <2>5. Cardinality(1..Len(queue)) = Len(queue)
    BY <2>1, FS_Interval
  <2>6. QED
    BY <1>1, <2>4, <2>5 DEF QueueInv, TypeOK, Attempting
<1>2. QED
  BY QueueInit, QueueStep, <1>1, PTL DEF Spec

-----------------------------------------------------------------------------
(***************************************************************************)
(* A sidecar that has just started has no run registered, queued or under  *)
(* way.                                                                    *)
(***************************************************************************)
THEOREM RegistryInit == Init => RegistryInv
  BY QueueInit DEF RegistryInv, LiveRunsRegistered

(***************************************************************************)
(* Every step of a sidecar whose clients do not start a job that is queued *)
(* or running keeps the registry right.                                    *)
(***************************************************************************)
THEOREM RegistryStep ==
    ASSUME ~DuplicateStarts, RegistryInv, [Next]_vars
    PROVE  RegistryInv'
<1>0. QueueInv /\ QueueInv' /\ LiveRunsRegistered
  BY QueueStep DEF RegistryInv
<1> SUFFICES LiveRunsRegistered'
  BY <1>0 DEF RegistryInv
<1>1. ASSUME NEW j \in Jobs, NEW h \in Handles, NEW forced \in BOOLEAN, Submit(h, j, forced),
             \A g \in Handles : Live(g) => handle[g].job # j
      PROVE  LiveRunsRegistered'
  <2>1. \A g \in Handles : Live(g)' => g = h \/ Live(g)
    BY <1>0, <1>1, SubmitQueues
  <2>2. QED
    BY <1>0, <1>1, <2>1 DEF Submit, QueueInv, LiveRunsRegistered
<1>2. ASSUME NEW j \in Jobs, NEW h \in Handles, NEW forced \in BOOLEAN, Start(j, h, forced)
      PROVE  LiveRunsRegistered'
  BY <1>1, <1>2 DEF Start
<1>3. ASSUME NEW j \in Jobs, NEW h \in Handles, Retry(j, h)
      PROVE  LiveRunsRegistered'
  <2>1. \A g \in Handles : Live(g) => handle[g].job # j
    BY <1>0, <1>3, NullsAssumption DEF Retry, LiveRunsRegistered
  <2>2. QED
    BY <1>1, <1>3, <2>1 DEF Retry
<1>4. ASSUME NEW j \in Jobs, Cancel(j)
      PROVE  LiveRunsRegistered'
  BY <1>0, <1>4, CancelQueues DEF Cancel, LiveRunsRegistered
<1>5. CASE Close
  BY <1>0, <1>5, EmptyQueues DEF Close, LiveRunsRegistered
<1>6. CASE Claim \/ DropCancelled
  <2>1. UNCHANGED <<registry, handle>>
    BY <1>6 DEF Claim, DropCancelled, Take
  <2>2. QED
    BY <1>0, <1>6, <2>1, TakingQueues DEF LiveRunsRegistered
<1>7. CASE Within \/ UNCHANGED vars
  <2>1. UNCHANGED <<registry, handle, queue, current>>
    BY <1>7
    DEF Within, SkipCompleted, RaiseEarly, BeginAttempt, StartFails, Terminate, Terminated,
        StillHeld, Await, Wait, StillRunning, Complete, Fail, Expire, RaiseTimeout, Moves, vars
  <2>2. QED
    BY <1>0, <2>1 DEF LiveRunsRegistered, Live, Queued
<1>8. CASE Release
  <2>1. /\ current \in Handles /\ Live(current)
        /\ \A h \in Handles : Live(h)' => Live(h) /\ h # current
    BY <1>0, <1>8, ReleaseQueues
  <2>2. \A h \in Handles : Live(h)' => handle[h].job # handle[current].job
    BY <1>0, <2>1 DEF LiveRunsRegistered
  <2>3. QED
    BY <1>0, <1>8, <2>1, <2>2 DEF Release, QueueInv, LiveRunsRegistered
<1>9. CASE Restart
  <2>1. \A h \in Handles : ~Live(h)'
    BY <1>0, <1>9, EmptyQueues, NullsAssumption DEF Restart, Live
  <2>2. QED
    BY <2>1 DEF LiveRunsRegistered
<1>10. QED
  BY <1>2, <1>3, <1>4, <1>5, <1>6, <1>7, <1>8, <1>9 DEF Next, Worker, Within

(***************************************************************************)
(* As long as no client starts a job that is queued or running, each run   *)
(* that is queued or under way is the one registered for its job:          *)
(* cancel_job reaches it, and no job has two (_start, _retry, _run_job).   *)
(***************************************************************************)
THEOREM RunsReachable ==
    ASSUME ~DuplicateStarts
    PROVE  Spec => []LiveRunsRegistered
<1>1. RegistryInv /\ [Next]_vars => RegistryInv'
  BY RegistryStep
<1>2. RegistryInv => LiveRunsRegistered
  BY DEF RegistryInv
<1>3. QED
  BY RegistryInit, <1>1, <1>2, PTL DEF Spec

-----------------------------------------------------------------------------
(***************************************************************************)
(* Why a run that was cancelled in time does not complete: its event is    *)
(* set, it stays set while the run object is in use, and the worker thread *)
(* looks at it before every wait.  This holds whatever the clients do.     *)
(***************************************************************************)
CancelInv ==
    /\ registry \in [Jobs -> Handles \cup {NoHandle}]
    /\ handle \in [Handles -> Handle]
    /\ queue \in Seq(Handles)
    /\ status \in [Jobs -> Status]
    /\ doomed \subseteq Handles
    /\ \A h \in doomed : handle[h].cancel
    /\ phase = "waiting" => current \notin doomed

\* The invariant holds at the start.
LEMMA CancelInit == Init => CancelInv
<1> SUFFICES ASSUME Init PROVE CancelInv
  OBVIOUS
<1>1. QED
  BY DEF Init, CancelInv, Handle, NotCreated, Status

\* Moving the current run on keeps the invariant, unless it waits against a cancel.
LEMMA MovesCancel ==
    ASSUME CancelInv, NEW from, NEW to, NEW saved \in Status, Moves(from, to, saved),
           to = "waiting" => ~handle[current].cancel,
           to \in {"ended"} \cup Attempting
    PROVE  CancelInv'
  BY DEF CancelInv, Moves

\* Every step keeps CancelInv, whether or not clients start jobs twice.
LEMMA CancelStep ==
    ASSUME CancelInv, [Next]_vars
    PROVE  CancelInv'
<1> USE DEF CancelInv
<1>1. ASSUME NEW j \in Jobs, NEW h \in Handles, NEW forced \in BOOLEAN, Submit(h, j, forced)
      PROVE  CancelInv'
  <2> USE <1>1 DEF Submit
  <2>1. handle' \in [Handles -> Handle] /\ \A g \in doomed' : handle'[g].cancel
    BY DEF Handle
  <2>2. QED
    BY <2>1
<1>2. ASSUME NEW j \in Jobs, Cancel(j)
      PROVE  CancelInv'
  <2>1. registry[j] \in Handles
    BY <1>2 DEF Cancel
  <2>2. /\ handle' \in [Handles -> Handle]
        /\ \A h \in Handles : handle'[h].cancel <=> handle[h].cancel \/ h = registry[j]
    BY <1>2, <2>1 DEF Cancel, Handle
  <2>3. doomed' \subseteq doomed \cup {registry[j]}
    BY <1>2 DEF Cancel
  <2>4. \A h \in doomed' : handle'[h].cancel
    BY <2>1, <2>2, <2>3
  <2>5. phase' = "waiting" => current' \notin doomed'
    BY <1>2 DEF Cancel
  <2>6. QED
    BY <1>2, <2>1, <2>2, <2>3, <2>4, <2>5 DEF Cancel
<1>3. CASE Close
  BY <1>3 DEF Close
<1>4. CASE Claim
  BY <1>4 DEF Claim, Take
<1>5. CASE DropCancelled
  <2>1. queue' \in Seq(Handles)
    BY <1>5 DEF DropCancelled, Take
  <2>2. status' \in [Jobs -> Status]
    BY <1>5 DEF DropCancelled, Status
  <2>3. QED
    BY <1>5, <2>1, <2>2 DEF DropCancelled, Take
<1>6. CASE SkipCompleted \/ BeginAttempt \/ StartFails \/ Await \/ Expire \/ RaiseTimeout
  <2>1. \A saved \in {"running", "completed", "failed", "cancelled"} : saved \in Status
    BY DEF Status
  <2>2. CASE SkipCompleted \/ BeginAttempt \/ StartFails
    BY <2>1, <2>2, MovesCancel DEF SkipCompleted, BeginAttempt, StartFails, Attempting
  <2>3. CASE Await
    BY <2>1, <2>3, MovesCancel
    DEF Await, Wait, StillRunning, Complete, Fail, Terminate, Terminated, StillHeld, Attempting
  <2>4. CASE Expire \/ RaiseTimeout
    BY <2>1, <2>4, MovesCancel DEF Expire, RaiseTimeout, Attempting
  <2>5. QED
    BY <1>6, <2>2, <2>3, <2>4
<1>7. CASE RaiseEarly
  BY <1>7 DEF RaiseEarly, Moves
<1>8. CASE Release
  BY <1>8 DEF Release
<1>9. CASE Restart
  BY <1>9 DEF Restart, Handle, NotCreated, Status
<1>10. CASE UNCHANGED vars
  BY <1>10 DEF vars
<1>11. QED
  BY <1>1, <1>2, <1>3, <1>4, <1>5, <1>6, <1>7, <1>8, <1>9, <1>10
  DEF Next, Worker, Within, Start, Retry

(***************************************************************************)
(* A run whose cancellation was accepted before its worker was waited for  *)
(* never completes (_cancel, _run_job, _communicate).                      *)
(***************************************************************************)
THEOREM CancelAlwaysHonoured == Spec => CancelHonoured
<1>1. ASSUME CancelInv, [Next]_vars, NEW j \in Jobs,
             status[j] # "completed", status'[j] = "completed"
      PROVE  current \notin doomed
  <2> USE <1>1 DEF CancelInv
  <2>1. CASE Complete
    BY <2>1 DEF Complete, Moves
  <2>2. ASSUME NEW from, NEW to, NEW saved, Moves(from, to, saved), saved # "completed"
        PROVE  FALSE
    BY <2>2 DEF Moves
  <2>3. CASE BeginAttempt \/ StartFails \/ Wait \/ StillRunning \/ Fail \/ Terminate
             \/ Terminated \/ StillHeld \/ Expire \/ RaiseTimeout
    BY <2>2, <2>3
    DEF BeginAttempt, StartFails, Wait, StillRunning, Fail, Terminate, Terminated, StillHeld,
        Expire, RaiseTimeout
  <2>4. CASE SkipCompleted \/ RaiseEarly
    BY <2>4 DEF SkipCompleted, RaiseEarly, Moves
  <2>5. CASE DropCancelled
    BY <2>5 DEF DropCancelled, Take
  <2>6. CASE Restart
    BY <2>6 DEF Restart
  <2>7. CASE Claim \/ Release \/ Close \/ UNCHANGED vars
    BY <2>7 DEF Claim, Release, Close, vars
  <2>8. ASSUME NEW k \in Jobs, Cancel(k)
        PROVE  FALSE
    BY <2>8 DEF Cancel
  <2>9. ASSUME NEW k \in Jobs, NEW h \in Handles, NEW forced \in BOOLEAN, Submit(h, k, forced)
        PROVE  FALSE
    BY <2>9 DEF Submit
  <2>10. QED
    BY <1>1, <2>1, <2>3, <2>4, <2>5, <2>6, <2>7, <2>8, <2>9
    DEF Next, Worker, Await, Start, Retry
<1>2. CancelInv /\ [Next]_vars
        => [\A j \in Jobs : status[j] # "completed" /\ status'[j] = "completed"
              => current \notin doomed]_vars
  BY <1>1
<1>3. CancelInv /\ [Next]_vars => CancelInv'
  BY CancelStep
<1>4. QED
  BY CancelInit, <1>2, <1>3, PTL DEF Spec, CancelHonoured

-----------------------------------------------------------------------------
(***************************************************************************)
(* OnlyDroppedRunsLinger, even when clients start a job twice.  It rests   *)
(* on the order of the queue: of several runs of a job the registered one  *)
(* was submitted last, so no other is left when it is dropped.             *)
(***************************************************************************)
EntryInv ==
    /\ \A j \in Jobs : registry[j] # NoHandle => handle[registry[j]].job = j
    /\ \A i, k \in DOMAIN queue : i < k => registry[handle[queue[k]].job] # queue[i]
    /\ current # NoHandle =>
         \A k \in DOMAIN queue : registry[handle[queue[k]].job] # current

LingerInv ==
    /\ QueueInv
    /\ EntryInv
    /\ \A j \in Jobs : status[j] = "running" =>
         phase \in Attempting /\ handle[current].job = j
    /\ \A h \in Handles : Queued(h) /\ handle[h].cancel => h \in doomed
    /\ open => \A j \in Jobs :
         registry[j] # NoHandle /\ ~Live(registry[j])
           => /\ registry[j] \in doomed
              /\ \A g \in Handles : Live(g) => handle[g].job # j

\* The runs in the queue have jobs.
LEMMA QueuedJobs ==
    ASSUME QueueInv, NEW k \in DOMAIN queue
    PROVE  queue[k] \in Handles /\ Queued(queue[k]) /\ handle[queue[k]].job \in Jobs
<1>1. queue[k] \in Handles /\ Queued(queue[k])
  BY DEF QueueInv, Queued, ToSet
<1>2. QED
  BY <1>1 DEF QueueInv, Live

\* A new run is the last of its job.
LEMMA SubmitLingers ==
    ASSUME LingerInv, NEW j \in Jobs, NEW h \in Handles, NEW forced \in BOOLEAN,
           Submit(h, j, forced)
    PROVE  LingerInv'
<1>0. QueueInv /\ EntryInv
  BY DEF LingerInv
<1>1. /\ QueueInv'
      /\ \A g \in Handles : Live(g)' => g = h \/ Live(g)
      /\ ~Queued(h) /\ current # h
      /\ DOMAIN queue' = 1..(Len(queue) + 1)
      /\ queue'[Len(queue) + 1] = h
      /\ \A n \in 1..Len(queue) : queue'[n] = queue[n]
  BY <1>0, SubmitQueues
<1>2. /\ DOMAIN queue = 1..Len(queue) /\ Len(queue) \in Nat
      /\ \A n \in DOMAIN queue : queue[n] \in Handles /\ queue[n] # h
                                   /\ handle[queue[n]].job \in Jobs
  BY <1>0, <1>1, QueuedJobs DEF QueueInv
<1>3. /\ registry' = [registry EXCEPT ![j] = h] /\ registry \in [Jobs -> Handles \cup {NoHandle}]
      /\ handle' = [handle EXCEPT ![h] = [job |-> j, force |-> forced, cancel |-> FALSE]]
      /\ handle \in [Handles -> Handle]
      /\ doomed' = doomed \ {h} /\ UNCHANGED <<current, phase, status, open>> /\ open
      /\ \A k \in Jobs : registry[k] # h
  BY <1>0 DEF Submit, Free, QueueInv
<1>4. /\ registry'[j] = h /\ \A k \in Jobs \ {j} : registry'[k] = registry[k]
      /\ handle'[h].job = j /\ ~handle'[h].cancel
      /\ \A g \in Handles \ {h} : handle'[g] = handle[g]
  BY <1>3
<1>5. EntryInv'
  <2>1. \A k \in Jobs : registry'[k] # NoHandle => handle'[registry'[k]].job = k
    BY <1>0, <1>3, <1>4 DEF EntryInv
  <2>2. ASSUME NEW n \in DOMAIN queue', NEW g \in Handles, g # h,
               n \in DOMAIN queue => registry[handle[queue[n]].job] # g
        PROVE  registry'[handle'[queue'[n]].job] # g
    <3>1. CASE n = Len(queue) + 1
      BY <1>1, <1>4, <2>2, <3>1
    <3>2. CASE n \in DOMAIN queue
      BY <1>1, <1>2, <1>4, <2>2, <3>2
    <3>3. QED
      BY <1>1, <1>2, <3>1, <3>2
  <2>3. ASSUME NEW i \in DOMAIN queue', NEW k \in DOMAIN queue', i < k
        PROVE  registry'[handle'[queue'[k]].job] # queue'[i]
    <3>1. i \in DOMAIN queue /\ queue'[i] = queue[i] /\ queue[i] \in Handles /\ queue[i] # h
      BY <1>1, <1>2, <2>3
    <3>2. k \in DOMAIN queue => registry[handle[queue[k]].job] # queue[i]
      BY <1>0, <2>3, <3>1 DEF EntryInv
    <3>3. QED
      BY <2>2, <3>1, <3>2
  <2>4. ASSUME current' # NoHandle, NEW k \in DOMAIN queue'
        PROVE  registry'[handle'[queue'[k]].job] # current'
    <3>1. current' = current /\ current \in Handles /\ current # h
      BY <1>0, <1>1, <1>3, <2>4 DEF QueueInv
    <3>2. k \in DOMAIN queue => registry[handle[queue[k]].job] # current
      BY <1>0, <2>4, <3>1 DEF EntryInv
    <3>3. QED
      BY <2>2, <3>1, <3>2
  <2>5. QED
    BY <2>1, <2>3, <2>4 DEF EntryInv
<1>6. \A k \in Jobs : status'[k] = "running" =>
        phase' \in Attempting /\ handle'[current'].job = k
  <2>1. phase \in Attempting => current \in Handles
    BY <1>0 DEF QueueInv, Attempting
  <2>2. QED
    BY <1>1, <1>3, <1>4, <2>1 DEF LingerInv
<1>7. \A g \in Handles : Queued(g)' /\ handle'[g].cancel => g \in doomed'
  <2>1. ToSet(queue') = ToSet(queue) \cup {h}
    BY <1>0, AppendQueued DEF Submit, QueueInv
  <2>2. QED
    BY <1>3, <1>4, <2>1 DEF LingerInv, Queued
<1>8. ASSUME NEW k \in Jobs, registry'[k] # NoHandle, ~Live(registry[k])'
      PROVE  registry'[k] \in doomed' /\ \A g \in Handles : Live(g)' => handle'[g].job # k
  <2>1. ToSet(queue') = ToSet(queue) \cup {h}
    BY <1>0, AppendQueued DEF Submit, QueueInv
  <2>2. k # j
    BY <1>4, <1>8, <2>1 DEF Live, Queued
  <2>3. registry'[k] = registry[k] /\ registry[k] # h /\ ~Live(registry[k])
    BY <1>3, <1>4, <1>8, <2>1, <2>2 DEF Live, Queued
  <2>4. registry[k] \in doomed /\ \A g \in Handles : Live(g) => handle[g].job # k
    BY <1>3, <1>8, <2>3 DEF LingerInv
  <2>5. QED
    BY <1>1, <1>3, <1>4, <2>2, <2>3, <2>4
<1>9. QED
  BY <1>1, <1>5, <1>6, <1>7, <1>8 DEF LingerInv

\* The worker takes the oldest run, or drops it because it was cancelled.
LEMMA TakingLingers ==
    ASSUME LingerInv, Claim \/ DropCancelled
    PROVE  LingerInv'
<1> DEFINE first == Head(queue)
<1>0. QueueInv /\ EntryInv
  BY DEF LingerInv
<1>1. /\ QueueInv'
      /\ first \in Handles /\ Queued(first) /\ current = NoHandle
      /\ ToSet(queue') \subseteq ToSet(queue) \ {first}
      /\ \A g \in Handles : Live(g)' => Live(g)
  BY <1>0, TakingQueues
<1>2. /\ queue # <<>> /\ queue' = Tail(queue)
      /\ UNCHANGED <<registry, handle, open, doomed>>
      /\ phase = "idle"
      /\ \/ current' = first /\ status' = status /\ phase' = "claimed"
         \/ /\ current' = NoHandle /\ phase' = "idle" /\ handle[first].cancel
            /\ status' = [status EXCEPT ![handle[first].job] = "cancelled"]
  BY DEF Claim, DropCancelled, Take
<1>3. /\ DOMAIN queue = 1..Len(queue) /\ Len(queue) \in Nat /\ Len(queue) > 0
      /\ queue[1] = first
      /\ DOMAIN queue' = 1..(Len(queue) - 1)
      /\ \A n \in 1..(Len(queue) - 1) : queue'[n] = queue[n + 1]
  <2>1. queue \in Seq(Handles)
    BY <1>0 DEF QueueInv
  <2>2. QED
    BY <1>2, <2>1
<1> HIDE DEF first
<1>4. EntryInv'
  <2>1. ASSUME NEW i \in DOMAIN queue', NEW k \in DOMAIN queue', i < k
        PROVE  registry'[handle'[queue'[k]].job] # queue'[i]
    <3>1. /\ i + 1 \in DOMAIN queue /\ k + 1 \in DOMAIN queue /\ i + 1 < k + 1
          /\ queue'[i] = queue[i + 1] /\ queue'[k] = queue[k + 1]
      BY <1>3, <2>1
    <3>2. QED
      BY <1>0, <1>2, <3>1 DEF EntryInv
  <2>2. ASSUME current' # NoHandle, NEW k \in DOMAIN queue'
        PROVE  registry'[handle'[queue'[k]].job] # current'
    <3>1. current' = queue[1]
      BY <1>2, <1>3, <2>2
    <3>2. /\ 1 \in DOMAIN queue /\ k + 1 \in DOMAIN queue /\ 1 < k + 1
          /\ queue'[k] = queue[k + 1]
      BY <1>3, <2>2
    <3>3. QED
      BY <1>0, <1>2, <3>1, <3>2 DEF EntryInv
  <2>3. QED
    BY <1>0, <1>2, <2>1, <2>2 DEF EntryInv
<1>5. \A k \in Jobs : status'[k] # "running"
  <2>1. \A k \in Jobs : status[k] # "running"
    BY <1>2 DEF LingerInv, Attempting
  <2>2. QED
    BY <1>0, <1>2, <2>1 DEF QueueInv
<1>6. \A g \in Handles : Queued(g)' /\ handle'[g].cancel => g \in doomed'
  BY <1>1, <1>2 DEF LingerInv, Queued
<1>7. ASSUME open', NEW k \in Jobs, registry'[k] # NoHandle, ~Live(registry[k])'
      PROVE  registry'[k] \in doomed' /\ \A g \in Handles : Live(g)' => handle'[g].job # k
  <2>1. CASE ~Live(registry[k])
    BY <1>1, <1>2, <1>7, <2>1 DEF LingerInv
  <2>2. CASE Live(registry[k])
    <3>1. registry[k] = first
      <4>1. PICK n \in DOMAIN queue : registry[k] = queue[n]
        BY <1>1, <1>2, <1>7, <2>2 DEF Live, Queued, ToSet
      <4>2. CASE n = 1
        BY <1>3, <4>1, <4>2
      <4>3. CASE n > 1
        <5>1. n - 1 \in DOMAIN queue' /\ queue'[n - 1] = registry[k]
          BY <1>3, <4>1, <4>3
        <5>2. Queued(registry[k])'
          BY <1>2, <5>1 DEF Queued, ToSet
        <5>3. QED
          BY <1>2, <1>7, <5>2 DEF Live
      <4>4. QED
        BY <1>3, <4>2, <4>3
    <3>2. current' = NoHandle /\ handle[first].cancel
      BY <1>2, <1>7, <3>1 DEF Live
    <3>3. first \in doomed
      BY <1>1, <3>2 DEF LingerInv
    <3>4. ASSUME NEW g \in Handles, Live(g)' PROVE handle[g].job # k
      <4>1. Queued(g)'
        BY <1>0, <3>2, <3>4, NullsAssumption DEF Live
      <4>2. PICK n \in DOMAIN queue' : g = queue'[n]
        BY <4>1 DEF Queued, ToSet
      <4>3. /\ 1 \in DOMAIN queue /\ n + 1 \in DOMAIN queue /\ 1 < n + 1
            /\ g = queue[n + 1]
        BY <1>3, <4>2
      <4>4. registry[handle[g].job] # first
        BY <1>0, <1>3, <4>3 DEF EntryInv
      <4>5. QED
        BY <3>1, <4>4
    <3>5. QED
      BY <1>2, <3>1, <3>3, <3>4
  <2>3. QED
    BY <2>1, <2>2
<1>8. QED
  BY <1>1, <1>4, <1>5, <1>6, <1>7 DEF LingerInv

\* The steps within one run: only they say that a job is running.
LEMMA WithinLingers ==
    ASSUME LingerInv, Within
    PROVE  LingerInv'
<1>0. QueueInv /\ QueueInv'
  BY WithinQueues DEF LingerInv
<1>1. UNCHANGED <<registry, handle, queue, current, open, doomed>>
  BY DEF Within, SkipCompleted, RaiseEarly, BeginAttempt, StartFails, Terminate, Terminated,
         StillHeld, Await, Wait, StillRunning, Complete, Fail, Expire, RaiseTimeout, Moves
<1>2. \A h \in Handles : (Live(h)' <=> Live(h)) /\ (Queued(h)' <=> Queued(h))
  BY <1>1 DEF Live, Queued
<1>3. ASSUME NEW from \in {"claimed"} \cup Attempting, NEW to, NEW saved,
             Moves(from, to, saved),
             saved = "running" => to \in Attempting
      PROVE  \A k \in Jobs : status'[k] = "running" =>
               phase' \in Attempting /\ handle'[current'].job = k
  <2>1. handle[current].job \in Jobs
    BY <1>0, <1>3 DEF Moves, QueueInv, Live
  <2>2. \A k \in Jobs : status'[k] = IF k = handle[current].job THEN saved ELSE status[k]
    BY <1>0, <1>3, <2>1 DEF Moves, QueueInv
  <2>3. QED
    BY <1>1, <1>3, <2>2 DEF LingerInv, Moves
<1>4. \A k \in Jobs : status'[k] = "running" =>
        phase' \in Attempting /\ handle'[current'].job = k
  <2>1. CASE RaiseEarly
    <3>1. handle[current].job \in Jobs
      BY <1>0, <2>1 DEF RaiseEarly, QueueInv, Live
    <3>2. status[handle[current].job] # "running"
      BY <2>1, <3>1 DEF RaiseEarly, LingerInv, Attempting
    <3>3. QED
      BY <1>3, <2>1, <3>2 DEF RaiseEarly
  <2>2. CASE SkipCompleted \/ BeginAttempt \/ StartFails
    BY <1>3, <2>2 DEF SkipCompleted, BeginAttempt, StartFails, Attempting
  <2>3. CASE Await
    BY <1>3, <2>3
    DEF Await, Wait, StillRunning, Complete, Fail, Terminate, Terminated, StillHeld, Attempting
  <2>4. CASE Expire \/ RaiseTimeout
    BY <1>3, <2>4 DEF Expire, RaiseTimeout, Attempting
  <2>5. QED
    BY <2>1, <2>2, <2>3, <2>4 DEF Within
<1>5. EntryInv'
  BY <1>1 DEF LingerInv, EntryInv
<1>6. \A j \in Jobs : registry[j] # NoHandle => registry[j] \in Handles
  BY <1>0 DEF QueueInv
<1>7. QED
  BY <1>0, <1>1, <1>2, <1>4, <1>5, <1>6 DEF LingerInv

\* Every step keeps the invariant, whatever the clients do.
LEMMA LingerStep == LingerInv /\ [Next]_vars => LingerInv'
<1> SUFFICES ASSUME LingerInv, [Next]_vars PROVE LingerInv'
  OBVIOUS
<1>0. QueueInv /\ QueueInv' /\ EntryInv
  BY QueueStep DEF LingerInv
<1>1. ASSUME NEW j \in Jobs, NEW h \in Handles,
             (\E forced \in BOOLEAN : Start(j, h, forced)) \/ Retry(j, h)
      PROVE  LingerInv'
  BY <1>1, SubmitLingers DEF Start, Retry
<1>2. ASSUME NEW j \in Jobs, Cancel(j) PROVE LingerInv'
  <2>1. /\ \A h \in Handles : Live(h)' <=> Live(h)
        /\ \A h \in Handles : handle'[h].job = handle[h].job
        /\ \A h \in Handles : handle'[h].cancel <=> handle[h].cancel \/ h = registry[j]
        /\ UNCHANGED <<registry, queue, current, phase, status, open>>
        /\ registry[j] \in Handles
    BY <1>0, <1>2, CancelQueues DEF Cancel, QueueInv
  <2>2. /\ doomed \subseteq doomed'
        /\ current # registry[j] => registry[j] \in doomed'
    BY <1>2 DEF Cancel
  <2>3. \A h \in Handles : (Queued(h)' <=> Queued(h)) /\ (Queued(h) => h # current)
    BY <1>0, <2>1 DEF QueueInv, Unrepeated, Queued
  <2>4. EntryInv'
    <3>1. \A k \in DOMAIN queue : handle'[queue[k]].job = handle[queue[k]].job
      BY <1>0, <2>1, QueuedJobs
    <3>2. \A k \in Jobs : registry[k] # NoHandle => registry[k] \in Handles
      BY <1>0 DEF QueueInv
    <3>3. QED
      BY <1>0, <2>1, <3>1, <3>2 DEF EntryInv
  <2>5. \A h \in Handles : Queued(h)' /\ handle'[h].cancel => h \in doomed'
    BY <2>1, <2>2, <2>3 DEF LingerInv
  <2>6. \A k \in Jobs : status'[k] = "running" =>
          phase' \in Attempting /\ handle'[current'].job = k
    <3>1. phase \in Attempting => current \in Handles
      BY <1>0 DEF QueueInv, Attempting
    <3>2. QED
      BY <2>1, <3>1 DEF LingerInv
  <2>7. \A k \in Jobs : registry[k] # NoHandle => (Live(registry[k])' <=> Live(registry[k]))
    BY <1>0, <2>1 DEF QueueInv, Live, Queued
  <2>8. QED
    BY <1>0, <2>1, <2>2, <2>4, <2>5, <2>6, <2>7 DEF LingerInv
<1>3. CASE Close
  <2>1. DOMAIN queue' = {} /\ \A h \in Handles : ~Queued(h)'
    BY <1>0, <1>3, EmptyQueues
  <2>2. UNCHANGED <<registry, handle, current, phase, status>> /\ ~open'
    BY <1>3 DEF Close
  <2>3. EntryInv'
    BY <1>0, <2>1, <2>2 DEF EntryInv
  <2>4. QED
    BY <1>0, <2>1, <2>2, <2>3 DEF LingerInv
<1>4. CASE Restart
  <2>1. DOMAIN queue' = {} /\ \A h \in Handles : ~Queued(h)'
    BY <1>0, <1>4, EmptyQueues
  <2>2. /\ \A j \in Jobs : registry'[j] = NoHandle /\ status'[j] # "running"
        /\ current' = NoHandle
    BY <1>4 DEF Restart
  <2>3. EntryInv'
    BY <2>1, <2>2 DEF EntryInv
  <2>4. QED
    BY <1>0, <2>1, <2>2, <2>3 DEF LingerInv
<1>5. CASE Release
  <2>1. /\ current \in Handles /\ Live(current) /\ handle[current].job \in Jobs
        /\ \A h \in Handles : Live(h)' => Live(h) /\ h # current
    BY <1>0, <1>5, ReleaseQueues
  <2>2. /\ phase = "ended" /\ current' = NoHandle
        /\ registry' = [registry EXCEPT ![handle[current].job] = NoHandle]
        /\ UNCHANGED <<handle, queue, status, open, doomed>>
    BY <1>5 DEF Release
  <2>3. \A j \in Jobs : registry'[j] =
          IF j = handle[current].job THEN NoHandle ELSE registry[j]
    BY <1>0, <2>1, <2>2 DEF QueueInv
  <2>4. EntryInv'
    <3>1. \A k \in DOMAIN queue : queue[k] \in Handles /\ handle[queue[k]].job \in Jobs
      BY <1>0, QueuedJobs
    <3>2. QED
      BY <1>0, <2>2, <2>3, <3>1, NullsAssumption DEF EntryInv
  <2>5. \A j \in Jobs : status'[j] # "running"
    BY <2>2 DEF LingerInv, Attempting
  <2>6. \A h \in Handles : Queued(h)' /\ handle'[h].cancel => h \in doomed'
    BY <2>2 DEF LingerInv, Queued
  <2>7. ASSUME open', NEW j \in Jobs, registry'[j] # NoHandle, ~Live(registry[j])'
        PROVE  registry'[j] \in doomed' /\ \A g \in Handles : Live(g)' => handle'[g].job # j
    <3>1. registry'[j] = registry[j] /\ j # handle[current].job
      BY <2>3, <2>7
    <3>2. registry[j] # current
      BY <1>0, <2>7, <3>1 DEF EntryInv
    <3>3. ~Live(registry[j])
      BY <2>2, <2>7, <3>1, <3>2 DEF Live, Queued
    <3>4. QED
      BY <2>1, <2>2, <2>7, <3>1, <3>3 DEF LingerInv
  <2>8. QED
    BY <1>0, <2>4, <2>5, <2>6, <2>7 DEF LingerInv
<1>6. CASE UNCHANGED vars
  BY <1>0, <1>6 DEF vars, LingerInv, EntryInv, Live, Queued
<1>7. QED
  BY <1>1, <1>2, <1>3, <1>4, <1>5, <1>6, TakingLingers, WithinLingers DEF Next, Worker, Within

(***************************************************************************)
(* What is registered without being queued or under way was cancelled      *)
(* while it waited, and its job is not running: every other way out of     *)
(* _run_job takes its entry along.  It holds whatever the clients ask, two *)
(* runs of one job included.                                               *)
(***************************************************************************)
THEOREM OnlyDroppedLinger == Spec => []OnlyDroppedRunsLinger
<1>1. ASSUME Init PROVE LingerInv
  <2>1. QueueInv /\ DOMAIN queue = {} /\ \A h \in Handles : ~Queued(h)
    BY <1>1, QueueInit DEF Init, Live
  <2>2. \A j \in Jobs : registry[j] = NoHandle /\ status[j] # "running"
    BY <1>1 DEF Init
  <2>3. QED
    BY <1>1, <2>1, <2>2 DEF Init, LingerInv, EntryInv
<1>2. ASSUME LingerInv PROVE OnlyDroppedRunsLinger
  <2> SUFFICES ASSUME open, NEW j \in Jobs, registry[j] # NoHandle, ~Live(registry[j])
               PROVE  registry[j] \in doomed /\ status[j] # "running"
    BY DEF OnlyDroppedRunsLinger
  <2>1. /\ registry[j] \in doomed
        /\ \A g \in Handles : Live(g) => handle[g].job # j
    BY <1>2 DEF LingerInv
  <2>2. ASSUME status[j] = "running" PROVE FALSE
    <3>1. current \in Handles /\ handle[current].job = j
      BY <1>2, <2>2 DEF LingerInv, QueueInv, Attempting
    <3>2. QED
      BY <2>1, <3>1 DEF Live
  <2>3. QED
    BY <2>1, <2>2
<1>3. QED
  BY <1>1, <1>2, LingerStep, PTL DEF Spec
=============================================================================
