-------------------------- MODULE EventFeedProofs --------------------------
(***************************************************************************)
(* Theorems about EventFeed, for any jobs, any size of log and page, and   *)
(* any number of events and of requests under way.                         *)
(***************************************************************************)
EXTENDS EventFeed, SequenceTheorems, FiniteSetTheorems, WellFoundedInduction, TLAPS

-----------------------------------------------------------------------------
(***************************************************************************)
(* Induction, for a set instead of a predicate: a set that holds 0 and the *)
(* successor of each of its numbers leaves no least number outside it.     *)
(***************************************************************************)
LEMMA Induction ==
    ASSUME NEW S, 0 \in S, \A n \in Nat : n \in S => n + 1 \in S
    PROVE  \A n \in Nat : n \in S
<1> DEFINE T == Nat \ S
           R == {ss \in Nat \X Nat : ss[1] < ss[2]}
<1>1. IsWellFoundedOn(R, Nat)
  BY NatLessThanWellFounded DEF OpToRel
<1>2. SUFFICES ASSUME T # {} PROVE FALSE
  OBVIOUS
<1>3. T \subseteq Nat
  OBVIOUS
<1> HIDE DEF R, T
<1>4. PICK x \in T : \A y \in T : <<y, x>> \notin R
  BY <1>1, <1>2, <1>3, WFMin
<1>5. x \in Nat /\ x # 0 /\ x \notin S
  BY <1>4 DEF T
<1>6. x - 1 \in Nat /\ (x - 1) + 1 = x /\ x - 1 \notin S
  BY <1>5
<1>7. <<x - 1, x>> \in R /\ x - 1 \in T
  BY <1>5, <1>6 DEF R, T
<1>8. QED
  BY <1>4, <1>7

-----------------------------------------------------------------------------
(***************************************************************************)
(* What passes between the sidecar and the GUI once n - 1 events have been *)
(* numbered.                                                               *)
(***************************************************************************)
Types    == {"job_created", "status_changed", "progress", "job_completed", "job_failed"}
Tells(e) == e.type \in {"status_changed", "job_completed"}

Events(n) ==
    {e \in [sequence : 1..(n - 1), type : Types, job : Jobs, status : Status] :
        Tells(e) => e.status # "absent"}

Polls(n)   == [kind : {"poll"}, after : 0..(n - 1)]
Lists(n)   == [kind : {"list_jobs"}, resume : 0..(n - 1), job : Jobs \cup {NoJob}]
JobCalls   == [kind : {"get_job", "start_translation", "retry_job"}, job : Jobs]
Requests(n) == Polls(n) \cup Lists(n) \cup JobCalls

Pages(n)  == [kind : {"events"}, events : Seq(Events(n)), next_sequence : 0..(n - 1),
              oldest_sequence : 1..n]
Tables(n) == [kind : {"jobs"}, status : [Jobs -> Status], upto : 0..(n - 1),
              resume : 0..(n - 1), job : Jobs \cup {NoJob}]
JobReplies == [kind : {"job"}, job : Jobs, status : Status]
Accepted   == [kind : {"started", "retried"}, job : Jobs]
Errors     == [kind : {"error"}]
Replies(n) == Pages(n) \cup Tables(n) \cup JobReplies \cup Accepted \cup Errors

\* More numbers, more messages.
LEMMA MessagesGrow ==
    ASSUME NEW n \in Nat, NEW m \in Nat, n <= m
    PROVE  /\ Events(n) \subseteq Events(m)
           /\ Requests(n) \subseteq Requests(m)
           /\ Replies(n) \subseteq Replies(m)
<1>1. 1..(n - 1) \subseteq 1..(m - 1) /\ 0..(n - 1) \subseteq 0..(m - 1) /\ 1..n \subseteq 1..m
  OBVIOUS
<1>2. Events(n) \subseteq Events(m)
  BY <1>1 DEF Events
<1>3. Seq(Events(n)) \subseteq Seq(Events(m))
  BY <1>2, SeqMonotonic
<1>4. Requests(n) \subseteq Requests(m)
  BY <1>1 DEF Requests, Polls, Lists
<1>5. Pages(n) \subseteq Pages(m)
  BY <1>1, <1>3 DEF Pages
<1>6. Tables(n) \subseteq Tables(m)
  BY <1>1 DEF Tables
<1>7. QED
  BY <1>2, <1>4, <1>5, <1>6 DEF Replies

\* The kind of a message says what is in it.
LEMMA RequestKinds ==
    ASSUME NEW n, NEW m \in Requests(n)
    PROVE  /\ m.kind = "poll" => m \in Polls(n)
           /\ m.kind = "list_jobs" => m \in Lists(n)
           /\ m.kind \in {"get_job", "start_translation", "retry_job"} => m \in JobCalls
  BY DEF Requests, Polls, Lists, JobCalls

\* The same for replies.
LEMMA ReplyKinds ==
    ASSUME NEW n, NEW m \in Replies(n)
    PROVE  /\ m.kind = "events" => m \in Pages(n)
           /\ m.kind = "jobs" => m \in Tables(n)
           /\ m.kind = "job" => m \in JobReplies
           /\ m.kind \in {"started", "retried"} => m \in Accepted
<1> USE DEF Pages, Tables, JobReplies, Accepted, Errors
<1>1. QED
  BY DEF Replies

-----------------------------------------------------------------------------
(***************************************************************************)
(* Applying a page to the list of jobs.                                    *)
(***************************************************************************)
Shown == (Status \ {"absent"}) \cup {"unlisted"}

\* One event: a job is listed, or the status of a listed one replaced.
LEMMA ApplyTyped ==
    ASSUME NEW jobs \in [Jobs -> Shown], NEW n, NEW e \in Events(n)
    PROVE  ApplyEvent(jobs, e) \in [Jobs -> Shown]
<1>1. e.job \in Jobs /\ e.status \in Status /\ (Tells(e) => e.status \in Shown)
  BY DEF Events, Shown
<1>2. {"running", "discovered"} \subseteq Shown
  BY DEF Shown, Status
<1>3. QED
  BY <1>1, <1>2 DEF ApplyEvent, Tells

AppliedBy(f, base, events) ==
    f = [i \in 0..Len(events) |-> IF i = 0 THEN base ELSE ApplyEvent(f[i - 1], events[i])]

\* The recursion of Applied has a solution.
LEMMA AppliedDefined ==
    ASSUME NEW S, NEW events \in Seq(S)
    PROVE  \E f : AppliedBy(f, shown, events) /\ Applied(events) = f[Len(events)]
<1> DEFINE Upto(f, k) ==
             f = [i \in 0..k |-> IF i = 0 THEN shown ELSE ApplyEvent(f[i - 1], events[i])]
           Good == {k \in Nat : \E f : Upto(f, k)}
<1>1. 0 \in Good
  <2>1. Upto([i \in 0..0 |-> shown], 0)
    OBVIOUS
  <2>2. QED
    BY <2>1
<1>2. ASSUME NEW k \in Nat, k \in Good PROVE k + 1 \in Good
  <2>1. PICK f : Upto(f, k)
    BY <1>2
  <2> DEFINE g == [i \in 0..(k + 1) |-> IF i <= k THEN f[i] ELSE ApplyEvent(f[k], events[k + 1])]
  <2>2. \A i \in 0..k : g[i] = f[i]
    OBVIOUS
  <2>3. \A i \in 0..k : f[i] = IF i = 0 THEN shown ELSE ApplyEvent(f[i - 1], events[i])
    BY <2>1
  <2>4. g[k + 1] = ApplyEvent(f[k], events[k + 1])
    OBVIOUS
  <2>5. g = [i \in 0..(k + 1) |-> g[i]]
    OBVIOUS
  <2> HIDE DEF g
  <2>6. \A i \in 0..(k + 1) : g[i] = IF i = 0 THEN shown ELSE ApplyEvent(g[i - 1], events[i])
    <3>1. ASSUME NEW i \in 0..k
          PROVE  g[i] = IF i = 0 THEN shown ELSE ApplyEvent(g[i - 1], events[i])
      <4>1. i # 0 => i - 1 \in 0..k
        OBVIOUS
      <4>2. QED
        BY <2>2, <2>3, <4>1
    <3>2. k + 1 # 0 /\ (k + 1) - 1 = k /\ k \in 0..k
      OBVIOUS
    <3>3. g[k + 1] = ApplyEvent(g[(k + 1) - 1], events[k + 1])
      BY <2>2, <2>4, <3>2
    <3>4. \A i \in 0..(k + 1) : i \in 0..k \/ i = k + 1
      OBVIOUS
    <3>5. QED
      BY <3>1, <3>2, <3>3, <3>4
  <2>7. Upto(g, k + 1)
    BY <2>5, <2>6
  <2>8. QED
    BY <2>7
<1> HIDE DEF Good
<1>3. Len(events) \in Good
  BY <1>1, <1>2, Induction
<1>4. \E f : AppliedBy(f, shown, events)
  BY <1>3 DEF Good, AppliedBy
<1>5. QED
  BY <1>4 DEF Applied, AppliedBy

\* Event by event, a page leaves the list well formed.
LEMMA AppliedSteps ==
    ASSUME shown \in [Jobs -> Shown], NEW n, NEW events \in Seq(Events(n))
    PROVE  \E f : /\ AppliedBy(f, shown, events) /\ Applied(events) = f[Len(events)]
                  /\ \A k \in 0..Len(events) : f[k] \in [Jobs -> Shown]
<1>1. PICK f : AppliedBy(f, shown, events) /\ Applied(events) = f[Len(events)]
  BY AppliedDefined
<1> DEFINE Good == {k \in Nat : k <= Len(events) => f[k] \in [Jobs -> Shown]}
<1>2. Len(events) \in Nat
  OBVIOUS
<1>3. 0 \in Good
  BY <1>1, <1>2 DEF AppliedBy
<1>4. ASSUME NEW k \in Nat, k \in Good, k + 1 <= Len(events)
      PROVE  f[k + 1] \in [Jobs -> Shown]
  <2>1. f[k] \in [Jobs -> Shown] /\ events[k + 1] \in Events(n)
    BY <1>2, <1>4
  <2>2. k + 1 \in 0..Len(events) /\ k + 1 # 0 /\ (k + 1) - 1 = k
    BY <1>2, <1>4
  <2>3. f[k + 1] = ApplyEvent(f[k], events[k + 1])
    BY <1>1, <2>2 DEF AppliedBy
  <2>4. QED
    BY <2>1, <2>3, ApplyTyped
<1>5. \A k \in Nat : k \in Good => k + 1 \in Good
  BY <1>4
<1> HIDE DEF Good
<1>6. \A k \in Nat : k \in Good
  BY <1>3, <1>5, Induction
<1>7. \A k \in 0..Len(events) : f[k] \in [Jobs -> Shown]
  BY <1>2, <1>6 DEF Good
<1>8. QED
  BY <1>1, <1>7

\* A page leaves the list well formed.
LEMMA AppliedTyped ==
    ASSUME shown \in [Jobs -> Shown], NEW n, NEW events \in Seq(Events(n))
    PROVE  Applied(events) \in [Jobs -> Shown]
<1>1. Len(events) \in 0..Len(events)
  OBVIOUS
<1>2. QED
  BY <1>1, AppliedSteps


-----------------------------------------------------------------------------
(***************************************************************************)
(* The types, without the bounds of the model: the numbers in every event, *)
(* request and reply under way are among those the sidecar has given out.  *)
(***************************************************************************)
Steps == {"idle", "announced", "running", "settled", "raised", "dropped", "reported"}

JobsTyped ==
    /\ disk \in [Jobs -> Status] /\ registered \subseteq Jobs /\ waiting \subseteq Jobs
    /\ running \in Jobs \cup {NoJob} /\ step \in Steps /\ up \in BOOLEAN /\ failing \subseteq Jobs
    /\ step = "idle" <=> running = NoJob
    /\ step \in {"settled", "dropped"} => disk[running] # "absent"

\* A log that holds the last of n - 1 events, numbered without a gap.
NumberedLog(q, n) ==
    /\ n \in Nat \ {0} /\ q \in Seq(Events(n))
    /\ Len(q) <= MaxRetained /\ Len(q) < n
    /\ \A i \in 1..Len(q) : q[i].sequence = (n - 1 - Len(q)) + i

Numbered == NumberedLog(log, next)

Exchange ==
    /\ asked \in Seq(Requests(next)) /\ answered \in Seq(Replies(next))
    /\ shown \in [Jobs -> Shown] /\ conn \in {"reconnecting", "listing", "ready"}
    /\ cursor \in 0..(next - 1) /\ known \subseteq 1..(next - 1)

FeedInv == JobsTyped /\ Numbered /\ Exchange

\* An event is appended; the oldest goes when there are too many.
LEMMA LogGrows ==
    ASSUME NEW q, NEW n, NumberedLog(q, n), NEW e \in Events(n + 1), e.sequence = n
    PROVE  LET longer == Append(q, e)
           IN  NumberedLog(IF Len(longer) > MaxRetained THEN Tail(longer) ELSE longer, n + 1)
<1> DEFINE longer == Append(q, e)
<1>1. /\ n \in Nat \ {0} /\ q \in Seq(Events(n + 1)) /\ Len(q) \in Nat /\ MaxRetained \in Nat \ {0}
      /\ Len(q) <= MaxRetained /\ Len(q) < n
  <2>1. Events(n) \subseteq Events(n + 1)
    BY MessagesGrow DEF NumberedLog
  <2>2. QED
    BY <2>1, SeqMonotonic, BoundsAssumption DEF NumberedLog
<1>2. /\ longer \in Seq(Events(n + 1)) /\ Len(longer) = Len(q) + 1
      /\ \A i \in 1..Len(q) : longer[i] = q[i]
      /\ longer[Len(q) + 1] = e
  BY <1>1, AppendProperties
<1> HIDE DEF longer
<1>3. ASSUME NEW i \in 1..Len(longer) PROVE longer[i].sequence = ((n + 1) - 1 - Len(longer)) + i
  <2>1. CASE i \in 1..Len(q)
    BY <1>1, <1>2, <2>1 DEF NumberedLog
  <2>2. CASE i = Len(q) + 1
    BY <1>1, <1>2, <2>2
  <2>3. QED
    BY <1>1, <1>2, <2>1, <2>2
<1>4. CASE Len(longer) > MaxRetained
  <2> DEFINE r == Tail(longer)
  <2>1. longer # <<>> /\ Len(longer) \in Nat
    BY <1>1, <1>2, <1>4
  <2>2. /\ r \in Seq(Events(n + 1)) /\ Len(r) = Len(longer) - 1
        /\ \A i \in 1..Len(r) : r[i] = longer[i + 1]
    BY <1>2, <2>1, HeadTailProperties
  <2> HIDE DEF r
  <2>3. ASSUME NEW i \in 1..Len(r) PROVE r[i].sequence = ((n + 1) - 1 - Len(r)) + i
    <3>1. i + 1 \in 1..Len(longer) /\ r[i] = longer[i + 1]
      BY <2>1, <2>2
    <3>2. r[i].sequence = ((n + 1) - 1 - Len(longer)) + (i + 1)
      BY <1>3, <3>1
    <3>3. QED
      BY <1>1, <1>2, <2>2, <3>2
  <2>4. NumberedLog(r, n + 1)
    BY <1>1, <1>2, <2>2, <2>3 DEF NumberedLog
  <2>5. QED
    BY <1>4, <2>4 DEF r, longer
<1>5. CASE ~(Len(longer) > MaxRetained)
  <2>1. NumberedLog(longer, n + 1)
    BY <1>1, <1>2, <1>3, <1>5 DEF NumberedLog
  <2>2. QED
    BY <1>5, <2>1 DEF longer
<1>6. QED
  BY <1>4, <1>5

\* Emitting an event.
LEMMA EmitNumbers ==
    ASSUME Numbered, NEW type \in Types, NEW j \in Jobs, NEW stat \in Status,
           Tells([type |-> type]) => stat # "absent",
           Emit(type, j, stat)
    PROVE  Numbered' /\ next' = next + 1
<1> DEFINE e == Event(type, j, stat)
<1>1. next' = next + 1 /\ next \in Nat \ {0}
  BY DEF Emit, Numbered, NumberedLog
<1>2. e \in Events(next + 1) /\ e.sequence = next
  <2>1. next \in 1..((next + 1) - 1)
    BY <1>1
  <2>2. e = [sequence |-> next, type |-> type, job |-> j, status |-> stat]
    BY DEF Event
  <2> HIDE DEF e
  <2>3. QED
    BY <2>1, <2>2 DEF Events, Tells
<1>3. log' = IF Len(Append(log, e)) > MaxRetained THEN Tail(Append(log, e)) ELSE Append(log, e)
  BY DEF Emit
<1> HIDE DEF e
<1>4. NumberedLog(log', next + 1)
  BY <1>2, <1>3, LogGrows DEF Numbered
<1>5. QED
  BY <1>1, <1>4 DEF Numbered

\* More numbers, longer ranges.
LEMMA RangesGrow ==
    ASSUME NEW n \in Nat, NEW m \in Nat, n <= m
    PROVE  0..(n - 1) \subseteq 0..(m - 1) /\ 1..(n - 1) \subseteq 1..(m - 1)
  OBVIOUS

\* What was typed with fewer numbers still is.
LEMMA ExchangeGrows ==
    ASSUME FeedInv, next' \in {next, next + 1}
    PROVE  /\ asked \in Seq(Requests(next')) /\ answered \in Seq(Replies(next'))
           /\ cursor \in 0..(next' - 1) /\ known \subseteq 1..(next' - 1)
<1>1. next \in Nat \ {0} /\ next' \in Nat /\ next <= next'
  BY DEF FeedInv, Numbered, NumberedLog
<1>2. Requests(next) \subseteq Requests(next') /\ Replies(next) \subseteq Replies(next')
  BY <1>1, MessagesGrow
<1>3. asked \in Seq(Requests(next')) /\ answered \in Seq(Replies(next'))
  BY <1>2, SeqMonotonic DEF FeedInv, Exchange
<1>4. 0..(next - 1) \subseteq 0..(next' - 1) /\ 1..(next - 1) \subseteq 1..(next' - 1)
  BY <1>1, RangesGrow
<1>5. QED
  BY <1>3, <1>4 DEF FeedInv, Exchange

\* The worker thread.
LEMMA WorkerTyped ==
    ASSUME FeedInv, Worker
    PROVE  FeedInv'
<1> USE DEF FeedInv
<1>1. up /\ UNCHANGED <<up, asked, answered, gui>>
  BY DEF Worker, Announce, DropCancelled, Begin, Skip, RaiseEarly, Settle, Saves, Progress, Report,
         Release
<1>2. ASSUME next' \in {next, next + 1}, Numbered', JobsTyped' PROVE FeedInv'
  BY <1>1, <1>2, ExchangeGrows DEF Exchange, gui
<1>3. ASSUME NEW j \in Jobs, Announce(j) PROVE FeedInv'
  <2>1. /\ Emit("status_changed", j, "running") /\ running' = j /\ step' = "announced"
        /\ waiting' = waiting \ {j} /\ UNCHANGED <<disk, registered, up, failing>>
    BY <1>3 DEF Announce
  <2>2. Numbered' /\ next' = next + 1
    BY <2>1, EmitNumbers DEF Types, Status
  <2>3. JobsTyped'
    BY <2>1, JobsAssumption DEF JobsTyped, Steps
  <2>4. QED
    BY <1>2, <2>2, <2>3
<1>4. ASSUME NEW j \in Jobs, DropCancelled(j) PROVE FeedInv'
  <2>1. JobsTyped'
    BY <1>4, JobsAssumption DEF DropCancelled, JobsTyped, Steps, Status
  <2>2. QED
    BY <1>2, <1>4, <2>1 DEF DropCancelled, Numbered
<1>5. ASSUME NEW from \in Steps, NEW to \in Steps \ {"idle"}, NEW stat \in Status,
             Saves(from, to, stat), from # "idle",
             to \in {"settled", "dropped"} => stat # "absent"
      PROVE  FeedInv'
  <2>1. JobsTyped'
    BY <1>5 DEF Saves, JobsTyped
  <2>2. QED
    BY <1>2, <1>5, <2>1 DEF Saves, Numbered
<1>6. CASE Begin \/ Skip \/ RaiseEarly \/ \E outcome \in Outcomes : Settle(outcome)
  <2>1. CASE Begin
    BY <1>5, <2>1 DEF Begin, Steps, Status
  <2>2. CASE Skip
    BY <1>5, <2>2 DEF Skip, Steps, Status
  <2>3. CASE RaiseEarly
    <3>1. disk[running] \in Status
      BY <2>3 DEF RaiseEarly, Saves, JobsTyped
    <3>2. QED
      BY <1>5, <2>3, <3>1 DEF RaiseEarly, Steps
  <2>4. CASE \E outcome \in Outcomes : Settle(outcome)
    <3>1. PICK outcome \in Outcomes : Settle(outcome)
      BY <2>4
    <3>2. outcome \in Status /\ outcome # "absent"
      BY OutcomesAssumption DEF Status
    <3>3. QED
      BY <1>5, <3>1, <3>2 DEF Settle, Steps
  <2>5. QED
    BY <1>6, <2>1, <2>2, <2>3, <2>4
<1>7. CASE Progress
  <2>1. running \in Jobs
    BY <1>7 DEF Progress, JobsTyped
  <2>2. Emit("progress", running, "running") /\ UNCHANGED <<disk, registered, waiting, running, step, up, failing>>
    BY <1>7 DEF Progress
  <2>3. Numbered' /\ next' = next + 1
    BY <2>1, <2>2, EmitNumbers DEF Types, Status, Tells
  <2>4. QED
    BY <1>2, <2>2, <2>3 DEF JobsTyped
<1>8. CASE Report
  <2> DEFINE type == CASE step = "raised"                                -> "job_failed"
                       [] step = "settled" /\ disk[running] = "completed" -> "job_completed"
                       [] OTHER                                           -> "status_changed"
  <2>1. /\ step \in {"settled", "raised", "dropped"} /\ running \in Jobs
        /\ disk[running] \in Status
    BY <1>8 DEF Report, JobsTyped
  <2>2. type \in Types /\ (type # "job_failed" => disk[running] # "absent")
    BY <2>1 DEF Types, JobsTyped
  <2>3. Emit(type, running, disk[running])
    BY <1>8 DEF Report
  <2> HIDE DEF type
  <2>4. Numbered' /\ next' = next + 1
    BY <2>1, <2>2, <2>3, EmitNumbers DEF Tells
  <2>5. JobsTyped'
    BY <1>8, <2>1, JobsAssumption DEF Report, JobsTyped, Steps
  <2>6. QED
    BY <1>2, <2>4, <2>5
<1>9. CASE Release
  <2>1. JobsTyped'
    BY <1>9, JobsAssumption DEF Release, JobsTyped, Steps
  <2>2. QED
    BY <1>2, <1>9, <2>1 DEF Release, Numbered
<1>10. QED
  BY <1>3, <1>4, <1>6, <1>7, <1>8, <1>9 DEF Worker


\* The reply to the request at the head of the queue.
LEMMA ReplyTyped ==
    ASSUME NEW n, NEW q \in Seq(Requests(n)), q # <<>>,
           NEW a \in Seq(Replies(n)), NEW m \in Replies(n)
    PROVE  /\ Tail(q) \in Seq(Requests(n)) /\ Append(a, m) \in Seq(Replies(n))
           /\ Head(q) \in Requests(n)
<1>1. \A S : \A x \in Seq(S) : x # <<>> => Tail(x) \in Seq(S) /\ Head(x) \in S
  BY HeadTailProperties
<1>2. \A S : \A x \in Seq(S), z \in S : Append(x, z) \in Seq(S)
  BY AppendProperties
<1>3. QED
  BY <1>1, <1>2

\* A page of the log.
LEMMA PageTyped ==
    ASSUME NEW q, NEW n, NumberedLog(q, n), NEW after \in Nat
    PROVE  LET newer == {i \in DOMAIN q : q[i].sequence > after}
               seen  == Len(q) - Cardinality(newer)
           IN  /\ IsFiniteSet(newer) /\ seen \in 0..Len(q)
               /\ newer = (seen + 1)..Len(q)
               /\ SubSeq(q, seen + 1, seen + Min({Cardinality(newer), MaxPerPoll}))
                    \in Seq(Events(n))
<1> DEFINE newer == {i \in DOMAIN q : q[i].sequence > after}
           base  == n - 1 - Len(q)
           old   == IF after <= base THEN 0
                    ELSE IF after - base <= Len(q) THEN after - base ELSE Len(q)
<1>1. /\ q \in Seq(Events(n)) /\ Len(q) \in Nat /\ DOMAIN q = 1..Len(q)
      /\ base \in Nat /\ \A i \in 1..Len(q) : q[i].sequence = base + i
  BY DEF NumberedLog
<1>2. MaxPerPoll \in Nat \ {0}
  BY BoundsAssumption
<1> HIDE DEF base
<1>3. old \in 0..Len(q) /\ newer = (old + 1)..Len(q)
  BY <1>1
<1> HIDE DEF old
<1>4. IsFiniteSet(newer) /\ Cardinality(newer) = Len(q) - old
  <2>1. old + 1 \in Int /\ Len(q) \in Int
    BY <1>1, <1>3
  <2>2. /\ IsFiniteSet((old + 1)..Len(q))
        /\ Cardinality((old + 1)..Len(q)) = IF old + 1 > Len(q) THEN 0 ELSE Len(q) - (old + 1) + 1
    BY <2>1, FS_Interval
  <2>3. \A k, l \in Nat : k <= l => (IF k + 1 > l THEN 0 ELSE l - (k + 1) + 1) = l - k
    OBVIOUS
  <2>4. old \in Nat /\ old <= Len(q)
    BY <1>1, <1>3
  <2>5. QED
    BY <1>1, <1>3, <2>2, <2>3, <2>4
<1> HIDE DEF newer
<1> DEFINE seen == Len(q) - Cardinality(newer)
           size == Min({Cardinality(newer), MaxPerPoll})
<1>5. seen = old
  BY <1>1, <1>3, <1>4
<1>6. size \in 0..(Len(q) - old)
  <2>1. Cardinality(newer) \in Nat
    BY <1>1, <1>3, <1>4
  <2>2. size \in {Cardinality(newer), MaxPerPoll} /\ size <= Cardinality(newer) /\ size \in Nat
    BY <1>2, <2>1 DEF Min
  <2>3. QED
    BY <1>1, <1>3, <1>4, <2>2
<1> HIDE DEF size, seen
<1>7. SubSeq(q, old + 1, old + size) \in Seq(Events(n))
  <2>1. \A i \in (old + 1)..(old + size) : q[i] \in Events(n)
    BY <1>1, <1>3, <1>6
  <2>2. old + 1 \in Int /\ old + size \in Int
    BY <1>1, <1>3, <1>6
  <2> DEFINE S == Events(n)
  <2> HIDE DEF S
  <2>3. q \in Seq(S) /\ \A i \in (old + 1)..(old + size) : i \in 1..Len(q)
    BY <1>1, <1>3, <1>6 DEF S
  <2>4. SubSeq(q, old + 1, old + size) \in Seq(S)
    BY <1>1, <1>3, <1>6, <2>2, <2>3, SubSeqProperties
  <2>5. QED
    BY <2>4 DEF S
<1>8. QED
  BY <1>3, <1>4, <1>5, <1>7 DEF newer, seen, size


\* The sidecar serves a request.
LEMMA ServeTyped ==
    ASSUME FeedInv, Serve
    PROVE  FeedInv'
<1> USE DEF FeedInv
<1>1. /\ up /\ asked # <<>> /\ UNCHANGED <<disk, running, step, up, failing, gui>>
  BY DEF Serve, ServePoll, ServeList, ServeGet, ServeStart, RefuseRetry, ServeRetry, Serving, server
<1>2. next \in Nat \ {0}
  BY DEF Numbered, NumberedLog
<1>3. Head(asked) \in Requests(next)
  BY <1>1, HeadTailProperties DEF Exchange
<1>4. ASSUME NEW m \in Replies(next'), Reply(m), next' \in {next, next + 1}
      PROVE  Exchange'
  <2>1. asked \in Seq(Requests(next')) /\ answered \in Seq(Replies(next'))
    BY <1>4, ExchangeGrows
  <2>2. asked' \in Seq(Requests(next')) /\ answered' \in Seq(Replies(next'))
    BY <1>1, <1>4, <2>1, ReplyTyped DEF Reply
  <2>3. cursor \in 0..(next' - 1) /\ known \subseteq 1..(next' - 1)
    BY <1>4, ExchangeGrows
  <2>4. QED
    BY <1>1, <2>2, <2>3 DEF Exchange, gui
<1>5. ASSUME NEW m \in Replies(next), Reply(m), UNCHANGED server PROVE FeedInv'
  BY <1>4, <1>5 DEF server, JobsTyped, Numbered
<1>6. CASE ServePoll
  <2> DEFINE newer == {i \in DOMAIN log : log[i].sequence > Head(asked).after}
             seen  == Len(log) - Cardinality(newer)
             page  == SubSeq(log, seen + 1, seen + Min({Cardinality(newer), MaxPerPoll}))
             m     == [kind |-> "events", events |-> page, next_sequence |-> next - 1,
                       oldest_sequence |-> IF log = <<>> THEN next ELSE log[1].sequence]
  <2>1. Reply(m) /\ UNCHANGED server
    BY <1>6 DEF ServePoll
  <2>2. Head(asked) \in Polls(next)
    BY <1>3, <1>6, RequestKinds DEF ServePoll, Serving
  <2>3. Head(asked).after \in Nat
    BY <1>2, <2>2 DEF Polls
  <2>4. page \in Seq(Events(next))
    BY <2>3, PageTyped DEF Numbered
  <2>5. next - 1 \in 0..(next - 1) /\ next \in 1..next
    BY <1>2
  <2>6. log # <<>> => log[1].sequence \in 1..next
    <3>1. log # <<>> => log[1] \in Events(next)
      BY DEF Numbered, NumberedLog
    <3>2. 1..(next - 1) \subseteq 1..next
      BY <1>2
    <3>3. QED
      BY <3>1, <3>2 DEF Events
  <2> HIDE DEF page
  <2>7. m \in Pages(next)
    BY <2>4, <2>5, <2>6 DEF Pages
  <2>8. QED
    BY <1>5, <2>1, <2>7 DEF Replies
<1>7. CASE ServeList
  <2> DEFINE m == [kind |-> "jobs", status |-> disk, upto |-> next - 1,
                   resume |-> Head(asked).resume, job |-> Head(asked).job]
  <2>1. Reply(m) /\ UNCHANGED server
    BY <1>7 DEF ServeList
  <2>2. Head(asked) \in Lists(next)
    BY <1>3, <1>7, RequestKinds DEF ServeList, Serving
  <2>3. next - 1 \in 0..(next - 1)
    BY <1>2
  <2>4. m \in Tables(next)
    BY <2>2, <2>3 DEF Lists, Tables, JobsTyped
  <2>5. QED
    BY <1>5, <2>1, <2>4 DEF Replies
<1>8. CASE ServeGet
  <2> DEFINE m == [kind |-> "job", job |-> Head(asked).job, status |-> disk[Head(asked).job]]
  <2>1. Reply(m) /\ UNCHANGED server
    BY <1>8 DEF ServeGet
  <2>2. Head(asked) \in JobCalls
    BY <1>3, <1>8, RequestKinds DEF ServeGet, Serving
  <2>3. m \in JobReplies
    BY <2>2 DEF JobCalls, JobReplies, JobsTyped
  <2>4. QED
    BY <1>5, <2>1, <2>3 DEF Replies
<1>9. CASE RefuseRetry
  BY <1>5, <1>9 DEF RefuseRetry, Replies, Errors
<1>10. CASE ServeStart \/ ServeRetry
  <2> DEFINE j == Head(asked).job
  <2>1. j \in Jobs
    BY <1>3, <1>10, RequestKinds DEF ServeStart, ServeRetry, Serving, JobCalls
  <2>2. /\ waiting' = waiting \cup {j} /\ registered' = registered \cup {j}
        /\ UNCHANGED <<disk, running, step, up, failing, gui>>
    BY <1>10 DEF ServeStart, ServeRetry
  <2>3. JobsTyped'
    BY <2>1, <2>2 DEF JobsTyped
  <2>4. PICK m \in Accepted : Reply(m)
    <3>1. CASE ServeStart
      BY <2>1, <3>1 DEF ServeStart, Accepted
    <3>2. CASE ServeRetry
      BY <2>1, <3>2 DEF ServeRetry, Accepted
    <3>3. QED
      BY <1>10, <3>1, <3>2
  <2>5. Numbered' /\ next' = next + 1
    <3>1. CASE ServeStart
      <4>1. (IF disk[j] = "absent" THEN "discovered" ELSE disk[j]) \in Status
        BY <2>1 DEF JobsTyped, Status
      <4>2. Emit("job_created", j, IF disk[j] = "absent" THEN "discovered" ELSE disk[j])
        BY <3>1 DEF ServeStart
      <4> HIDE DEF j
      <4>3. QED
        BY <2>1, <4>1, <4>2, EmitNumbers DEF Types, Tells
    <3>2. CASE ServeRetry
      <4>1. Emit("status_changed", j, "running")
        BY <3>2 DEF ServeRetry
      <4> HIDE DEF j
      <4>2. QED
        BY <2>1, <4>1, EmitNumbers DEF Types, Status
    <3>3. QED
      BY <1>10, <3>1, <3>2
  <2>6. Exchange'
    BY <1>4, <2>4, <2>5 DEF Replies
  <2>7. QED
    BY <2>3, <2>5, <2>6
<1>11. QED
  BY <1>6, <1>7, <1>8, <1>9, <1>10 DEF Serve

\* The queues when the GUI has handled a reply.
LEMMA ThenTyped ==
    ASSUME Exchange, answered # <<>>, NEW requests \in Seq(Requests(next)), Then(requests)
    PROVE  /\ asked' \in Seq(Requests(next)) /\ answered' \in Seq(Replies(next))
           /\ Head(answered) \in Replies(next)
<1>1. \A S : \A x, y \in Seq(S) : x \o y \in Seq(S)
  BY ConcatProperties
<1>2. \A S : \A x \in Seq(S) : x # <<>> => Tail(x) \in Seq(S) /\ Head(x) \in S
  BY HeadTailProperties
<1>3. QED
  BY <1>1, <1>2 DEF Exchange, Then

\* A queue of one request, and none.
LEMMA ShortQueues ==
    ASSUME NEW S
    PROVE  <<>> \in Seq(S) /\ \A m \in S : <<m>> \in Seq(S)
  OBVIOUS


\* The GUI handles a reply.
LEMMA HandleTyped ==
    ASSUME FeedInv, Handle
    PROVE  FeedInv'
<1> USE DEF FeedInv
<1> DEFINE reply == Head(answered)
<1>1. answered # <<>> /\ UNCHANGED server
  BY DEF Handle, Resync, ApplyEvents, RefreshJobs, ShowJob, Started, Retried, Rejected, Handling
<1>2. /\ next \in Nat \ {0} /\ next' = next /\ reply \in Replies(next)
      /\ JobsTyped' /\ Numbered'
  BY <1>1, HeadTailProperties DEF server, Exchange, JobsTyped, Numbered, NumberedLog
<1> HIDE DEF reply
<1>3. ASSUME NEW requests \in Seq(Requests(next)), Then(requests)
      PROVE  asked' \in Seq(Requests(next')) /\ answered' \in Seq(Replies(next'))
  BY <1>1, <1>2, <1>3, ThenTyped
<1>4. <<>> \in Seq(Requests(next)) /\ \A m \in Requests(next) : <<m>> \in Seq(Requests(next))
  BY ShortQueues
<1>5. \A j \in Jobs : Of("get_job", j) \in Requests(next)
  BY DEF Of, Requests, JobCalls
<1>6. \A n \in 0..(next - 1), j \in Jobs \cup {NoJob} : List(n, j) \in Requests(next)
  BY DEF List, Requests, Lists
<1>7. CASE Resync
  <2>1. reply \in Pages(next) /\ Then(<<List(reply.next_sequence, NoJob)>>) /\ UNCHANGED gui
    BY <1>2, <1>7, ReplyKinds DEF Resync, Handling, reply
  <2>2. List(reply.next_sequence, NoJob) \in Requests(next)
    BY <1>6, <2>1 DEF Pages
  <2>3. QED
    BY <1>2, <1>3, <1>4, <2>1, <2>2 DEF Exchange, gui
<1>8. CASE ApplyEvents
  <2>1. /\ reply \in Pages(next) /\ Then(<<>>) /\ UNCHANGED conn
        /\ shown' = Applied(reply.events)
        /\ cursor' = IF reply.next_sequence > cursor THEN reply.next_sequence ELSE cursor
        /\ known' = known \cup {e.sequence : e \in ToSet(reply.events)}
    BY <1>2, <1>8, ReplyKinds DEF ApplyEvents, Handling, reply
  <2>2. reply.events \in Seq(Events(next)) /\ reply.next_sequence \in 0..(next - 1)
    BY <2>1 DEF Pages
  <2>3. shown' \in [Jobs -> Shown]
    BY <2>1, <2>2, AppliedTyped DEF Exchange
  <2>4. \A e \in ToSet(reply.events) : e.sequence \in 1..(next - 1)
    BY <2>2 DEF ToSet, Events
  <2>5. cursor' \in 0..(next - 1) /\ known' \subseteq 1..(next - 1)
    BY <2>1, <2>2, <2>4 DEF Exchange
  <2>6. QED
    BY <1>2, <1>3, <1>4, <2>1, <2>3, <2>5 DEF Exchange
<1>9. CASE RefreshJobs
  <2> DEFINE listed(j) == IF reply.status[j] = "absent" THEN "unlisted" ELSE reply.status[j]
             first  == IF conn = "listing" THEN <<Poll(cursor)>> ELSE <<>>
             second == IF reply.job # NoJob THEN <<Of("get_job", reply.job)>> ELSE <<>>
  <2>1. /\ reply \in Tables(next) /\ Then(first \o second)
        /\ shown' = [j \in Jobs |-> listed(j)]
        /\ cursor' = IF reply.resume # NoSequence THEN reply.resume ELSE cursor
        /\ known' = known \cup 1..reply.upto
        /\ conn' = IF conn = "listing" THEN "ready" ELSE conn
    BY <1>2, <1>9, ReplyKinds DEF RefreshJobs, Handling, reply
  <2>2. /\ reply.status \in [Jobs -> Status] /\ reply.upto \in 0..(next - 1)
        /\ reply.resume \in 0..(next - 1) /\ reply.job \in Jobs \cup {NoJob}
    BY <2>1 DEF Tables
  <2>3. shown' \in [Jobs -> Shown]
    BY <2>1, <2>2 DEF Shown
  <2>4. first \in Seq(Requests(next))
    <3>1. Poll(cursor) \in Requests(next)
      BY DEF Poll, Requests, Polls, Exchange
    <3>2. QED
      BY <1>4, <3>1
  <2>5. second \in Seq(Requests(next))
    BY <1>4, <1>5, <2>2
  <2> HIDE DEF first, second, listed
  <2>6. first \o second \in Seq(Requests(next))
    BY <2>4, <2>5, ConcatProperties
  <2>7. 1..reply.upto \subseteq 1..(next - 1)
    BY <1>2, <2>2
  <2>8. QED
    BY <1>2, <1>3, <2>1, <2>2, <2>3, <2>6, <2>7 DEF Exchange
<1>10. CASE ShowJob
  <2>1. /\ reply \in JobReplies /\ Then(<<>>) /\ UNCHANGED <<cursor, conn, known>>
        /\ shown' = IF "absent" = reply.status \/ shown[reply.job] = "unlisted"
                      THEN shown ELSE [shown EXCEPT ![reply.job] = reply.status]
    BY <1>2, <1>10, ReplyKinds DEF ShowJob, Handling, reply
  <2>2. shown' \in [Jobs -> Shown]
    BY <2>1 DEF JobReplies, Shown, Exchange
  <2>3. QED
    BY <1>2, <1>3, <1>4, <2>1, <2>2 DEF Exchange
<1>11. CASE Started \/ Retried
  <2>1. reply \in Accepted /\ UNCHANGED gui
    BY <1>2, <1>11, ReplyKinds DEF Started, Retried, Handling, reply
  <2>2. PICK m \in Requests(next) : Then(<<m>>)
    <3>1. reply.job \in Jobs /\ NoSequence \in 0..(next - 1)
      BY <1>2, <2>1 DEF Accepted, NoSequence
    <3>2. QED
      BY <1>5, <1>6, <1>11, <3>1 DEF Started, Retried, reply
  <2>3. QED
    BY <1>2, <1>3, <1>4, <2>1, <2>2 DEF Exchange, gui
<1>12. CASE Rejected
  BY <1>2, <1>3, <1>4, <1>12 DEF Rejected, Exchange
<1>13. QED
  BY <1>7, <1>8, <1>9, <1>10, <1>11, <1>12 DEF Handle

\* The GUI asks, the sidecar is lost, a new one is started.
LEMMA OthersTyped ==
    ASSUME FeedInv,
           \/ PollTimer \/ Lose \/ Reconnect \/ UNCHANGED vars
           \/ \E j \in Jobs : StartClicked(j) \/ RetryClicked(j) \/ DetailsOpened(j)
    PROVE  FeedInv'
<1> USE DEF FeedInv
<1>1. ASSUME NEW m \in Requests(next), Send(m) PROVE FeedInv'
  <2>1. \A S : \A x \in Seq(S), z \in S : Append(x, z) \in Seq(S)
    BY AppendProperties
  <2>2. asked' \in Seq(Requests(next)) /\ UNCHANGED <<server, answered, gui>>
    BY <1>1, <2>1 DEF Send, Exchange
  <2>3. QED
    BY <2>2 DEF server, gui, JobsTyped, Numbered, Exchange
<1>2. CASE PollTimer
  <2>1. Poll(cursor) \in Requests(next)
    BY DEF Poll, Requests, Polls, Exchange
  <2>2. QED
    BY <1>1, <1>2, <2>1 DEF PollTimer
<1>3. CASE \E j \in Jobs : StartClicked(j) \/ RetryClicked(j) \/ DetailsOpened(j)
  <2>1. \A method \in {"start_translation", "retry_job", "get_job"}, j \in Jobs :
          Of(method, j) \in Requests(next)
    BY DEF Of, Requests, JobCalls
  <2>2. QED
    BY <1>1, <1>3, <2>1 DEF StartClicked, RetryClicked, DetailsOpened
<1>4. CASE Lose
  <2>1. /\ JobsTyped' /\ Numbered'
    BY <1>4 DEF Lose, JobsTyped, Numbered, Steps
  <2>2. QED
    BY <1>4, <2>1, ShortQueues DEF Lose, Exchange
<1>5. CASE Reconnect
  <2>1. /\ disk' = [j \in Jobs |-> IF disk[j] = "running" THEN "failed" ELSE disk[j]]
        /\ registered' = {} /\ waiting' = {} /\ running' = NoJob /\ step' = "idle"
        /\ log' = <<>> /\ next' = 1 /\ up' = TRUE /\ failing' = {}
        /\ asked' = <<List(0, NoJob)>> /\ answered' = <<>>
        /\ cursor' = 0 /\ conn' = "listing" /\ known' = {} /\ shown' = shown
    BY <1>5 DEF Reconnect, NoSequence
  <2>2. JobsTyped'
    BY <2>1 DEF JobsTyped, Steps, Status
  <2>3. NumberedLog(<<>>, 1)
    BY BoundsAssumption DEF NumberedLog
  <2>4. List(0, NoJob) \in Requests(1)
    BY DEF List, Requests, Lists
  <2>5. asked' \in Seq(Requests(1)) /\ answered' \in Seq(Replies(1))
    BY <2>1, <2>4, ShortQueues
  <2>6. 0 \in 0..(1 - 1)
    OBVIOUS
  <2>7. QED
    BY <2>1, <2>2, <2>3, <2>5, <2>6 DEF Exchange, Numbered
<1>6. CASE UNCHANGED vars
  BY <1>6 DEF vars, server, gui, JobsTyped, Numbered, Exchange
<1>7. QED
  BY <1>2, <1>3, <1>4, <1>5, <1>6

\* The first state.
LEMMA FeedStarts == Init => FeedInv
<1> SUFFICES ASSUME Init PROVE FeedInv
  OBVIOUS
<1>1. JobsTyped
  BY DEF Init, JobsTyped, Status, Steps
<1>2. Numbered
  BY BoundsAssumption DEF Init, Numbered, NumberedLog
<1>3. shown \in [Jobs -> Shown]
  BY DEF Init, Shown
<1>4. QED
  BY <1>1, <1>2, <1>3, ShortQueues DEF Init, FeedInv, Exchange

\* Every step.
LEMMA FeedInductive == FeedInv /\ [Next]_vars => FeedInv'
  BY WorkerTyped, ServeTyped, HandleTyped, OthersTyped DEF Next

\* The types hold in every reachable state.
THEOREM FeedInvariant == Spec => []FeedInv
  BY FeedStarts, FeedInductive, PTL DEF Spec

(***************************************************************************)
(* The cursor never passes the numbering of the sidecar it is used with,   *)
(* through polls that overlap, resyncs, lost sidecars and reconnects, for  *)
(* any length of log and page (pollOnce, connect).                         *)
(***************************************************************************)
THEOREM CursorNeverAhead == Spec => []CursorNotAhead
<1>1. FeedInv => CursorNotAhead
  BY DEF FeedInv, Numbered, NumberedLog, Exchange, CursorNotAhead
<1>2. QED
  BY <1>1, FeedInvariant, PTL


-----------------------------------------------------------------------------
(***************************************************************************)
(* Nothing is lost silently.  The cursor jumps to the number a reply names *)
(* and not to its last event, so a reply has to bring, with what is known  *)
(* already, everything up to that number; and a poll may only ask for what *)
(* follows a number whose news has arrived.                                *)
(***************************************************************************)
Numbers(q) == {e.sequence : e \in ToSet(q)}

SoundRequests(n, K) == {m \in Requests(n) : m.kind = "poll" => 1..m.after \subseteq K}

SoundReplies(n, K) ==
    {m \in Replies(n) :
        /\ m.kind = "events" => m.oldest_sequence..m.next_sequence \subseteq K \cup Numbers(m.events)
        /\ m.kind = "jobs" => m.resume <= m.upto}

NewsInv ==
    /\ 1..cursor \subseteq known
    /\ asked \in Seq(SoundRequests(next, known))
    /\ answered \in Seq(SoundReplies(next, known))

\* More numbers and more news: what was sound still is.
LEMMA SoundGrow ==
    ASSUME NEW n \in Nat, NEW m \in Nat, n <= m, NEW K, NEW L, K \subseteq L
    PROVE  /\ Seq(SoundRequests(n, K)) \subseteq Seq(SoundRequests(m, L))
           /\ Seq(SoundReplies(n, K)) \subseteq Seq(SoundReplies(m, L))
<1>1. Requests(n) \subseteq Requests(m) /\ Replies(n) \subseteq Replies(m)
  BY MessagesGrow
<1>2. SoundRequests(n, K) \subseteq SoundRequests(m, L)
  BY <1>1 DEF SoundRequests
<1>3. SoundReplies(n, K) \subseteq SoundReplies(m, L)
  BY <1>1 DEF SoundReplies
<1>4. QED
  BY <1>2, <1>3, SeqMonotonic

\* The positions of the events after a number.
Newer(q, after) == {i \in DOMAIN q : q[i].sequence > after}

\* A page that is not cut is what the log has after seen events.
LEMMA PageUncut ==
    ASSUME NEW q, NEW n, NumberedLog(q, n), NEW after \in Nat,
           Cardinality(Newer(q, after)) <= MaxPerPoll
    PROVE  LET newer == {i \in DOMAIN q : q[i].sequence > after}
               seen  == Len(q) - Cardinality(newer)
               page  == SubSeq(q, seen + 1, seen + Min({Cardinality(newer), MaxPerPoll}))
           IN  /\ DOMAIN page = 1..(Len(q) - seen) /\ Len(page) = Len(q) - seen
               /\ \A k \in 1..(Len(q) - seen) : page[k] = q[seen + k]
<1> DEFINE newer  == {i \in DOMAIN q : q[i].sequence > after}
           seen   == Len(q) - Cardinality(newer)
           size   == Min({Cardinality(newer), MaxPerPoll})
           page   == SubSeq(q, seen + 1, seen + size)
<1>1. /\ n \in Nat \ {0} /\ Len(q) \in Nat /\ Len(q) <= MaxRetained /\ Len(q) < n
      /\ q \in Seq(Events(n)) /\ DOMAIN q = 1..Len(q)
      /\ \A i \in 1..Len(q) : q[i].sequence = (n - 1 - Len(q)) + i
  BY DEF NumberedLog
<1>2. /\ IsFiniteSet(newer) /\ seen \in 0..Len(q) /\ newer = (seen + 1)..Len(q)
      /\ page \in Seq(Events(n))
  BY PageTyped
<1>3. MaxPerPoll \in Nat /\ MaxRetained \in Nat
  BY BoundsAssumption
<1>4. Cardinality(newer) = Len(q) - seen
  <2>1. Cardinality(newer) \in Nat
    BY <1>2, FS_CardinalityType
  <2> HIDE DEF newer
  <2>2. QED
    BY <1>1, <2>1
<1> HIDE DEF newer, seen
<1>5. size = Len(q) - seen
  <2>1. Cardinality(newer) \in Nat /\ Cardinality(newer) <= MaxPerPoll
    BY <1>2, FS_CardinalityType DEF newer, Newer
  <2>2. size = Cardinality(newer)
    BY <1>3, <2>1 DEF Min
  <2>3. QED
    BY <1>4, <2>2
<1> HIDE DEF size
<1>6. /\ DOMAIN page = 1..(Len(q) - seen) /\ Len(page) = Len(q) - seen
      /\ \A k \in 1..(Len(q) - seen) : page[k] = q[seen + k]
  <2>1. page = SubSeq(q, seen + 1, Len(q))
    BY <1>1, <1>2, <1>5
  <2>2. /\ seen + 1 \in Int /\ Len(q) \in Int
        /\ \A k \in (seen + 1)..Len(q) : q[k] \in Events(n)
    BY <1>1, <1>2
  <2> HIDE DEF page
  <2>3. /\ page \in Seq(Events(n))
        /\ Len(page) = IF seen + 1 <= Len(q) THEN Len(q) - (seen + 1) + 1 ELSE 0
        /\ \A k \in 1..(Len(q) - (seen + 1) + 1) : page[k] = q[(seen + 1) + k - 1]
    BY <2>1, <2>2, SubSeqProperties
  <2>4. /\ Len(q) - (seen + 1) + 1 = Len(q) - seen
        /\ seen + 1 <= Len(q) \/ Len(q) - seen = 0
        /\ \A k \in Int : (seen + 1) + k - 1 = seen + k
    <3>1. ASSUME NEW a \in Nat, NEW b \in Nat, a <= b
          PROVE  /\ b - (a + 1) + 1 = b - a
                 /\ a + 1 <= b \/ b - a = 0
                 /\ \A k \in Int : (a + 1) + k - 1 = a + k
      BY <3>1
    <3>2. seen \in Nat /\ Len(q) \in Nat /\ seen <= Len(q)
      BY <1>1, <1>2
    <3>3. QED
      BY <3>1, <3>2
  <2>5. Len(page) = Len(q) - seen
    <3>1. CASE seen + 1 <= Len(q)
      BY <2>3, <2>4, <3>1
    <3>2. CASE ~(seen + 1 <= Len(q))
      BY <2>3, <2>4, <3>2
    <3>3. QED
      BY <3>1, <3>2
  <2>6. ASSUME NEW k \in 1..(Len(q) - seen) PROVE page[k] = q[seen + k]
    <3>1. page[k] = q[(seen + 1) + k - 1]
      BY <2>3, <2>4
    <3>2. (seen + 1) + k - 1 = seen + k
      BY <2>4
    <3>3. QED
      BY <3>1, <3>2
  <2>7. QED
    BY <2>3, <2>5, <2>6
<1>7. QED
  BY <1>6 DEF newer, seen, size

\* A page that is not cut holds all that is newer than after.
LEMMA PageComplete ==
    ASSUME NEW q, NEW n, NumberedLog(q, n), NEW after \in Nat,
           Cardinality(Newer(q, after)) <= MaxPerPoll
    PROVE  LET newer  == {i \in DOMAIN q : q[i].sequence > after}
               seen   == Len(q) - Cardinality(newer)
               page   == SubSeq(q, seen + 1, seen + Min({Cardinality(newer), MaxPerPoll}))
               oldest == IF q = <<>> THEN n ELSE q[1].sequence
           IN  oldest..(n - 1) \subseteq 1..after \cup Numbers(page)
<1> DEFINE newer  == {i \in DOMAIN q : q[i].sequence > after}
           seen   == Len(q) - Cardinality(newer)
           size   == Min({Cardinality(newer), MaxPerPoll})
           page   == SubSeq(q, seen + 1, seen + size)
           oldest == IF q = <<>> THEN n ELSE q[1].sequence
<1>1. /\ n \in Nat \ {0} /\ Len(q) \in Nat /\ Len(q) <= MaxRetained /\ Len(q) < n
      /\ q \in Seq(Events(n)) /\ DOMAIN q = 1..Len(q)
      /\ \A i \in 1..Len(q) : q[i].sequence = (n - 1 - Len(q)) + i
  BY DEF NumberedLog
<1>2. seen \in 0..Len(q) /\ newer = (seen + 1)..Len(q)
  BY PageTyped
<1>3. /\ DOMAIN page = 1..(Len(q) - seen)
      /\ \A k \in 1..(Len(q) - seen) : page[k] = q[seen + k]
  BY PageUncut
<1> HIDE DEF newer, seen, size, page
<1>4. oldest = n - Len(q)
  <2>1. CASE q = <<>>
    BY <1>1, <2>1
  <2>2. CASE q # <<>>
    BY <1>1, <2>2
  <2>3. QED
    BY <2>1, <2>2
<1> HIDE DEF oldest
<1>5. ASSUME NEW s \in oldest..(n - 1), s > after PROVE s \in Numbers(page)
  <2> DEFINE i == s - (n - 1 - Len(q))
  <2>1. i \in 1..Len(q) /\ q[i].sequence = s
    BY <1>1, <1>4, <1>5
  <2>2. i \in newer
    BY <1>1, <1>5, <2>1 DEF newer
  <2>3. i \in (seen + 1)..Len(q)
    BY <1>2, <2>2 DEF newer, seen
  <2> HIDE DEF i
  <2>4. i - seen \in 1..(Len(q) - seen) /\ seen + (i - seen) = i
    BY <1>1, <1>2, <2>3
  <2>5. page[i - seen] \in ToSet(page) /\ page[i - seen] = q[i]
    BY <1>3, <2>4 DEF ToSet
  <2>6. QED
    BY <2>1, <2>4, <2>5 DEF Numbers
<1>6. ASSUME NEW s \in oldest..(n - 1) PROVE s \in 1..after \cup Numbers(page)
  <2>1. s \in Nat \ {0}
    BY <1>1, <1>4
  <2>2. QED
    BY <1>5, <2>1
<1>7. QED
  BY <1>6 DEF newer, seen, size, page, oldest

\* A sound request and a sound reply are a request and a reply.
LEMMA SoundOnes ==
    ASSUME NEW n, NEW K
    PROVE  /\ \A m \in SoundRequests(n, K) : m \in Requests(n)
           /\ \A m \in SoundReplies(n, K) : m \in Replies(n)
  BY DEF SoundRequests, SoundReplies

\* What is under way when only the numbering has grown, or the news.
LEMMA NewsKept ==
    ASSUME FeedInv, NewsInv, next' \in {next, next + 1}, known \subseteq known'
    PROVE  /\ asked \in Seq(SoundRequests(next', known'))
           /\ answered \in Seq(SoundReplies(next', known'))
<1>1. next \in Nat /\ next' \in Nat /\ next <= next'
  BY DEF FeedInv, Numbered, NumberedLog
<1>2. /\ Seq(SoundRequests(next, known)) \subseteq Seq(SoundRequests(next', known'))
      /\ Seq(SoundReplies(next, known)) \subseteq Seq(SoundReplies(next', known'))
  BY <1>1, SoundGrow
<1>3. QED
  BY <1>2 DEF NewsInv

\* The worker thread brings the GUI nothing and asks for nothing.
LEMMA WorkerKeepsNews ==
    ASSUME FeedInv, NewsInv, Worker
    PROVE  NewsInv'
<1>1. /\ next' \in {next, next + 1}
      /\ UNCHANGED <<asked, answered, cursor, known>>
  BY DEF Worker, Announce, DropCancelled, Begin, Skip, RaiseEarly, Settle, Saves, Progress, Report,
         Release, Emit, gui
<1>2. QED
  BY <1>1, NewsKept DEF NewsInv

\* A reply is added, the request is taken off.
LEMMA SoundReply ==
    ASSUME NEW R, NEW A, NEW q \in Seq(R), q # <<>>, NEW a \in Seq(A), NEW m \in A
    PROVE  Tail(q) \in Seq(R) /\ Append(a, m) \in Seq(A) /\ Head(q) \in R
  BY HeadTailProperties, AppendProperties

\* A poll is answered by all the events it asks for, not by a page of them.
PageNotCut == ServePoll => Cardinality(Newer(log, Head(asked).after)) <= MaxPerPoll

\* The sidecar serves a request: the page of a poll is complete, and a list
\* is as late as the number it lets the cursor resume from.
LEMMA ServeKeepsNews ==
    ASSUME FeedInv, NewsInv, Serve, PageNotCut
    PROVE  NewsInv'
<1>1. /\ asked # <<>> /\ UNCHANGED gui /\ next' \in {next, next + 1}
  BY DEF Serve, ServePoll, ServeList, ServeGet, ServeStart, RefuseRetry, ServeRetry, Serving, server,
         Emit
<1>2. next \in Nat \ {0}
  BY DEF FeedInv, Numbered, NumberedLog
<1>3. known' = known /\ cursor' = cursor
  BY <1>1 DEF gui
<1>4. ASSUME NEW m \in SoundReplies(next', known), Reply(m) PROVE NewsInv'
  <2>1. asked \in Seq(SoundRequests(next', known)) /\ answered \in Seq(SoundReplies(next', known))
    BY <1>1, <1>3, NewsKept
  <2>2. asked' \in Seq(SoundRequests(next', known)) /\ answered' \in Seq(SoundReplies(next', known))
    BY <1>1, <1>4, <2>1, SoundReply DEF Reply
  <2>3. QED
    BY <1>3, <2>2 DEF NewsInv
<1>5. ASSUME NEW m, Reply(m), m.kind \notin {"events", "jobs"} PROVE NewsInv'
  <2>1. m \in Replies(next')
    <3>1. FeedInv'
      BY ServeTyped
    <3>2. answered' \in Seq(Replies(next')) /\ answered' = Append(answered, m)
      BY <1>5, <3>1 DEF FeedInv, Exchange, Reply
    <3>3. answered \in Seq(Replies(next))
      BY DEF FeedInv, Exchange
    <3>4. Len(answered) \in Nat /\ Len(answered') = Len(answered) + 1
          /\ answered'[Len(answered) + 1] = m
      BY <3>2, <3>3
    <3>5. \A S : \A x \in Seq(S), k \in Nat : Len(x) = k + 1 => x[k + 1] \in S
      OBVIOUS
    <3>6. QED
      BY <3>2, <3>4, <3>5
  <2>2. QED
    BY <1>4, <1>5, <2>1 DEF SoundReplies
<1>6. Head(asked) \in SoundRequests(next, known)
  BY <1>1, HeadTailProperties DEF NewsInv
<1>7. CASE ServePoll
  <2> DEFINE after  == Head(asked).after
             newer  == {i \in DOMAIN log : log[i].sequence > after}
             seen   == Len(log) - Cardinality(newer)
             page   == SubSeq(log, seen + 1, seen + Min({Cardinality(newer), MaxPerPoll}))
             oldest == IF log = <<>> THEN next ELSE log[1].sequence
             m      == [kind |-> "events", events |-> page, next_sequence |-> next - 1,
                        oldest_sequence |-> oldest]
  <2>1. Reply(m) /\ next' = next
    BY <1>7 DEF ServePoll, server
  <2>2. Head(asked) \in Polls(next) /\ 1..after \subseteq known
    BY <1>6, <1>7, RequestKinds DEF ServePoll, Serving, SoundRequests
  <2>3. after \in Nat
    BY <1>2, <2>2 DEF Polls
  <2>4. oldest..(next - 1) \subseteq 1..after \cup Numbers(page)
    <3>1. Cardinality(Newer(log, after)) <= MaxPerPoll
      BY <1>7 DEF PageNotCut
    <3>2. NumberedLog(log, next)
      BY DEF FeedInv, Numbered
    <3> HIDE DEF after
    <3>3. QED
      BY <2>3, <3>1, <3>2, PageComplete
  <2>5. page \in Seq(Events(next))
    BY <2>3, PageTyped DEF FeedInv, Numbered
  <2>6. next - 1 \in 0..(next - 1)
    BY <1>2
  <2>7. oldest \in 1..next
    <3>1. log # <<>> => log[1] \in Events(next)
      BY DEF FeedInv, Numbered, NumberedLog
    <3>2. 1..(next - 1) \subseteq 1..next /\ next \in 1..next
      BY <1>2
    <3>3. QED
      BY <3>1, <3>2 DEF Events
  <2> HIDE DEF page, oldest, after
  <2>8. m \in Replies(next)
    BY <2>5, <2>6, <2>7 DEF Pages, Replies
  <2>9. m.oldest_sequence..m.next_sequence \subseteq known \cup Numbers(m.events)
    BY <2>2, <2>4
  <2>10. m \in SoundReplies(next, known)
    BY <2>8, <2>9 DEF SoundReplies
  <2>11. QED
    BY <1>4, <2>1, <2>10
<1>8. CASE ServeList
  <2> DEFINE m == [kind |-> "jobs", status |-> disk, upto |-> next - 1,
                   resume |-> Head(asked).resume, job |-> Head(asked).job]
  <2>1. Reply(m) /\ next' = next
    BY <1>8 DEF ServeList, server
  <2>2. Head(asked) \in Lists(next)
    BY <1>6, <1>8, RequestKinds DEF ServeList, Serving, SoundRequests
  <2>3. next - 1 \in 0..(next - 1) /\ \A r \in 0..(next - 1) : r <= next - 1
    BY <1>2
  <2>4. m \in Tables(next)
    BY <2>2, <2>3 DEF Lists, Tables, FeedInv, JobsTyped
  <2>5. m.resume <= m.upto
    BY <2>2, <2>3 DEF Lists
  <2>6. m \in SoundReplies(next, known)
    BY <2>4, <2>5 DEF SoundReplies, Replies
  <2>7. QED
    BY <1>4, <2>1, <2>6
<1>9. CASE ServeGet \/ ServeStart \/ RefuseRetry \/ ServeRetry
  BY <1>5, <1>9 DEF ServeGet, ServeStart, RefuseRetry, ServeRetry
<1>10. QED
  BY <1>7, <1>8, <1>9 DEF Serve

\* The queues when the GUI has handled a reply and asks for more.
LEMMA SoundThen ==
    ASSUME NEW R, NEW A, asked \in Seq(R), answered \in Seq(A), answered # <<>>,
           NEW requests \in Seq(R), Then(requests)
    PROVE  asked' \in Seq(R) /\ answered' \in Seq(A)
<1>1. asked \o requests \in Seq(R) /\ Tail(answered) \in Seq(A)
  BY ConcatProperties, HeadTailProperties
<1>2. QED
  BY <1>1 DEF Then

\* The GUI handles a reply: the cursor follows the news the reply brings, or
\* is left behind for a list when the log has dropped events it has not had.
LEMMA HandleKeepsNews ==
    ASSUME FeedInv, NewsInv, Handle
    PROVE  NewsInv'
<1> DEFINE reply == Head(answered)
<1>1. answered # <<>> /\ UNCHANGED server /\ known \subseteq known'
  BY DEF Handle, Resync, ApplyEvents, RefreshJobs, ShowJob, Started, Retried, Rejected, Handling, gui
<1>2. /\ next \in Nat \ {0} /\ next' = next /\ reply \in SoundReplies(next, known)
      /\ reply \in Replies(next) /\ cursor \in Nat
  BY <1>1, HeadTailProperties, SoundOnes
     DEF server, NewsInv, FeedInv, Exchange, Numbered, NumberedLog
<1> HIDE DEF reply
<1>3. ASSUME NEW requests \in Seq(SoundRequests(next, known')), Then(requests),
             1..cursor' \subseteq known'
      PROVE  NewsInv'
  <2>1. /\ asked \in Seq(SoundRequests(next, known'))
        /\ answered \in Seq(SoundReplies(next, known'))
    BY <1>1, <1>2, NewsKept
  <2>2. /\ asked' \in Seq(SoundRequests(next, known'))
        /\ answered' \in Seq(SoundReplies(next, known'))
    BY <1>1, <1>3, <2>1, SoundThen
  <2>3. QED
    BY <1>2, <1>3, <2>2 DEF NewsInv
<1>4. /\ <<>> \in Seq(SoundRequests(next, known'))
      /\ \A m \in SoundRequests(next, known') : <<m>> \in Seq(SoundRequests(next, known'))
  BY ShortQueues
<1>5. \A j \in Jobs : Of("get_job", j) \in SoundRequests(next, known')
  BY DEF Of, Requests, JobCalls, SoundRequests
<1>6. \A n \in 0..(next - 1), j \in Jobs \cup {NoJob} : List(n, j) \in SoundRequests(next, known')
  BY DEF List, Requests, Lists, SoundRequests
<1>7. UNCHANGED <<cursor, known>> => 1..cursor' \subseteq known'
  BY DEF NewsInv
<1>8. CASE Resync
  <2>1. reply \in Pages(next) /\ Then(<<List(reply.next_sequence, NoJob)>>) /\ UNCHANGED gui
    BY <1>2, <1>8, ReplyKinds DEF Resync, Handling, reply
  <2>2. List(reply.next_sequence, NoJob) \in SoundRequests(next, known')
    BY <1>6, <2>1 DEF Pages
  <2>3. QED
    BY <1>3, <1>4, <1>7, <2>1, <2>2 DEF gui
<1>9. CASE ApplyEvents
  <2>1. /\ reply \in Pages(next) /\ reply.kind = "events" /\ Then(<<>>) /\ ~Outrun(reply)
        /\ cursor' = IF reply.next_sequence > cursor THEN reply.next_sequence ELSE cursor
        /\ known' = known \cup Numbers(reply.events)
    BY <1>2, <1>9, ReplyKinds DEF ApplyEvents, Handling, Numbers, reply
  <2>2. /\ reply.next_sequence \in Nat /\ reply.oldest_sequence \in Nat
        /\ reply.oldest_sequence <= cursor + 1
    <3>1. reply.next_sequence \in 0..(next - 1) /\ reply.oldest_sequence \in 1..next
      BY <2>1 DEF Pages
    <3>2. QED
      BY <1>2, <2>1, <3>1 DEF Outrun
  <2>3. reply.oldest_sequence..reply.next_sequence \subseteq known'
    BY <1>2, <2>1 DEF SoundReplies
  <2>4. \A a, b, c \in Nat : b <= a + 1 => 1..c \subseteq 1..a \cup b..c
    OBVIOUS
  <2>5. 1..reply.next_sequence \subseteq 1..cursor \cup reply.oldest_sequence..reply.next_sequence
    BY <1>2, <2>2, <2>4
  <2>6. 1..cursor \subseteq known'
    BY <1>1 DEF NewsInv
  <2>7. 1..cursor' \subseteq known'
    BY <2>1, <2>3, <2>5, <2>6
  <2>8. QED
    BY <1>3, <1>4, <2>1, <2>7
<1>10. CASE RefreshJobs
  <2> DEFINE first  == IF conn = "listing" THEN <<Poll(cursor)>> ELSE <<>>
             second == IF reply.job # NoJob THEN <<Of("get_job", reply.job)>> ELSE <<>>
  <2>1. /\ reply \in Tables(next) /\ reply.kind = "jobs" /\ Then(first \o second)
        /\ cursor' = IF reply.resume # NoSequence THEN reply.resume ELSE cursor
        /\ known' = known \cup 1..reply.upto
    BY <1>2, <1>10, ReplyKinds DEF RefreshJobs, Handling, reply
  <2>2. reply.job \in Jobs \cup {NoJob} /\ reply.resume \in Nat /\ reply.upto \in Nat
    <3>1. /\ reply.job \in Jobs \cup {NoJob} /\ reply.resume \in 0..(next - 1)
          /\ reply.upto \in 0..(next - 1)
      BY <2>1 DEF Tables
    <3>2. QED
      BY <3>1
  <2>3. reply.resume <= reply.upto
    BY <1>2, <2>1 DEF SoundReplies
  <2>4. 1..cursor \subseteq known' /\ 1..reply.resume \subseteq known'
    <3>1. 1..reply.resume \subseteq 1..reply.upto
      BY <2>2, <2>3
    <3>2. QED
      BY <1>1, <2>1, <3>1 DEF NewsInv
  <2>5. first \in Seq(SoundRequests(next, known'))
    <3>1. Poll(cursor) \in Requests(next)
      BY DEF Poll, Requests, Polls, FeedInv, Exchange
    <3>2. Poll(cursor) \in SoundRequests(next, known')
      BY <2>4, <3>1 DEF Poll, SoundRequests
    <3>3. QED
      BY <1>4, <3>2
  <2>6. second \in Seq(SoundRequests(next, known'))
    BY <1>4, <1>5, <2>2
  <2> HIDE DEF first, second
  <2>7. first \o second \in Seq(SoundRequests(next, known'))
    BY <2>5, <2>6, ConcatProperties
  <2>8. 1..cursor' \subseteq known'
    BY <2>1, <2>4
  <2>9. QED
    BY <1>3, <2>1, <2>7, <2>8
<1>11. CASE ShowJob \/ Rejected
  BY <1>3, <1>4, <1>7, <1>11 DEF ShowJob, Rejected
<1>12. CASE Started \/ Retried
  <2>1. reply \in Accepted /\ UNCHANGED gui
    BY <1>2, <1>12, ReplyKinds DEF Started, Retried, Handling, reply
  <2>2. PICK m \in SoundRequests(next, known') : Then(<<m>>)
    <3>1. reply.job \in Jobs /\ NoSequence \in 0..(next - 1)
      BY <1>2, <2>1 DEF Accepted, NoSequence
    <3>2. QED
      BY <1>5, <1>6, <1>12, <3>1 DEF Started, Retried, reply
  <2>3. QED
    BY <1>3, <1>4, <1>7, <2>1, <2>2 DEF gui
<1>13. QED
  BY <1>8, <1>9, <1>10, <1>11, <1>12 DEF Handle

\* The GUI asks from where it is, or starts over with an empty log.
LEMMA OthersKeepNews ==
    ASSUME FeedInv, NewsInv,
           \/ PollTimer \/ Lose \/ Reconnect \/ UNCHANGED vars
           \/ \E j \in Jobs : StartClicked(j) \/ RetryClicked(j) \/ DetailsOpened(j)
    PROVE  NewsInv'
<1>1. ASSUME NEW m \in SoundRequests(next, known), Send(m) PROVE NewsInv'
  <2>1. \A S : \A x \in Seq(S), z \in S : Append(x, z) \in Seq(S)
    BY AppendProperties
  <2>2. asked' \in Seq(SoundRequests(next, known)) /\ UNCHANGED <<server, answered, gui>>
    BY <1>1, <2>1 DEF Send, NewsInv
  <2>3. QED
    BY <2>2 DEF server, gui, NewsInv
<1>2. CASE PollTimer
  <2>1. Poll(cursor) \in Requests(next)
    BY DEF Poll, Requests, Polls, FeedInv, Exchange
  <2>2. Poll(cursor) \in SoundRequests(next, known)
    BY <2>1 DEF Poll, SoundRequests, NewsInv
  <2>3. QED
    BY <1>1, <1>2, <2>2 DEF PollTimer
<1>3. CASE \E j \in Jobs : StartClicked(j) \/ RetryClicked(j) \/ DetailsOpened(j)
  <2>1. \A method \in {"start_translation", "retry_job", "get_job"}, j \in Jobs :
          Of(method, j) \in SoundRequests(next, known)
    BY DEF Of, Requests, JobCalls, SoundRequests
  <2>2. QED
    BY <1>1, <1>3, <2>1 DEF StartClicked, RetryClicked, DetailsOpened
<1>4. CASE Lose
  BY <1>4, ShortQueues DEF Lose, NewsInv
<1>5. CASE Reconnect
  <2>1. /\ next' = 1 /\ asked' = <<List(0, NoJob)>> /\ answered' = <<>> /\ cursor' = 0
        /\ known' = {}
    BY <1>5 DEF Reconnect, NoSequence
  <2>2. List(0, NoJob) \in SoundRequests(1, {})
    BY DEF List, Requests, Lists, SoundRequests
  <2>3. asked' \in Seq(SoundRequests(1, {})) /\ answered' \in Seq(SoundReplies(1, {}))
    BY <2>1, <2>2, ShortQueues
  <2>4. QED
    BY <2>1, <2>3 DEF NewsInv
<1>6. CASE UNCHANGED vars
  BY <1>6 DEF vars, server, gui, NewsInv
<1>7. QED
  BY <1>2, <1>3, <1>4, <1>5, <1>6

(***************************************************************************)
(* Only a page that is cut loses anything: as long as no poll finds more   *)
(* events than fit a page, the cursor never passes an event whose news the *)
(* GUI has not had, whatever polls overlap and however often the log drops *)
(* events, the list is asked for, or the sidecar is lost and started again *)
(* (_poll_events, pollOnce).  Sizes of log and page are any at all.        *)
(***************************************************************************)
THEOREM OnlyCutPagesLose ==
    Spec /\ [][PageNotCut]_vars => []NoSilentLoss
<1>1. Init => NewsInv
  BY ShortQueues DEF Init, NewsInv
<1>2. FeedInv /\ NewsInv /\ [Next]_vars /\ [PageNotCut]_vars => NewsInv'
  BY WorkerKeepsNews, ServeKeepsNews, HandleKeepsNews, OthersKeepNews DEF Next
<1>3. NewsInv => NoSilentLoss
  BY DEF NewsInv, NoSilentLoss
<1>4. QED
  BY <1>1, <1>2, <1>3, FeedInvariant, PTL DEF Spec

\* No page is cut when a page can hold what the log can hold.
LEMMA LongPagesFit ==
    ASSUME MaxPerPoll >= MaxRetained
    PROVE  Spec => [][PageNotCut]_vars
<1>1. ASSUME FeedInv, ServePoll
      PROVE  Cardinality(Newer(log, Head(asked).after)) <= MaxPerPoll
  <2> DEFINE after == Head(asked).after
  <2>1. after \in Nat
    <3>1. Head(asked) \in Requests(next)
      BY <1>1, HeadTailProperties DEF ServePoll, Serving, FeedInv, Exchange
    <3>2. Head(asked) \in Polls(next) /\ next \in Nat
      BY <1>1, <3>1, RequestKinds DEF ServePoll, Serving, FeedInv, Numbered, NumberedLog
    <3>3. QED
      BY <3>2 DEF Polls
  <2> HIDE DEF after
  <2>2. NumberedLog(log, next)
    BY <1>1 DEF FeedInv, Numbered
  <2>3. /\ IsFiniteSet(Newer(log, after))
        /\ Len(log) - Cardinality(Newer(log, after)) \in 0..Len(log)
    BY <2>1, <2>2, PageTyped DEF Newer
  <2>4. Len(log) \in Nat /\ Len(log) <= MaxRetained /\ Cardinality(Newer(log, after)) \in Nat
    BY <2>2, <2>3, FS_CardinalityType DEF NumberedLog
  <2>5. \A a, b, c, d \in Nat : a - b \in 0..a /\ a <= c /\ d >= c => b <= d
    OBVIOUS
  <2>6. QED
    BY <2>3, <2>4, <2>5, BoundsAssumption DEF after
<1>2. FeedInv /\ [Next]_vars => [PageNotCut]_vars
  BY <1>1 DEF PageNotCut
<1>3. QED
  BY <1>2, FeedInvariant, PTL DEF Spec

\* So with pages as long as the log nothing is lost silently (Feed).
COROLLARY NothingLostSilently ==
    ASSUME MaxPerPoll >= MaxRetained
    PROVE  Spec => []NoSilentLoss
  BY LongPagesFit, OnlyCutPagesLose, PTL

-----------------------------------------------------------------------------
(***************************************************************************)
(* The bound on the events of one sidecar: each run accepted has room for  *)
(* the events it still owes, and so has a run that is only asked for.      *)
(***************************************************************************)
RunKinds == {"start_translation", "retry_job"}
RunsIn(q) == {i \in DOMAIN q : q[i].kind \in RunKinds}

\* At most one run is asked for, and a start is not for an outstanding job.
OneRun(q, busy) ==
    /\ \A i, k \in RunsIn(q) : i = k
    /\ \A i \in DOMAIN q : q[i].kind = "start_translation" => q[i].job \notin busy

Owed(w, s, q) ==
    2 * Cardinality(w) + (IF s \in {"idle", "reported"} THEN 0 ELSE 1)
        + (IF RunsIn(q) = {} THEN 0 ELSE 3)

RoomInv ==
    /\ IsFiniteSet(waiting) /\ running \notin waiting /\ Outstanding \subseteq registered
    /\ OneRun(asked, Outstanding)
    /\ next + Owed(waiting, step, asked) <= MaxEvents + 1

\* The oldest request is taken off.
LEMMA RunsInTail ==
    ASSUME NEW S, NEW q \in Seq(S), q # <<>>, NEW busy, OneRun(q, busy)
    PROVE  /\ OneRun(Tail(q), busy)
           /\ RunsIn(q) = {} => RunsIn(Tail(q)) = {}
           /\ Head(q).kind \in RunKinds => RunsIn(Tail(q)) = {} /\ RunsIn(q) # {}
           /\ Head(q).kind = "start_translation" => Head(q).job \notin busy
<1> DEFINE t == Tail(q)
<1>1. /\ Len(q) \in Nat \ {0} /\ DOMAIN q = 1..Len(q)
      /\ Head(q) = q[1] /\ DOMAIN t = 1..(Len(q) - 1)
      /\ \A i \in 1..(Len(q) - 1) : t[i] = q[i + 1]
  <2>1. /\ t \in Seq(S) /\ Len(t) = Len(q) - 1 /\ Head(q) = q[1]
        /\ \A i \in 1..Len(t) : t[i] = q[i + 1]
    BY HeadTailProperties
  <2>2. Len(q) \in Nat \ {0} /\ DOMAIN q = 1..Len(q)
    OBVIOUS
  <2> HIDE DEF t
  <2>3. DOMAIN t = 1..Len(t)
    BY <2>1
  <2>4. QED
    BY <2>1, <2>2, <2>3
<1> HIDE DEF t
<1>2. \A i \in DOMAIN t : i + 1 \in DOMAIN q /\ t[i] = q[i + 1] /\ i + 1 # 1 /\ i \in Int
  BY <1>1
<1>3. \A i \in RunsIn(t) : i + 1 \in RunsIn(q) /\ i + 1 # 1 /\ i \in Int
  BY <1>2 DEF RunsIn
<1>4. 1 \in DOMAIN q
  BY <1>1
<1>5. OneRun(t, busy)
  <2>1. \A i, k \in RunsIn(t) : i = k
    <3>1. ASSUME NEW i \in RunsIn(t), NEW k \in RunsIn(t) PROVE i = k
      <4>1. i + 1 = k + 1
        BY <1>3 DEF OneRun
      <4>2. QED
        BY <1>3, <4>1
    <3>2. QED
      BY <3>1
  <2>2. QED
    BY <1>2, <2>1 DEF OneRun
<1>6. Head(q).kind \in RunKinds => RunsIn(t) = {} /\ RunsIn(q) # {}
  <2>1. Head(q).kind \in RunKinds => 1 \in RunsIn(q)
    BY <1>1, <1>4 DEF RunsIn
  <2>2. QED
    BY <1>3, <2>1 DEF OneRun
<1>7. Head(q).kind = "start_translation" => Head(q).job \notin busy
  BY <1>1, <1>4 DEF OneRun
<1>8. QED
  BY <1>3, <1>5, <1>6, <1>7 DEF t

\* Requests that ask for no run are added.
LEMMA RunsInConcat ==
    ASSUME NEW S, NEW q \in Seq(S), NEW T, NEW r \in Seq(T),
           \A i \in DOMAIN r : r[i].kind \notin RunKinds, NEW busy, OneRun(q, busy)
    PROVE  OneRun(q \o r, busy) /\ (RunsIn(q) = {} => RunsIn(q \o r) = {})
<1> DEFINE c == q \o r
<1>1. /\ Len(q) \in Nat /\ Len(r) \in Nat /\ DOMAIN q = 1..Len(q) /\ DOMAIN r = 1..Len(r)
      /\ DOMAIN c = 1..(Len(q) + Len(r))
      /\ \A i \in 1..(Len(q) + Len(r)) : c[i] = IF i <= Len(q) THEN q[i] ELSE r[i - Len(q)]
  OBVIOUS
<1> HIDE DEF c
<1>2. ASSUME NEW i \in DOMAIN c, c[i].kind \in RunKinds
      PROVE  i \in DOMAIN q /\ c[i] = q[i]
  <2>1. CASE i <= Len(q)
    BY <1>1, <2>1
  <2>2. CASE ~(i <= Len(q))
    <3>1. i - Len(q) \in DOMAIN r /\ c[i] = r[i - Len(q)]
      BY <1>1, <2>2
    <3>2. QED
      BY <1>2, <3>1
  <2>3. QED
    BY <2>1, <2>2
<1>3. RunsIn(c) \subseteq RunsIn(q)
  BY <1>2 DEF RunsIn
<1>4. \A i \in DOMAIN c : c[i].kind = "start_translation" => c[i].job \notin busy
  BY <1>2 DEF OneRun, RunKinds
<1>5. QED
  BY <1>3, <1>4 DEF OneRun, c

\* One request is added.
LEMMA RunsInAppend ==
    ASSUME NEW S, NEW q \in Seq(S), NEW m \in S, NEW busy, OneRun(q, busy),
           m.kind \in RunKinds => RunsIn(q) = {},
           m.kind = "start_translation" => m.job \notin busy
    PROVE  /\ OneRun(Append(q, m), busy)
           /\ RunsIn(q) = {} /\ m.kind \notin RunKinds => RunsIn(Append(q, m)) = {}
<1> DEFINE c == Append(q, m)
<1>1. /\ Len(q) \in Nat /\ DOMAIN q = 1..Len(q) /\ DOMAIN c = 1..(Len(q) + 1)
      /\ \A i \in 1..Len(q) : c[i] = q[i]
      /\ c[Len(q) + 1] = m
  OBVIOUS
<1> HIDE DEF c
<1>2. \A i \in DOMAIN c : (i \in DOMAIN q /\ c[i] = q[i]) \/ (i = Len(q) + 1 /\ c[i] = m)
  BY <1>1
<1>3. \A i \in RunsIn(c) : i \in RunsIn(q) \/ (i = Len(q) + 1 /\ m.kind \in RunKinds)
  BY <1>2 DEF RunsIn
<1>4. \A i, k \in RunsIn(c) : i = k
  BY <1>3 DEF OneRun
<1>5. \A i \in DOMAIN c : c[i].kind = "start_translation" => c[i].job \notin busy
  BY <1>2 DEF OneRun
<1>6. QED
  BY <1>3, <1>4, <1>5 DEF OneRun, c

\* What is owed is a number.
LEMMA OwedNat ==
    ASSUME NEW w, IsFiniteSet(w), NEW s, NEW q
    PROVE  Owed(w, s, q) \in Nat /\ Owed(w, s, q) >= 2 * Cardinality(w) /\ Cardinality(w) \in Nat
  BY FS_CardinalityType DEF Owed

\* A run moves on or ends; the queue of requests is the same.
LEMMA WorkerHasRoom ==
    ASSUME FeedInv, RoomInv, Worker
    PROVE  RoomInv'
<1>1. next \in Nat /\ MaxEvents \in Nat /\ Cardinality(waiting) \in Nat
  BY BoundsAssumption, FS_CardinalityType DEF FeedInv, Numbered, NumberedLog, RoomInv
<1>2. UNCHANGED asked
  BY DEF Worker, Announce, DropCancelled, Begin, Skip, RaiseEarly, Settle, Saves, Progress, Report,
         Release
<1>3. ASSUME NEW j \in Jobs, Announce(j) \/ DropCancelled(j) PROVE RoomInv'
  <2>1. /\ running = NoJob /\ j \in waiting /\ j # NoJob /\ step = "idle"
        /\ waiting' = waiting \ {j} /\ running' = j /\ step' \in {"announced", "dropped"}
        /\ next' = next \/ next' = next + 1
        /\ registered' = registered
    BY <1>3, JobsAssumption DEF Announce, DropCancelled, Emit, FeedInv, JobsTyped
  <2>2. IsFiniteSet(waiting') /\ Cardinality(waiting') = Cardinality(waiting) - 1
    BY <2>1, FS_RemoveElement DEF RoomInv
  <2>3. Outstanding' = Outstanding
    BY <2>1 DEF Outstanding
  <2>4. next' + Owed(waiting', step', asked') <= MaxEvents + 1
    BY <1>1, <1>2, <2>1, <2>2 DEF RoomInv, Owed
  <2>5. QED
    BY <1>2, <2>1, <2>2, <2>3, <2>4 DEF RoomInv
<1>4. ASSUME NEW from \in Steps \ {"idle", "reported"}, NEW to \in Steps \ {"idle", "reported"},
             NEW stat, Saves(from, to, stat)
      PROVE  RoomInv'
  <2>1. /\ step = from /\ step' = to
        /\ UNCHANGED <<registered, waiting, running, next, asked>>
    BY <1>4 DEF Saves
  <2>2. Owed(waiting', step', asked') = Owed(waiting, step, asked)
    BY <2>1 DEF Owed
  <2>3. Outstanding' = Outstanding
    BY <2>1 DEF Outstanding
  <2>4. QED
    BY <2>1, <2>2, <2>3 DEF RoomInv
<1>5. CASE Begin \/ Skip \/ RaiseEarly
  BY <1>4, <1>5 DEF Begin, Skip, RaiseEarly, Steps
<1>6. CASE \E outcome \in Outcomes : Settle(outcome)
  BY <1>4, <1>6 DEF Settle, Steps
<1>7. CASE Progress
  <2>1. /\ step = "running" /\ Room(1) /\ next' = next + 1
        /\ UNCHANGED <<registered, waiting, running, step, asked>>
    BY <1>7 DEF Progress, Emit
  <2>2. running # NoJob /\ running \notin waiting /\ IsFiniteSet(waiting)
    BY <2>1 DEF FeedInv, JobsTyped, RoomInv
  <2>3. Outstanding = waiting \cup {running}
    BY <2>2 DEF Outstanding
  <2>4. Cardinality(Outstanding) = Cardinality(waiting) + 1
    BY <2>2, <2>3, FS_AddElement
  <2>5. Requested = RunsIn(asked)
    BY DEF Requested, RunsIn, RunKinds
  <2>6. Cardinality(Requested) \in Nat /\ (Requested # {} => Cardinality(Requested) >= 1)
    <3>1. DOMAIN asked = 1..Len(asked) /\ Len(asked) \in Nat
      BY DEF FeedInv, Exchange
    <3>2. IsFiniteSet(Requested)
      <4>1. IsFiniteSet(DOMAIN asked)
        BY <3>1, FS_Interval
      <4>2. Requested \subseteq DOMAIN asked
        BY DEF Requested
      <4>3. QED
        BY <4>1, <4>2, FS_Subset
    <3>3. QED
      BY <3>2, FS_CardinalityType, FS_EmptySet
  <2>7. next' + Owed(waiting', step', asked') <= MaxEvents + 1
    BY <1>1, <2>1, <2>4, <2>5, <2>6 DEF Owed, Room
  <2>8. Outstanding' = Outstanding
    BY <2>1 DEF Outstanding
  <2>9. QED
    BY <2>1, <2>7, <2>8 DEF RoomInv
<1>8. CASE Report
  <2>1. /\ step \in {"settled", "raised", "dropped"} /\ step' \in {"idle", "reported"}
        /\ next' = next + 1 /\ running' \in {running, NoJob}
        /\ UNCHANGED <<registered, waiting, asked>>
    BY <1>8 DEF Report, Emit
  <2>2. next' + Owed(waiting', step', asked') <= MaxEvents + 1
    BY <1>1, <2>1 DEF Owed, RoomInv
  <2>3. Outstanding' \subseteq Outstanding
    BY <2>1 DEF Outstanding
  <2>4. running' \notin waiting'
    BY <2>1, JobsAssumption DEF RoomInv, FeedInv, JobsTyped
  <2>5. QED
    BY <2>1, <2>2, <2>3, <2>4 DEF RoomInv, OneRun
<1>9. CASE Release
  <2>1. /\ step = "reported" /\ step' = "idle" /\ running' = NoJob
        /\ registered' = registered \ {running} /\ UNCHANGED <<waiting, next, asked>>
    BY <1>9 DEF Release
  <2>2. Owed(waiting', step', asked') = Owed(waiting, step, asked)
    BY <2>1 DEF Owed
  <2>3. Outstanding' = waiting /\ running' \notin waiting'
    BY <2>1, JobsAssumption DEF Outstanding, FeedInv, JobsTyped
  <2>4. waiting \subseteq registered' /\ waiting \subseteq Outstanding
    BY <2>1 DEF RoomInv, Outstanding
  <2>5. QED
    BY <2>1, <2>2, <2>3, <2>4 DEF RoomInv, OneRun
<1>10. QED
  BY <1>3, <1>5, <1>6, <1>7, <1>8, <1>9 DEF Worker

\* A request is served: a run that was asked for owes what it was given room
\* for.
LEMMA ServeHasRoom ==
    ASSUME FeedInv, RoomInv, Serve
    PROVE  RoomInv'
<1>1. next \in Nat /\ MaxEvents \in Nat /\ Cardinality(waiting) \in Nat
  BY BoundsAssumption, FS_CardinalityType DEF FeedInv, Numbered, NumberedLog, RoomInv
<1>2. asked # <<>> /\ asked' = Tail(asked) /\ UNCHANGED <<running, step>>
  BY DEF Serve, ServePoll, ServeList, ServeGet, ServeStart, RefuseRetry, ServeRetry, Serving, Reply,
         server
<1>3. asked \in Seq(Requests(next)) /\ OneRun(asked, Outstanding)
  BY DEF FeedInv, Exchange, RoomInv
<1>4. /\ OneRun(asked', Outstanding)
      /\ RunsIn(asked) = {} => RunsIn(asked') = {}
      /\ Head(asked).kind \in RunKinds => RunsIn(asked') = {} /\ RunsIn(asked) # {}
      /\ Head(asked).kind = "start_translation" => Head(asked).job \notin Outstanding
  BY <1>2, <1>3, RunsInTail
<1>5. CASE ServePoll \/ ServeList \/ ServeGet \/ RefuseRetry
  <2>1. UNCHANGED <<waiting, registered, next>>
    BY <1>5 DEF ServePoll, ServeList, ServeGet, RefuseRetry, server
  <2>2. Outstanding' = Outstanding
    BY <1>2, <2>1 DEF Outstanding
  <2>3. next' + Owed(waiting', step', asked') <= MaxEvents + 1
    BY <1>1, <1>2, <1>4, <2>1 DEF RoomInv, Owed
  <2>4. QED
    BY <1>2, <1>4, <2>1, <2>2, <2>3 DEF RoomInv
<1>6. CASE ServeStart \/ ServeRetry
  <2> DEFINE j == Head(asked).job
  <2>1. /\ waiting' = waiting \cup {j} /\ registered' = registered \cup {j} /\ next' = next + 1
        /\ Head(asked).kind \in RunKinds
        /\ Head(asked).kind = "start_translation" \/ j \notin registered
    BY <1>6 DEF ServeStart, ServeRetry, Serving, RunKinds, Emit
  <2>2. j \notin Outstanding /\ j \in Jobs
    <3>1. Head(asked) \in JobCalls
      BY <1>2, <1>3, <2>1, HeadTailProperties, RequestKinds DEF RunKinds
    <3>2. QED
      BY <1>4, <2>1, <3>1 DEF RoomInv, JobCalls
  <2> HIDE DEF j
  <2>3. j \notin waiting /\ j # running /\ IsFiniteSet(waiting)
    BY <2>2, JobsAssumption DEF Outstanding, RoomInv
  <2>4. IsFiniteSet(waiting') /\ Cardinality(waiting') = Cardinality(waiting) + 1
    BY <2>1, <2>3, FS_AddElement
  <2>5. next' + Owed(waiting', step', asked') <= MaxEvents + 1
    BY <1>1, <1>2, <1>4, <2>1, <2>4 DEF RoomInv, Owed
  <2>6. OneRun(asked', Outstanding')
    BY <1>4, <2>1 DEF OneRun, RunsIn, RunKinds
  <2>7. Outstanding' \subseteq registered' /\ running' \notin waiting'
    BY <1>2, <2>1, <2>3 DEF RoomInv, Outstanding
  <2>8. QED
    BY <2>4, <2>5, <2>6, <2>7 DEF RoomInv
<1>7. QED
  BY <1>5, <1>6 DEF Serve

\* A reply is handled: what is asked for then is not a run.
LEMMA HandleHasRoom ==
    ASSUME FeedInv, RoomInv, Handle
    PROVE  RoomInv'
<1>1. UNCHANGED <<registered, waiting, running, step, next>>
  BY DEF Handle, Resync, ApplyEvents, RefreshJobs, ShowJob, Started, Retried, Rejected, server
<1>2. next \in Nat /\ MaxEvents \in Nat /\ Cardinality(waiting) \in Nat
  BY BoundsAssumption, FS_CardinalityType DEF FeedInv, Numbered, NumberedLog, RoomInv
<1>3. ASSUME NEW T, NEW r \in Seq(T), \A i \in DOMAIN r : r[i].kind \notin RunKinds, Then(r)
      PROVE  RoomInv'
  <2>1. asked \in Seq(Requests(next)) /\ asked' = asked \o r
    BY <1>3 DEF FeedInv, Exchange, Then
  <2>2. OneRun(asked', Outstanding) /\ (RunsIn(asked) = {} => RunsIn(asked') = {})
    BY <1>3, <2>1, RunsInConcat DEF RoomInv
  <2>3. Outstanding' = Outstanding
    BY <1>1 DEF Outstanding
  <2>4. next' + Owed(waiting', step', asked') <= MaxEvents + 1
    BY <1>1, <1>2, <2>2 DEF RoomInv, Owed
  <2>5. QED
    BY <1>1, <2>2, <2>3, <2>4 DEF RoomInv
<1>4. ASSUME Then(<<>>) PROVE RoomInv'
  <2>1. <<>> \in Seq({}) /\ DOMAIN <<>> = {}
    OBVIOUS
  <2>2. QED
    BY <1>3, <1>4, <2>1
<1>5. ASSUME NEW m, m.kind \notin RunKinds, Then(<<m>>) PROVE RoomInv'
  <2>1. <<m>> \in Seq({m}) /\ DOMAIN <<m>> = {1} /\ <<m>>[1] = m
    OBVIOUS
  <2>2. QED
    BY <1>3, <1>5, <2>1
<1>6. CASE Resync \/ Started \/ Retried
  BY <1>5, <1>6 DEF Resync, Started, Retried, List, Of, RunKinds
<1>7. CASE ApplyEvents \/ ShowJob \/ Rejected
  BY <1>4, <1>7 DEF ApplyEvents, ShowJob, Rejected
<1>8. CASE RefreshJobs
  <2> DEFINE job    == Head(answered).job
             first  == IF conn = "listing" THEN <<Poll(cursor)>> ELSE <<>>
             second == IF job # NoJob THEN <<Of("get_job", job)>> ELSE <<>>
             T      == {Poll(cursor), Of("get_job", job)}
             r      == first \o second
  <2>1. Then(r)
    BY <1>8 DEF RefreshJobs
  <2>2. first \in Seq(T) /\ second \in Seq(T)
    BY ShortQueues
  <2>3. \A m \in T : m.kind \notin RunKinds
    BY DEF Poll, Of, RunKinds
  <2> HIDE DEF first, second, T
  <2>4. r \in Seq(T)
    BY <2>2, ConcatProperties
  <2> HIDE DEF r
  <2>5. \A i \in DOMAIN r : r[i] \in T
    BY <2>4
  <2>6. QED
    BY <1>3, <2>1, <2>3, <2>4, <2>5
<1>9. QED
  BY <1>6, <1>7, <1>8 DEF Handle

\* A run is asked for only when it has room.
LEMMA OthersHaveRoom ==
    ASSUME FeedInv, RoomInv,
           \/ PollTimer \/ Lose \/ Reconnect \/ UNCHANGED vars
           \/ \E j \in Jobs : StartClicked(j) \/ RetryClicked(j) \/ DetailsOpened(j)
    PROVE  RoomInv'
<1>1. next \in Nat /\ MaxEvents \in Nat \ {0} /\ Cardinality(waiting) \in Nat
  BY BoundsAssumption, FS_CardinalityType DEF FeedInv, Numbered, NumberedLog, RoomInv
<1>2. ASSUME NEW m, Send(m)
      PROVE  /\ UNCHANGED <<registered, waiting, running, step, next>> /\ asked' = Append(asked, m)
             /\ asked \in Seq(Requests(next) \cup {m}) /\ Outstanding' = Outstanding
  <2>1. UNCHANGED <<registered, waiting, running, step, next>> /\ asked' = Append(asked, m)
    BY <1>2 DEF Send, server
  <2>2. asked \in Seq(Requests(next) \cup {m})
    <3>1. Requests(next) \subseteq Requests(next) \cup {m}
      OBVIOUS
    <3>2. QED
      BY <3>1, SeqMonotonic DEF FeedInv, Exchange
  <2>3. QED
    BY <2>1, <2>2 DEF Outstanding
<1>3. ASSUME NEW m, Send(m), m.kind \notin RunKinds PROVE RoomInv'
  <2>1. /\ UNCHANGED <<registered, waiting, running, step, next>> /\ asked' = Append(asked, m)
        /\ asked \in Seq(Requests(next) \cup {m}) /\ Outstanding' = Outstanding
    BY <1>2, <1>3
  <2>2. OneRun(asked', Outstanding) /\ (RunsIn(asked) = {} => RunsIn(asked') = {})
    <3>1. m \in Requests(next) \cup {m} /\ m.kind # "start_translation"
      BY <1>3 DEF RunKinds
    <3>2. OneRun(asked, Outstanding)
      BY DEF RoomInv
    <3>3. QED
      BY <1>3, <2>1, <3>1, <3>2, RunsInAppend
  <2>3. next' + Owed(waiting', step', asked') <= MaxEvents + 1
    BY <1>1, <2>1, <2>2 DEF RoomInv, Owed
  <2>4. QED
    BY <2>1, <2>2, <2>3 DEF RoomInv
<1>4. ASSUME NEW m, Send(m), MayAsk, m.kind = "start_translation" => m.job \notin Outstanding
      PROVE  RoomInv'
  <2>1. RunsIn(asked) = {} /\ Requested = {} /\ Room(3)
    BY <1>4 DEF MayAsk, Requested, RunsIn, RunKinds
  <2> /\ UNCHANGED <<registered, waiting, running, step, next>> /\ asked' = Append(asked, m)
      /\ asked \in Seq(Requests(next) \cup {m}) /\ Outstanding' = Outstanding
    BY <1>2, <1>4
  <2>2. OneRun(asked', Outstanding)
    <3>1. m \in Requests(next) \cup {m} /\ OneRun(asked, Outstanding)
      BY DEF RoomInv
    <3>2. QED
      BY <1>4, <2>1, <3>1, RunsInAppend
  <2>4. Cardinality(Outstanding) = Cardinality(waiting) + (IF step = "idle" THEN 0 ELSE 1)
    <3>1. CASE step = "idle"
      <4>1. Outstanding = waiting
        BY <3>1 DEF Outstanding, FeedInv, JobsTyped
      <4>2. QED
        BY <1>1, <3>1, <4>1
    <3>2. CASE step # "idle"
      <4>1. Outstanding = waiting \cup {running}
        BY <3>2 DEF Outstanding, FeedInv, JobsTyped
      <4>2. QED
        BY <3>2, <4>1, FS_AddElement DEF RoomInv
    <3>3. QED
      BY <3>1, <3>2
  <2>3. next + 3 + 2 * Cardinality(Outstanding) <= MaxEvents + 1
    <3>1. Cardinality(Requested) = 0 /\ Cardinality(Outstanding) \in Nat
      BY <1>1, <2>1, <2>4, FS_EmptySet
    <3>2. QED
      BY <1>1, <2>1, <3>1 DEF Room
  <2>5. next' + Owed(waiting', step', asked') <= MaxEvents + 1
    BY <1>1, <2>3, <2>4 DEF Owed
  <2>6. QED
    BY <2>2, <2>5 DEF RoomInv
<1>5. CASE PollTimer \/ \E j \in Jobs : DetailsOpened(j)
  BY <1>3, <1>5 DEF PollTimer, DetailsOpened, Poll, Of, RunKinds
<1>6. CASE \E j \in Jobs : StartClicked(j) \/ RetryClicked(j)
  BY <1>4, <1>6 DEF StartClicked, RetryClicked, Of
<1>7. CASE Lose \/ Reconnect
  <2>1. /\ registered' = {} /\ waiting' = {} /\ running' = NoJob /\ step' = "idle"
        /\ next' \in {next, 1}
        /\ asked' = <<>> \/ asked' = <<List(NoSequence, NoJob)>>
    BY <1>7 DEF Lose, Reconnect
  <2>2. RunsIn(asked') = {} /\ OneRun(asked', {})
    BY <2>1 DEF RunsIn, OneRun, List, RunKinds
  <2>3. Outstanding' = {}
    BY <2>1 DEF Outstanding
  <2>4. next' + Owed(waiting', step', asked') <= MaxEvents + 1
    BY <1>1, <2>1, <2>2, FS_EmptySet, OwedNat DEF RoomInv, Owed
  <2>5. QED
    BY <2>1, <2>2, <2>3, <2>4, FS_EmptySet DEF RoomInv
<1>8. CASE UNCHANGED vars
  BY <1>8 DEF vars, server, RoomInv, Outstanding
<1>9. QED
  BY <1>5, <1>6, <1>7, <1>8

(***************************************************************************)
(* Every value is of its type and within the bounds: the log no longer     *)
(* than MAX_RETAINED_EVENTS, the cursor and what is known no greater than  *)
(* the number of events one sidecar emits, each run the GUI could ask for  *)
(* (_emit, start, retry_job).                                              *)
(***************************************************************************)
THEOREM WellTyped == Spec => []TypeOK
<1>1. Init => RoomInv
  <2>1. ASSUME Init PROVE RunsIn(asked) = {} /\ OneRun(asked, {}) /\ Outstanding = {}
    BY <2>1 DEF Init, RunsIn, OneRun, Outstanding
  <2>2. ASSUME Init PROVE next + Owed(waiting, step, asked) <= MaxEvents + 1
    <3>1. waiting = {} /\ step = "idle" /\ next = 1 /\ RunsIn(asked) = {}
      BY <2>1, <2>2 DEF Init
    <3>2. Owed(waiting, step, asked) = 0 /\ MaxEvents \in Nat \ {0}
      BY <3>1, FS_EmptySet, BoundsAssumption DEF Owed
    <3>3. QED
      BY <3>1, <3>2
  <2>3. QED
    BY <2>1, <2>2, FS_EmptySet DEF Init, RoomInv
<1>2. FeedInv /\ RoomInv /\ [Next]_vars => RoomInv'
  BY WorkerHasRoom, ServeHasRoom, HandleHasRoom, OthersHaveRoom DEF Next
<1>3. FeedInv /\ RoomInv => TypeOK
  <2> SUFFICES ASSUME FeedInv, RoomInv PROVE TypeOK
    OBVIOUS
  <2>1. next \in Nat \ {0} /\ MaxEvents \in Nat /\ next <= MaxEvents + 1
    <3>1. next \in Nat \ {0} /\ MaxEvents \in Nat
      BY BoundsAssumption DEF FeedInv, Numbered, NumberedLog
    <3>2. Owed(waiting, step, asked) \in Nat
      BY OwedNat DEF RoomInv
    <3>3. QED
      BY <3>1, <3>2 DEF RoomInv
  <2>2. next \in 1..(MaxEvents + 1) /\ 0..(next - 1) \subseteq 0..MaxEvents
        /\ 1..(next - 1) \subseteq 1..MaxEvents
    BY <2>1
  <2>3. QED
    BY <2>2 DEF TypeOK, FeedInv, JobsTyped, Steps, Numbered, NumberedLog, Exchange, Shown
<1>4. QED
  BY <1>1, <1>2, <1>3, FeedInvariant, PTL DEF Spec

-----------------------------------------------------------------------------
(***************************************************************************)
(* What is shown is current.  The truth about a job is its status on disk, *)
(* and is open while a run of it is under way or its last run was told as  *)
(* job_failed; told[j] is the number of the last event that speaks of j.   *)
(***************************************************************************)
Open      == "open"
Steady(j) == j \notin waiting \cup failing /\ (running = j => step = "reported")
Truth     == [j \in Jobs |-> IF Steady(j) THEN disk[j] ELSE Open]
Speaks(e) == e.type \in {"job_created", "status_changed", "job_completed"}

\* The last event that speaks of a job whose truth is settled tells it.
EventTrue(told, truth, e) ==
    /\ Speaks(e) => e.sequence <= told[e.job]
    /\ \A j \in Jobs : e.sequence = told[j] =>
          /\ e.job = j /\ Speaks(e)
          /\ truth[j] # Open => Tells(e) /\ e.status = truth[j]

Voices(told, truth, q) == \A i \in DOMAIN q : EventTrue(told, truth, q[i])

\* The replies that say how far they go, and how far.
Dated(m)  == m.kind \in {"events", "jobs"}
DateOf(m) == IF m.kind = "events" THEN m.next_sequence ELSE m.upto

PageTrue(told, truth, m) ==
    /\ Voices(told, truth, m.events)
    /\ \A i \in DOMAIN m.events :
          m.events[i].sequence = (m.next_sequence - Len(m.events)) + i

TableTrue(told, truth, m) ==
    /\ \A j \in Jobs : truth[j] # Open /\ told[j] <= m.upto => m.status[j] = truth[j]
    /\ \A j \in Jobs \ FreshJobs : m.status[j] # "absent"

\* The last word about j has reached one who knows K, if there was one.
Heard(told, K, j) == told[j] \in K \cup {0}

\* Replies are in the order of their dates; one about a single job is true
\* unless later news of that job is still to come.
ReplyTrue(told, truth, K, a, k) ==
    /\ Dated(a[k]) =>
          /\ K \subseteq 1..DateOf(a[k])
          /\ \A i \in 1..(k - 1) : Dated(a[i]) => DateOf(a[i]) <= DateOf(a[k])
    /\ a[k].kind = "events" => PageTrue(told, truth, a[k])
    /\ a[k].kind = "jobs" => TableTrue(told, truth, a[k])
    /\ a[k].kind = "job" /\ truth[a[k].job] # Open =>
          \/ a[k].status = truth[a[k].job]
          \/ /\ ~Heard(told, K, a[k].job)
             /\ \A i \in 1..(k - 1) : Dated(a[i]) => DateOf(a[i]) < told[a[k].job]

RepliesTrue(told, truth, K, a) == \A k \in DOMAIN a : ReplyTrue(told, truth, K, a, k)

Listed(stat)       == IF stat = "absent" THEN "unlisted" ELSE stat
Agrees(v, stat, j) == v = Listed(stat) \/ (j \in FreshJobs /\ v = "unlisted")

ShownTrue(told, truth, K, jobs) ==
    \A j \in Jobs :
        /\ truth[j] # Open /\ Heard(told, K, j) => Agrees(jobs[j], truth[j], j)
        /\ j \notin FreshJobs => jobs[j] # "unlisted"

Current(told) ==
    /\ Voices(told, Truth, log)
    /\ RepliesTrue(told, Truth, known, answered)
    /\ conn = "ready" => ShownTrue(told, Truth, known, shown)

CurrentInv ==
    /\ \A j \in Jobs \ FreshJobs : disk[j] # "absent"
    /\ conn # "reconnecting" => \E told \in [Jobs -> 0..(next - 1)] : Current(told)

-----------------------------------------------------------------------------
(***************************************************************************)
(* A step of the sidecar: the truth about a job stays, or is open, or is   *)
(* told by event n.                                                        *)
(***************************************************************************)
Moves(told, truth, told2, truth2, n) ==
    \A j \in Jobs :
        told2[j] = n \/ (told2[j] = told[j] /\ truth2[j] \in {truth[j], Open})

\* What earlier events say is still true.
LEMMA VoicesKept ==
    ASSUME NEW n \in Nat \ {0}, NEW told \in [Jobs -> 0..(n - 1)], NEW told2 \in [Jobs -> 0..n],
           NEW truth, NEW truth2, Moves(told, truth, told2, truth2, n),
           NEW q \in Seq(Events(n)), Voices(told, truth, q)
    PROVE  Voices(told2, truth2, q)
<1> SUFFICES ASSUME NEW i \in DOMAIN q PROVE EventTrue(told2, truth2, q[i])
  BY DEF Voices
<1> DEFINE e == q[i]
<1>1. e \in Events(n) /\ EventTrue(told, truth, e)
  BY DEF Voices
<1> HIDE DEF e
<1>2. e.sequence \in 1..(n - 1) /\ e.job \in Jobs
  BY <1>1 DEF Events
<1>3. Speaks(e) => e.sequence <= told2[e.job]
  <2>1. told[e.job] \in 0..(n - 1) /\ told2[e.job] \in {told[e.job], n}
    BY <1>2 DEF Moves
  <2>2. QED
    BY <1>1, <1>2, <2>1 DEF EventTrue
<1>4. ASSUME NEW j \in Jobs, e.sequence = told2[j]
      PROVE  told2[j] = told[j] /\ truth2[j] \in {truth[j], Open}
  BY <1>2, <1>4 DEF Moves
<1>5. EventTrue(told2, truth2, e)
  BY <1>1, <1>3, <1>4 DEF EventTrue
<1>6. QED
  BY <1>5 DEF e

\* The date of a reply is one of the numbers given out.
LEMMA DateTyped ==
    ASSUME NEW n, NEW m \in Replies(n), Dated(m)
    PROVE  DateOf(m) \in 0..(n - 1)
<1>1. CASE m.kind = "events"
  BY <1>1, ReplyKinds DEF DateOf, Pages
<1>2. CASE m.kind = "jobs"
  BY <1>2, ReplyKinds DEF DateOf, Tables
<1>3. QED
  BY <1>1, <1>2 DEF Dated

\* Replies under way are still true, or news of what they miss is to come.
LEMMA RepliesKept ==
    ASSUME NEW n \in Nat \ {0}, NEW told \in [Jobs -> 0..(n - 1)], NEW told2 \in [Jobs -> 0..n],
           NEW truth, NEW truth2, Moves(told, truth, told2, truth2, n),
           NEW K \in SUBSET (1..(n - 1)), NEW a \in Seq(Replies(n)),
           RepliesTrue(told, truth, K, a)
    PROVE  RepliesTrue(told2, truth2, K, a)
<1> SUFFICES ASSUME NEW k \in DOMAIN a PROVE ReplyTrue(told2, truth2, K, a, k)
  BY DEF RepliesTrue
<1>1. ReplyTrue(told, truth, K, a, k) /\ a[k] \in Replies(n) /\ k \in Nat
  BY DEF RepliesTrue
<1>2. a[k].kind = "events" => PageTrue(told2, truth2, a[k])
  <2>1. SUFFICES ASSUME a[k].kind = "events" PROVE PageTrue(told2, truth2, a[k])
    OBVIOUS
  <2>2. a[k].events \in Seq(Events(n))
    BY <1>1, <2>1, ReplyKinds DEF Pages
  <2>3. PageTrue(told, truth, a[k])
    BY <1>1, <2>1 DEF ReplyTrue
  <2>4. QED
    BY <2>2, <2>3, VoicesKept DEF PageTrue
<1>3. a[k].kind = "jobs" => TableTrue(told2, truth2, a[k])
  <2>1. SUFFICES ASSUME a[k].kind = "jobs" PROVE TableTrue(told2, truth2, a[k])
    OBVIOUS
  <2>2. a[k].upto \in 0..(n - 1) /\ TableTrue(told, truth, a[k])
    BY <1>1, <2>1, ReplyKinds DEF Tables, ReplyTrue
  <2>3. ASSUME NEW j \in Jobs, truth2[j] # Open, told2[j] <= a[k].upto
        PROVE  a[k].status[j] = truth2[j]
    <3>1. told2[j] # n
      BY <2>2, <2>3
    <3>2. told2[j] = told[j] /\ truth2[j] = truth[j]
      BY <2>3, <3>1 DEF Moves
    <3>3. QED
      BY <2>2, <2>3, <3>2 DEF TableTrue
  <2>4. QED
    BY <2>2, <2>3 DEF TableTrue
<1>4. ASSUME a[k].kind = "job", truth2[a[k].job] # Open
      PROVE  \/ a[k].status = truth2[a[k].job]
             \/ /\ ~Heard(told2, K, a[k].job)
                /\ \A i \in 1..(k - 1) : Dated(a[i]) => DateOf(a[i]) < told2[a[k].job]
  <2> DEFINE j == a[k].job
  <2>1. j \in Jobs
    BY <1>1, <1>4, ReplyKinds DEF JobReplies
  <2>2. CASE told2[j] = n
    <3>1. n \notin K \cup {0}
      OBVIOUS
    <3>2. ASSUME NEW i \in 1..(k - 1), Dated(a[i]) PROVE DateOf(a[i]) < n
      <4>1. a[i] \in Replies(n)
        BY <1>1
      <4>2. DateOf(a[i]) \in 0..(n - 1)
        BY <3>2, <4>1, DateTyped
      <4>3. QED
        BY <4>2
    <3>3. QED
      BY <2>2, <3>1, <3>2 DEF Heard
  <2>3. CASE told2[j] # n
    <3>1. told2[j] = told[j] /\ truth2[j] = truth[j]
      BY <1>4, <2>1, <2>3 DEF Moves
    <3>2. QED
      BY <1>1, <1>4, <3>1 DEF ReplyTrue, Heard
  <2>4. QED
    BY <2>2, <2>3
<1>5. QED
  BY <1>1, <1>2, <1>3, <1>4 DEF ReplyTrue

\* What is shown is still current, where the last word has been heard.
LEMMA ShownKept ==
    ASSUME NEW n \in Nat \ {0}, NEW told \in [Jobs -> 0..(n - 1)], NEW told2 \in [Jobs -> 0..n],
           NEW truth, NEW truth2, Moves(told, truth, told2, truth2, n),
           NEW K \in SUBSET (1..(n - 1)), NEW jobs, ShownTrue(told, truth, K, jobs)
    PROVE  ShownTrue(told2, truth2, K, jobs)
<1>1. n \notin K \cup {0}
  OBVIOUS
<1>2. QED
  BY <1>1 DEF ShownTrue, Heard, Moves

\* The oldest reply is handled: its news is known then.
LEMMA RepliesTail ==
    ASSUME NEW n \in Nat \ {0}, NEW told \in [Jobs -> 0..(n - 1)], NEW truth,
           NEW K, NEW a \in Seq(Replies(n)), a # <<>>, RepliesTrue(told, truth, K, a),
           NEW L, L \subseteq K \cup (IF Dated(Head(a)) THEN 1..DateOf(Head(a)) ELSE {})
    PROVE  RepliesTrue(told, truth, L, Tail(a))
<1> DEFINE t == Tail(a)
<1>1. /\ Len(a) \in Nat \ {0} /\ DOMAIN a = 1..Len(a) /\ Head(a) = a[1]
      /\ DOMAIN t = 1..(Len(a) - 1)
      /\ \A i \in 1..(Len(a) - 1) : t[i] = a[i + 1]
  <2>1. /\ t \in Seq(Replies(n)) /\ Len(t) = Len(a) - 1 /\ Head(a) = a[1]
        /\ \A i \in 1..Len(t) : t[i] = a[i + 1]
    BY HeadTailProperties
  <2>2. Len(a) \in Nat \ {0} /\ DOMAIN a = 1..Len(a)
    OBVIOUS
  <2> HIDE DEF t
  <2>3. DOMAIN t = 1..Len(t)
    BY <2>1
  <2>4. QED
    BY <2>1, <2>2, <2>3
<1> HIDE DEF t
<1> SUFFICES ASSUME NEW k \in DOMAIN t PROVE ReplyTrue(told, truth, L, t, k)
  BY DEF RepliesTrue, t
<1>2. /\ k \in Nat \ {0} /\ k + 1 \in DOMAIN a /\ t[k] = a[k + 1] /\ (k + 1) - 1 = k
      /\ 1 \in DOMAIN a /\ 1 \in 1..k
  BY <1>1
<1>3. \A i \in 1..(k - 1) : i + 1 \in 1..k /\ i + 1 \in DOMAIN a /\ t[i] = a[i + 1]
  BY <1>1, <1>2
<1>4. ReplyTrue(told, truth, K, a, k + 1) /\ a[k + 1] \in Replies(n) /\ a[1] \in Replies(n)
  BY <1>2 DEF RepliesTrue
<1>5. ASSUME Dated(t[k]) PROVE L \subseteq 1..DateOf(t[k])
  <2>1. K \subseteq 1..DateOf(t[k]) /\ (Dated(a[1]) => DateOf(a[1]) <= DateOf(t[k]))
    BY <1>2, <1>4, <1>5 DEF ReplyTrue
  <2>2. DateOf(t[k]) \in 0..(n - 1)
    BY <1>2, <1>4, <1>5, DateTyped
  <2>3. Dated(a[1]) => DateOf(a[1]) \in 0..(n - 1)
    BY <1>4, DateTyped
  <2>4. Dated(a[1]) => 1..DateOf(a[1]) \subseteq 1..DateOf(t[k])
    BY <2>1, <2>2, <2>3
  <2>5. QED
    BY <1>1, <2>1, <2>4
<1>6. ASSUME NEW i \in 1..(k - 1), Dated(t[k]), Dated(t[i]) PROVE DateOf(t[i]) <= DateOf(t[k])
  BY <1>2, <1>3, <1>4, <1>6 DEF ReplyTrue
<1>7. ASSUME t[k].kind = "job", truth[t[k].job] # Open, t[k].status # truth[t[k].job]
      PROVE  /\ ~Heard(told, L, t[k].job)
             /\ \A i \in 1..(k - 1) : Dated(t[i]) => DateOf(t[i]) < told[t[k].job]
  <2> DEFINE j == t[k].job
  <2>1. /\ ~Heard(told, K, j)
        /\ \A i \in 1..k : Dated(a[i]) => DateOf(a[i]) < told[j]
    BY <1>2, <1>4, <1>7 DEF ReplyTrue
  <2>2. j \in Jobs
    BY <1>2, <1>4, <1>7, ReplyKinds DEF JobReplies
  <2>3. told[j] \in 0..(n - 1)
    BY <2>2
  <2> HIDE DEF j
  <2>4. Dated(a[1]) => DateOf(a[1]) \in 0..(n - 1) /\ DateOf(a[1]) < told[j]
    BY <1>2, <1>4, <2>1, DateTyped
  <2>5. ~Heard(told, L, j)
    BY <1>1, <2>1, <2>3, <2>4 DEF Heard
  <2>6. \A i \in 1..(k - 1) : Dated(t[i]) => DateOf(t[i]) < told[j]
    BY <1>3, <2>1
  <2>7. QED
    BY <2>5, <2>6 DEF j
<1>8. t[k].kind = "events" => PageTrue(told, truth, t[k])
  BY <1>2, <1>4 DEF ReplyTrue
<1>9. t[k].kind = "jobs" => TableTrue(told, truth, t[k])
  BY <1>2, <1>4 DEF ReplyTrue
<1>10. QED
  BY <1>5, <1>6, <1>7, <1>8, <1>9 DEF ReplyTrue

\* A reply is added: it is as true as the sidecar that gives it, and no reply
\* is of a later date.
LEMMA RepliesAppend ==
    ASSUME NEW n \in Nat \ {0}, NEW told, NEW truth,
           NEW K \in SUBSET (1..(n - 1)), NEW a \in Seq(Replies(n)),
           RepliesTrue(told, truth, K, a), NEW m,
           Dated(m) => DateOf(m) = n - 1,
           m.kind = "events" => PageTrue(told, truth, m),
           m.kind = "jobs" => TableTrue(told, truth, m),
           m.kind = "job" /\ truth[m.job] # Open => m.status = truth[m.job]
    PROVE  RepliesTrue(told, truth, K, Append(a, m))
<1> DEFINE c == Append(a, m)
<1>1. /\ Len(a) \in Nat /\ DOMAIN a = 1..Len(a) /\ DOMAIN c = 1..(Len(a) + 1)
      /\ \A i \in 1..Len(a) : c[i] = a[i]
      /\ c[Len(a) + 1] = m
  OBVIOUS
<1> HIDE DEF c
<1>2. ASSUME NEW k \in DOMAIN a PROVE ReplyTrue(told, truth, K, c, k)
  <2>1. ReplyTrue(told, truth, K, a, k)
    BY DEF RepliesTrue
  <2>2. c[k] = a[k] /\ \A i \in 1..(k - 1) : c[i] = a[i]
    BY <1>1
  <2>3. QED
    BY <2>1, <2>2 DEF ReplyTrue
<1>3. ReplyTrue(told, truth, K, c, Len(a) + 1)
  <2>1. ASSUME NEW i \in 1..((Len(a) + 1) - 1), Dated(c[i]) PROVE DateOf(c[i]) <= n - 1
    <3>1. c[i] \in Replies(n)
      BY <1>1
    <3>2. DateOf(c[i]) \in 0..(n - 1)
      BY <2>1, <3>1, DateTyped
    <3>3. QED
      BY <3>2
  <2>2. QED
    BY <1>1, <2>1 DEF ReplyTrue
<1>4. \A k \in DOMAIN c : k \in DOMAIN a \/ k = Len(a) + 1
  BY <1>1
<1>5. QED
  BY <1>2, <1>3, <1>4 DEF RepliesTrue, c

\* What is shown of a job is as the last event that spoke of it left it.
LEMMA Unspoken ==
    ASSUME NEW n, NEW events \in Seq(Events(n)), NEW f, AppliedBy(f, shown, events),
           \A k \in 0..Len(events) : f[k] \in [Jobs -> Shown],
           NEW j \in Jobs, NEW p \in 0..Len(events),
           \A i \in 1..Len(events) : i > p => ~(Speaks(events[i]) /\ events[i].job = j)
    PROVE  f[Len(events)][j] = f[p][j]
<1> DEFINE Good == {k \in Nat : p + k <= Len(events) => f[p + k][j] = f[p][j]}
<1>1. Len(events) \in Nat /\ p \in Nat /\ p <= Len(events)
  OBVIOUS
<1>2. 0 \in Good
  BY <1>1
<1>3. ASSUME NEW k \in Nat, k \in Good, p + (k + 1) <= Len(events)
      PROVE  f[p + (k + 1)][j] = f[p][j]
  <2> DEFINE i == p + (k + 1)
             e == events[i]
  <2>1. i \in 1..Len(events) /\ i > p /\ i \in 0..Len(events) /\ i # 0 /\ i - 1 = p + k
        /\ p + k \in 0..Len(events) /\ p + k <= Len(events)
    BY <1>1, <1>3
  <2> HIDE DEF i
  <2>2. f[i] = ApplyEvent(f[p + k], e)
    BY <2>1 DEF AppliedBy
  <2>3. e \in Events(n) /\ f[p + k] \in [Jobs -> Shown] /\ ~(Speaks(e) /\ e.job = j)
    BY <2>1
  <2> HIDE DEF e
  <2>4. ApplyEvent(f[p + k], e)[j] = f[p + k][j]
    BY <2>3 DEF ApplyEvent, Speaks
  <2>5. QED
    BY <1>3, <2>1, <2>2, <2>4 DEF i
<1>4. \A k \in Nat : k \in Good => k + 1 \in Good
  BY <1>3
<1> HIDE DEF Good
<1>5. Len(events) - p \in Good /\ p + (Len(events) - p) = Len(events)
  <2>1. Len(events) - p \in Nat /\ p + (Len(events) - p) = Len(events)
    BY <1>1
  <2>2. QED
    BY <1>2, <1>4, <2>1, Induction
<1>6. QED
  BY <1>1, <1>5 DEF Good

\* A listed job stays listed through a page.
LEMMA ListedStays ==
    ASSUME NEW n, NEW events \in Seq(Events(n)), NEW f, AppliedBy(f, shown, events),
           \A k \in 0..Len(events) : f[k] \in [Jobs -> Shown],
           NEW j \in Jobs, shown[j] # "unlisted"
    PROVE  \A k \in 0..Len(events) : f[k][j] # "unlisted"
<1> DEFINE Good == {k \in Nat : k <= Len(events) => f[k][j] # "unlisted"}
<1>1. Len(events) \in Nat
  OBVIOUS
<1>2. 0 \in Good
  BY <1>1 DEF AppliedBy
<1>3. ASSUME NEW k \in Nat, k \in Good, k + 1 <= Len(events)
      PROVE  f[k + 1][j] # "unlisted"
  <2> DEFINE e == events[k + 1]
  <2>1. k + 1 \in 1..Len(events) /\ k + 1 \in 0..Len(events) /\ k + 1 # 0 /\ (k + 1) - 1 = k
        /\ k \in 0..Len(events) /\ k <= Len(events)
    BY <1>1, <1>3
  <2>2. f[k + 1] = ApplyEvent(f[k], e)
    BY <2>1 DEF AppliedBy
  <2>3. e \in Events(n) /\ f[k] \in [Jobs -> Shown] /\ f[k][j] # "unlisted"
    BY <1>3, <2>1
  <2> HIDE DEF e
  <2>4. e.job \in Jobs /\ e.status # "unlisted"
    BY <2>3 DEF Events, Status
  <2>5. ApplyEvent(f[k], e)[j] # "unlisted"
    BY <2>3, <2>4 DEF ApplyEvent
  <2>6. QED
    BY <2>2, <2>5
<1>4. \A k \in Nat : k \in Good => k + 1 \in Good
  BY <1>3
<1> HIDE DEF Good
<1>5. \A k \in Nat : k \in Good
  BY <1>2, <1>4, Induction
<1>6. QED
  BY <1>1, <1>5 DEF Good

\* A page that is applied leaves what is shown of a job current, if it brings
\* the last word about the job or that word had been heard.
LEMMA PageShows ==
    ASSUME shown \in [Jobs -> Shown], NEW n \in Nat \ {0}, NEW m \in Pages(n),
           NEW told \in [Jobs -> 0..(n - 1)], NEW truth, PageTrue(told, truth, m),
           NEW K \in SUBSET (1..m.next_sequence),
           ShownTrue(told, truth, K, shown)
    PROVE  ShownTrue(told, truth, K \cup Numbers(m.events), Applied(m.events))
<1> DEFINE ev == m.events
           N  == m.next_sequence
<1>1. /\ ev \in Seq(Events(n)) /\ N \in 0..(n - 1) /\ Len(ev) \in Nat
      /\ DOMAIN ev = 1..Len(ev)
      /\ \A i \in 1..Len(ev) : ev[i].sequence = (N - Len(ev)) + i
      /\ \A i \in 1..Len(ev) : EventTrue(told, truth, ev[i]) /\ ev[i] \in Events(n)
      /\ K \subseteq 1..N
  <2>1. ev \in Seq(Events(n)) /\ N \in 0..(n - 1)
    BY DEF Pages
  <2>2. Len(ev) \in Nat /\ DOMAIN ev = 1..Len(ev) /\ \A i \in 1..Len(ev) : ev[i] \in Events(n)
    BY <2>1
  <2>3. QED
    BY <2>1, <2>2 DEF PageTrue, Voices
<1> HIDE DEF ev, N
<1>2. PICK f : /\ AppliedBy(f, shown, ev) /\ Applied(ev) = f[Len(ev)]
               /\ \A k \in 0..Len(ev) : f[k] \in [Jobs -> Shown]
  BY <1>1, AppliedSteps
<1>3. f[0] = shown /\ 0 \in 0..Len(ev) /\ Len(ev) \in 0..Len(ev)
  BY <1>1, <1>2 DEF AppliedBy
<1>4. ASSUME NEW j \in Jobs, j \notin FreshJobs
      PROVE  \A k \in 0..Len(ev) : f[k][j] # "unlisted"
  <2>1. shown[j] # "unlisted"
    BY <1>4 DEF ShownTrue
  <2>2. QED
    BY <1>1, <1>2, <2>1, ListedStays
<1>5. ASSUME NEW j \in Jobs, truth[j] # Open, Heard(told, K \cup Numbers(ev), j)
      PROVE  Agrees(Applied(ev)[j], truth[j], j)
  <2>1. told[j] \in 0..(n - 1)
    OBVIOUS
  <2>2. \A i \in 1..Len(ev) : Speaks(ev[i]) /\ ev[i].job = j => ev[i].sequence <= told[j]
    BY <1>1 DEF EventTrue
  <2>3. CASE \E p \in 1..Len(ev) : ev[p].sequence = told[j]
    <3>1. PICK p \in 1..Len(ev) : ev[p].sequence = told[j]
      BY <2>3
    <3>2. Tells(ev[p]) /\ ev[p].job = j /\ ev[p].status = truth[j]
      BY <1>1, <1>5, <3>1 DEF EventTrue
    <3>3. p \in 0..Len(ev) /\ p # 0 /\ p - 1 \in 0..Len(ev)
      BY <1>1
    <3>4. ASSUME NEW i \in 1..Len(ev), i > p PROVE ~(Speaks(ev[i]) /\ ev[i].job = j)
      <4>1. ev[i].sequence > told[j]
        BY <1>1, <3>1, <3>4
      <4>2. ev[i].sequence \in Int
        BY <1>1
      <4>3. QED
        BY <2>1, <2>2, <4>1, <4>2
    <3>5. f[Len(ev)][j] = f[p][j]
      BY <1>1, <1>2, <3>3, <3>4, Unspoken
    <3>6. f[p] = ApplyEvent(f[p - 1], ev[p]) /\ f[p - 1] \in [Jobs -> Shown]
      BY <1>2, <3>3 DEF AppliedBy
    <3>7. truth[j] # "absent"
      BY <1>1, <3>2 DEF Events
    <3>8. f[p][j] = truth[j] \/ (f[p - 1][j] = "unlisted" /\ f[p][j] = "unlisted")
      BY <3>2, <3>6 DEF ApplyEvent, Tells
    <3>9. QED
      BY <1>2, <1>4, <3>3, <3>5, <3>7, <3>8 DEF Agrees, Listed
  <2>4. CASE ~(\E p \in 1..Len(ev) : ev[p].sequence = told[j])
    <3>1. told[j] \in K \cup {0}
      <4>1. told[j] \notin Numbers(ev)
        BY <1>1, <2>4 DEF Numbers, ToSet
      <4>2. QED
        BY <1>5, <4>1 DEF Heard
    <3>2. ASSUME NEW i \in 1..Len(ev), i > 0, Speaks(ev[i]), ev[i].job = j PROVE FALSE
      <4>1. ev[i].sequence <= told[j] /\ ev[i].sequence = (N - Len(ev)) + i
        BY <1>1, <2>2, <3>2
      <4>2. ev[i].sequence \in 1..(n - 1)
        BY <1>1 DEF Events
      <4>3. told[j] \in 1..N
        BY <1>1, <2>1, <3>1, <4>1, <4>2
      <4> DEFINE p == told[j] - (N - Len(ev))
      <4>4. p \in 1..Len(ev)
        BY <1>1, <4>1, <4>3
      <4>5. (N - Len(ev)) + p = told[j]
        BY <1>1, <4>3
      <4> HIDE DEF p
      <4>6. ev[p].sequence = told[j]
        BY <1>1, <4>4, <4>5
      <4>7. QED
        BY <2>4, <4>4, <4>6
    <3>3. f[Len(ev)][j] = f[0][j]
      <4>1. \A i \in 1..Len(ev) : i > 0 => ~(Speaks(ev[i]) /\ ev[i].job = j)
        BY <3>2
      <4>2. \A p \in 0..Len(ev) :
              (\A i \in 1..Len(ev) : i > p => ~(Speaks(ev[i]) /\ ev[i].job = j))
                => f[Len(ev)][j] = f[p][j]
        BY <1>1, <1>2, Unspoken
      <4>3. QED
        BY <1>3, <4>1, <4>2
    <3>4. Agrees(shown[j], truth[j], j)
      BY <1>5, <3>1 DEF ShownTrue, Heard
    <3>5. QED
      BY <1>2, <1>3, <3>3, <3>4
  <2>5. QED
    BY <2>3, <2>4
<1>6. QED
  BY <1>2, <1>3, <1>4, <1>5 DEF ShownTrue, ev

-----------------------------------------------------------------------------
(***************************************************************************)
(* The steps of the sidecar and of the GUI keep what is shown current.     *)
(***************************************************************************)
\* Truth changes and nothing is emitted, or not yet.
LEMMA SidecarMoves ==
    ASSUME FeedInv, NEW told \in [Jobs -> 0..(next - 1)], Current(told),
           NEW told2 \in [Jobs -> 0..next], Moves(told, Truth, told2, Truth', next)
    PROVE  /\ Voices(told2, Truth', log)
           /\ RepliesTrue(told2, Truth', known, answered)
           /\ conn = "ready" => ShownTrue(told2, Truth', known, shown)
<1>1. /\ next \in Nat \ {0} /\ log \in Seq(Events(next)) /\ known \in SUBSET (1..(next - 1))
      /\ answered \in Seq(Replies(next))
  BY DEF FeedInv, Numbered, NumberedLog, Exchange
<1> DEFINE truth  == Truth
           truth2 == Truth'
<1>2. /\ Voices(told, truth, log) /\ RepliesTrue(told, truth, known, answered)
      /\ conn = "ready" => ShownTrue(told, truth, known, shown)
      /\ Moves(told, truth, told2, truth2, next)
  BY DEF Current
<1> HIDE DEF truth, truth2
<1>3. Voices(told2, truth2, log)
  BY <1>1, <1>2, VoicesKept
<1>4. RepliesTrue(told2, truth2, known, answered)
  BY <1>1, <1>2, RepliesKept
<1>5. conn = "ready" => ShownTrue(told2, truth2, known, shown)
  BY <1>1, <1>2, ShownKept
<1>6. QED
  BY <1>3, <1>4, <1>5 DEF truth2

\* The log with one more event, which is true.
LEMMA VoicesEmit ==
    ASSUME NEW told, NEW truth, NEW S, NEW q \in Seq(S), NEW e, Voices(told, truth, q),
           EventTrue(told, truth, e)
    PROVE  LET longer == Append(q, e)
           IN  Voices(told, truth, IF Len(longer) > MaxRetained THEN Tail(longer) ELSE longer)
<1> DEFINE longer == Append(q, e)
           T      == S \cup {e}
<1>1. /\ longer \in Seq(T) /\ longer # <<>> /\ Len(q) \in Nat /\ DOMAIN q = 1..Len(q)
      /\ DOMAIN longer = 1..(Len(q) + 1)
      /\ \A i \in 1..Len(q) : longer[i] = q[i]
      /\ longer[Len(q) + 1] = e
  <2>1. S \subseteq T /\ e \in T
    OBVIOUS
  <2> HIDE DEF T
  <2>2. q \in Seq(T)
    BY <2>1, SeqMonotonic
  <2>3. QED
    BY <2>1, <2>2
<1> HIDE DEF longer, T
<1>2. Voices(told, truth, longer)
  <2>1. \A i \in DOMAIN longer : i \in DOMAIN q \/ i = Len(q) + 1
    BY <1>1
  <2>2. QED
    BY <1>1, <2>1 DEF Voices
<1>3. Voices(told, truth, Tail(longer))
  <2> DEFINE t == Tail(longer)
  <2>1. /\ t \in Seq(T) /\ Len(t) = Len(longer) - 1 /\ Len(longer) \in Nat
        /\ DOMAIN longer = 1..Len(longer)
        /\ \A i \in 1..Len(t) : t[i] = longer[i + 1]
    BY <1>1, HeadTailProperties
  <2> HIDE DEF t
  <2>2. DOMAIN t = 1..Len(t) /\ \A i \in 1..Len(t) : i + 1 \in DOMAIN longer
    BY <2>1
  <2>3. Voices(told, truth, t)
    BY <1>2, <2>1, <2>2 DEF Voices
  <2>4. QED
    BY <2>3 DEF t
<1>4. QED
  BY <1>2, <1>3 DEF longer

\* An event is emitted: it opens the truth about its job, or tells it.
LEMMA SidecarEmits ==
    ASSUME FeedInv, NEW told \in [Jobs -> 0..(next - 1)], Current(told),
           NEW type \in Types, NEW j \in Jobs, NEW stat, Emit(type, j, stat),
           \A i \in Jobs \ {j} : Truth'[i] \in {Truth[i], Open},
           Speaks([type |-> type]) /\ Truth'[j] # Open =>
               Tells([type |-> type]) /\ stat = Truth'[j],
           ~Speaks([type |-> type]) => Truth'[j] \in {Truth[j], Open}
    PROVE  /\ next' = next + 1
           /\ \E told2 \in [Jobs -> 0..next] :
                 /\ Voices(told2, Truth', log')
                 /\ RepliesTrue(told2, Truth', known, answered)
                 /\ conn = "ready" => ShownTrue(told2, Truth', known, shown)
<1> DEFINE e      == Event(type, j, stat)
           told2  == IF Speaks([type |-> type]) THEN [told EXCEPT ![j] = next] ELSE told
           truth2 == Truth'
<1>1. next \in Nat \ {0} /\ log \in Seq(Events(next))
  BY DEF FeedInv, Numbered, NumberedLog
<1>2. /\ e.sequence = next /\ e.job = j /\ e.status = stat
      /\ Speaks(e) <=> Speaks([type |-> type])
      /\ Tells(e) <=> Tells([type |-> type])
  BY DEF Event, Speaks, Tells
<1>3. /\ next' = next + 1
      /\ log' = IF Len(Append(log, e)) > MaxRetained THEN Tail(Append(log, e)) ELSE Append(log, e)
  BY DEF Emit
<1>4. told2 \in [Jobs -> 0..next] /\ \A i \in Jobs : told[i] \in 0..(next - 1)
  BY <1>1
<1>5. Moves(told, Truth, told2, Truth', next)
  BY DEF Moves
<1>6. /\ Voices(told2, truth2, log)
      /\ RepliesTrue(told2, truth2, known, answered)
      /\ conn = "ready" => ShownTrue(told2, truth2, known, shown)
  <2> HIDE DEF told2
  <2>1. QED
    BY <1>4, <1>5, SidecarMoves
<1>7. EventTrue(told2, truth2, e)
  <2>1. \A i \in Jobs : next = told2[i] => i = j /\ Speaks([type |-> type])
    BY <1>1, <1>4
  <2>2. Speaks([type |-> type]) => told2[j] = next
    BY <1>4
  <2>3. Speaks([type |-> type]) /\ truth2[j] # Open =>
           Tells([type |-> type]) /\ stat = truth2[j]
    OBVIOUS
  <2> HIDE DEF told2, truth2, e
  <2>4. QED
    BY <1>1, <1>2, <2>1, <2>2, <2>3 DEF EventTrue
<1> HIDE DEF e, told2, truth2
<1>8. Voices(told2, truth2, log')
  BY <1>1, <1>3, <1>6, <1>7, VoicesEmit
<1>9. QED
  BY <1>3, <1>4, <1>6, <1>8 DEF truth2

\* When nothing is emitted, the truth about each job stays or is opened.
LEMMA SidecarSilent ==
    ASSUME FeedInv, NEW told \in [Jobs -> 0..(next - 1)], Current(told),
           \A j \in Jobs : Truth'[j] \in {Truth[j], Open}, UNCHANGED log
    PROVE  /\ Voices(told, Truth', log')
           /\ RepliesTrue(told, Truth', known, answered)
           /\ conn = "ready" => ShownTrue(told, Truth', known, shown)
<1>1. next \in Nat \ {0}
  BY DEF FeedInv, Numbered, NumberedLog
<1>2. 0..(next - 1) \subseteq 0..next
  BY <1>1
<1>3. told \in [Jobs -> 0..next]
  BY <1>2
<1>4. Moves(told, Truth, told, Truth', next)
  BY DEF Moves
<1>5. QED
  BY <1>3, <1>4, SidecarMoves

\* The worker thread: a run opens the truth about its job and its outcome
\* settles it, with the event that tells it.
LEMMA WorkerCurrent ==
    ASSUME FeedInv, CurrentInv, Worker
    PROVE  CurrentInv'
<1>1. UNCHANGED <<answered, gui>> /\ next \in Nat \ {0}
  BY DEF Worker, Announce, DropCancelled, Begin, Skip, RaiseEarly, Settle, Saves, Progress, Report,
         Release, FeedInv, Numbered, NumberedLog
<1>2. /\ disk \in [Jobs -> Status] /\ running \in Jobs \cup {NoJob} /\ waiting \subseteq Jobs
      /\ NoJob \notin Jobs
      /\ step = "idle" <=> running = NoJob
  BY JobsAssumption DEF FeedInv, JobsTyped
<1>3. ASSUME \A j \in Jobs \ FreshJobs : disk'[j] # "absent",
             next' \in {next, next + 1},
             \A told \in [Jobs -> 0..(next - 1)] : Current(told) =>
                \E told2 \in [Jobs -> 0..(next' - 1)] :
                   /\ Voices(told2, Truth', log')
                   /\ RepliesTrue(told2, Truth', known, answered)
                   /\ conn = "ready" => ShownTrue(told2, Truth', known, shown)
      PROVE  CurrentInv'
  BY <1>1, <1>3 DEF CurrentInv, Current, gui
<1>4. ASSUME \A j \in Jobs : Truth'[j] \in {Truth[j], Open}, UNCHANGED <<log, next>>,
             \A j \in Jobs \ FreshJobs : disk'[j] # "absent"
      PROVE  CurrentInv'
  BY <1>3, <1>4, SidecarSilent
<1>5. ASSUME NEW type \in Types, NEW j \in Jobs, NEW stat, Emit(type, j, stat),
             \A i \in Jobs \ {j} : Truth'[i] \in {Truth[i], Open},
             Speaks([type |-> type]) /\ Truth'[j] # Open =>
                 Tells([type |-> type]) /\ stat = Truth'[j],
             ~Speaks([type |-> type]) => Truth'[j] \in {Truth[j], Open},
             UNCHANGED disk
      PROVE  CurrentInv'
  <2>1. next' = next + 1 /\ next' - 1 = next
    BY <1>1, <1>5 DEF Emit
  <2>2. ASSUME NEW told \in [Jobs -> 0..(next - 1)], Current(told)
        PROVE  \E told2 \in [Jobs -> 0..next] :
                 /\ Voices(told2, Truth', log')
                 /\ RepliesTrue(told2, Truth', known, answered)
                 /\ conn = "ready" => ShownTrue(told2, Truth', known, shown)
    BY <1>5, <2>2, SidecarEmits
  <2>3. \A j1 \in Jobs \ FreshJobs : disk'[j1] # "absent"
    BY <1>5 DEF CurrentInv
  <2>4. QED
    BY <1>3, <2>1, <2>2, <2>3
<1>6. ASSUME NEW j \in Jobs, Announce(j) PROVE CurrentInv'
  <2>1. /\ Emit("status_changed", j, "running") /\ running' = j /\ step' = "announced"
        /\ waiting' = waiting \ {j} /\ UNCHANGED <<disk, failing>> /\ running = NoJob
    BY <1>6 DEF Announce
  <2>2. Truth'[j] = Open
    BY <2>1 DEF Truth, Steady
  <2>3. \A i \in Jobs \ {j} : Truth'[i] = Truth[i]
    BY <1>2, <2>1 DEF Truth, Steady
  <2>4. QED
    BY <1>5, <2>1, <2>2, <2>3 DEF Types
<1>7. ASSUME NEW j \in Jobs, DropCancelled(j) PROVE CurrentInv'
  <2>1. /\ running' = j /\ step' = "dropped" /\ disk' = [disk EXCEPT ![j] = "cancelled"]
        /\ waiting' = waiting \ {j} /\ UNCHANGED <<log, next, failing>> /\ running = NoJob
    BY <1>7 DEF DropCancelled
  <2>2. Truth'[j] = Open
    BY <2>1 DEF Truth, Steady
  <2>3. \A i \in Jobs \ {j} : Truth'[i] = Truth[i]
    BY <1>2, <2>1 DEF Truth, Steady
  <2>4. \A i \in Jobs \ FreshJobs : disk'[i] # "absent"
    BY <1>2, <2>1 DEF CurrentInv
  <2>5. QED
    BY <1>4, <2>1, <2>2, <2>3, <2>4
<1>8. ASSUME NEW from, from \notin {"idle", "reported"}, NEW to, to # "reported",
             NEW stat, Saves(from, to, stat), stat = "absent" => running \in FreshJobs
      PROVE  CurrentInv'
  <2>1. /\ step = from /\ step' = to /\ disk' = [disk EXCEPT ![running] = stat]
        /\ UNCHANGED <<waiting, running, failing, log, next>>
    BY <1>8 DEF Saves
  <2>2. Truth'[running] = Open \/ running \notin Jobs
    BY <1>8, <2>1 DEF Truth, Steady
  <2>3. \A i \in Jobs \ {running} : Truth'[i] = Truth[i]
    BY <1>2, <2>1 DEF Truth, Steady
  <2>4. \A i \in Jobs \ FreshJobs : disk'[i] # "absent"
    BY <1>2, <1>8, <2>1 DEF CurrentInv
  <2>5. QED
    BY <1>4, <2>1, <2>2, <2>3, <2>4
<1>9. CASE Begin \/ Skip
  BY <1>8, <1>9 DEF Begin, Skip
<1>10. CASE RaiseEarly
  <2>1. Saves("announced", "raised", disk[running])
    BY <1>10 DEF RaiseEarly
  <2>2. disk[running] = "absent" => running \in FreshJobs
    BY <1>2, <2>1 DEF Saves, CurrentInv
  <2>3. QED
    BY <1>8, <2>1, <2>2
<1>11. CASE \E outcome \in Outcomes : Settle(outcome)
  <2>1. PICK outcome \in Outcomes : Settle(outcome)
    BY <1>11
  <2>2. outcome # "absent"
    BY OutcomesAssumption
  <2>3. QED
    BY <1>8, <2>1, <2>2 DEF Settle
<1>12. CASE Progress
  <2>1. /\ Emit("progress", running, "running") /\ running \in Jobs
        /\ UNCHANGED <<disk, waiting, running, step, failing>>
    BY <1>2, <1>12 DEF Progress
  <2>2. Truth' = Truth
    BY <2>1 DEF Truth, Steady
  <2>3. QED
    BY <1>5, <2>1, <2>2 DEF Types, Speaks
<1>13. CASE Report
  <2> DEFINE type == CASE step = "raised"                                -> "job_failed"
                       [] step = "settled" /\ disk[running] = "completed" -> "job_completed"
                       [] OTHER                                           -> "status_changed"
  <2>1. /\ step \in {"settled", "raised", "dropped"} /\ running \in Jobs
        /\ step' = IF step = "dropped" THEN "idle" ELSE "reported"
        /\ running' = IF step = "dropped" THEN NoJob ELSE running
        /\ failing' = IF step = "raised" THEN failing \cup {running} ELSE failing \ {running}
        /\ Emit(type, running, disk[running]) /\ UNCHANGED <<disk, waiting>>
    BY <1>2, <1>13 DEF Report
  <2>2. \A i \in Jobs \ {running} : Truth'[i] = Truth[i]
    BY <1>2, <2>1 DEF Truth, Steady
  <2>3. Truth'[running] \in {disk[running], Open}
    BY <2>1 DEF Truth
  <2>4. step = "raised" => Truth'[running] = Open
    BY <2>1 DEF Truth, Steady
  <2>5. /\ type \in Types
        /\ step = "raised" => ~Speaks([type |-> type])
        /\ step # "raised" => Tells([type |-> type])
    BY DEF Types, Speaks, Tells
  <2> HIDE DEF type
  <2>6. Speaks([type |-> type]) /\ Truth'[running] # Open =>
            Tells([type |-> type]) /\ disk[running] = Truth'[running]
    BY <2>3, <2>5
  <2>7. ~Speaks([type |-> type]) => Truth'[running] \in {Truth[running], Open}
    <3>1. Tells([type |-> type]) => Speaks([type |-> type])
      BY DEF Tells, Speaks
    <3>2. QED
      BY <2>4, <2>5, <3>1
  <2>8. QED
    BY <1>5, <2>1, <2>2, <2>5, <2>6, <2>7
<1>14. CASE Release
  <2>1. /\ step = "reported" /\ step' = "idle" /\ running' = NoJob
        /\ UNCHANGED <<disk, waiting, failing, log, next>>
    BY <1>14 DEF Release
  <2>2. \A i \in Jobs : Truth'[i] = Truth[i]
    BY <1>2, <2>1 DEF Truth, Steady
  <2>3. QED
    BY <1>4, <2>1, <2>2 DEF CurrentInv
<1>15. QED
  BY <1>6, <1>7, <1>9, <1>10, <1>11, <1>12, <1>13, <1>14 DEF Worker

\* A page of the log says what the log says.
LEMMA PageFaithful ==
    ASSUME NEW q, NEW n, NumberedLog(q, n), NEW after \in Nat,
           Cardinality(Newer(q, after)) <= MaxPerPoll,
           NEW told, NEW truth, Voices(told, truth, q), NEW m, m.next_sequence = n - 1,
           m.events = LET newer == {i \in DOMAIN q : q[i].sequence > after}
                          seen  == Len(q) - Cardinality(newer)
                      IN  SubSeq(q, seen + 1, seen + Min({Cardinality(newer), MaxPerPoll}))
    PROVE  PageTrue(told, truth, m)
<1> DEFINE newer == {i \in DOMAIN q : q[i].sequence > after}
           seen  == Len(q) - Cardinality(newer)
           page  == SubSeq(q, seen + 1, seen + Min({Cardinality(newer), MaxPerPoll}))
<1>1. /\ n \in Nat \ {0} /\ Len(q) \in Nat /\ DOMAIN q = 1..Len(q)
      /\ \A i \in 1..Len(q) : q[i].sequence = (n - 1 - Len(q)) + i
  BY DEF NumberedLog
<1>2. seen \in 0..Len(q)
  BY PageTyped
<1>3. /\ DOMAIN page = 1..(Len(q) - seen) /\ Len(page) = Len(q) - seen
      /\ \A k \in 1..(Len(q) - seen) : page[k] = q[seen + k]
  BY PageUncut
<1>4. m.events = page
  OBVIOUS
<1> HIDE DEF seen, page
<1>5. \A k \in 1..(Len(q) - seen) : seen + k \in 1..Len(q)
  BY <1>1, <1>2
<1>6. Voices(told, truth, page)
  BY <1>1, <1>3, <1>5 DEF Voices
<1>7. ASSUME NEW k \in DOMAIN page
      PROVE  page[k].sequence = (n - 1 - Len(page)) + k
  <2>1. page[k].sequence = (n - 1 - Len(q)) + (seen + k)
    BY <1>1, <1>3, <1>5
  <2>2. (n - 1 - Len(q)) + (seen + k) = (n - 1 - (Len(q) - seen)) + k
    BY <1>1, <1>2, <1>3
  <2>3. QED
    BY <1>3, <2>1, <2>2
<1>8. QED
  BY <1>4, <1>6, <1>7 DEF PageTrue

\* The sidecar serves a request.
LEMMA ServeCurrent ==
    ASSUME FeedInv, CurrentInv, Serve, PageNotCut
    PROVE  CurrentInv'
<1>1. /\ asked # <<>> /\ UNCHANGED <<disk, gui, running, step, failing>> /\ next \in Nat \ {0}
      /\ disk \in [Jobs -> Status]
  BY DEF Serve, ServePoll, ServeList, ServeGet, ServeStart, RefuseRetry, ServeRetry, server,
         Serving, FeedInv, Numbered, NumberedLog, JobsTyped
<1>2. /\ known \in SUBSET (1..(next - 1)) /\ answered \in Seq(Replies(next))
      /\ Head(asked) \in Requests(next) /\ NumberedLog(log, next)
  BY <1>1, HeadTailProperties DEF FeedInv, Exchange, Numbered
<1>3. \A j \in Jobs \ FreshJobs : disk[j] # "absent"
  BY DEF CurrentInv
<1>4. ASSUME NEW m, Reply(m), UNCHANGED server,
             Dated(m) => DateOf(m) = next - 1,
             \A told : Voices(told, Truth, log) /\ m.kind = "events" => PageTrue(told, Truth, m),
             \A told : m.kind = "jobs" => TableTrue(told, Truth, m),
             m.kind = "job" /\ Truth[m.job] # Open => m.status = Truth[m.job]
      PROVE  CurrentInv'
  <2>1. Truth' = Truth /\ log' = log /\ next' = next /\ known' = known /\ shown' = shown
        /\ conn' = conn /\ answered' = Append(answered, m)
    BY <1>1, <1>4 DEF server, gui, Truth, Steady, Reply
  <2>2. ASSUME NEW told \in [Jobs -> 0..(next - 1)], Current(told)
        PROVE  RepliesTrue(told, Truth, known, Append(answered, m))
    <3>1. Voices(told, Truth, log) /\ RepliesTrue(told, Truth, known, answered)
      BY <2>2 DEF Current
    <3> DEFINE truth == Truth
    <3>2. /\ m.kind = "events" => PageTrue(told, truth, m)
          /\ m.kind = "jobs" => TableTrue(told, truth, m)
          /\ m.kind = "job" /\ truth[m.job] # Open => m.status = truth[m.job]
          /\ RepliesTrue(told, truth, known, answered)
      BY <1>4, <3>1
    <3> HIDE DEF truth
    <3>3. RepliesTrue(told, truth, known, Append(answered, m))
      BY <1>1, <1>2, <1>4, <3>2, RepliesAppend
    <3>4. QED
      BY <3>3 DEF truth
  <2>3. QED
    BY <1>1, <1>3, <2>1, <2>2 DEF CurrentInv, Current
<1>5. CASE ServePoll
  <2> DEFINE after == Head(asked).after
             newer == {i \in DOMAIN log : log[i].sequence > after}
             seen  == Len(log) - Cardinality(newer)
             page  == SubSeq(log, seen + 1, seen + Min({Cardinality(newer), MaxPerPoll}))
             m     == [kind |-> "events", events |-> page, next_sequence |-> next - 1,
                       oldest_sequence |-> IF log = <<>> THEN next ELSE log[1].sequence]
  <2>1. Reply(m) /\ UNCHANGED server
    BY <1>5 DEF ServePoll
  <2>2. after \in Nat
    <3>1. Head(asked) \in Polls(next)
      BY <1>2, <1>5, RequestKinds DEF ServePoll, Serving
    <3>2. QED
      BY <1>1, <3>1 DEF Polls
  <2>3. Cardinality(Newer(log, after)) <= MaxPerPoll
    BY <1>5 DEF PageNotCut
  <2>4. m.events = page /\ m.next_sequence = next - 1 /\ m.kind = "events"
    OBVIOUS
  <2> HIDE DEF m, after
  <2>5. \A told : Voices(told, Truth, log) => PageTrue(told, Truth, m)
    BY <1>2, <2>2, <2>3, <2>4, PageFaithful
  <2>6. QED
    BY <1>4, <2>1, <2>4, <2>5 DEF DateOf
<1>6. CASE ServeList
  <2> DEFINE m == [kind |-> "jobs", status |-> disk, upto |-> next - 1,
                   resume |-> Head(asked).resume, job |-> Head(asked).job]
  <2>1. Reply(m) /\ UNCHANGED server
    BY <1>6 DEF ServeList
  <2>2. m.kind = "jobs" /\ m.status = disk /\ m.upto = next - 1
    OBVIOUS
  <2> HIDE DEF m
  <2>3. \A told : TableTrue(told, Truth, m)
    BY <1>3, <2>2 DEF TableTrue, Truth
  <2>4. QED
    BY <1>4, <2>1, <2>2, <2>3 DEF DateOf
<1>7. CASE ServeGet
  <2> DEFINE m == [kind |-> "job", job |-> Head(asked).job, status |-> disk[Head(asked).job]]
  <2>1. Reply(m) /\ UNCHANGED server
    BY <1>7 DEF ServeGet
  <2>2. Head(asked).job \in Jobs
    BY <1>2, <1>7, RequestKinds DEF ServeGet, Serving, JobCalls
  <2>3. m.kind = "job" /\ m.job = Head(asked).job /\ m.status = disk[m.job]
    OBVIOUS
  <2> HIDE DEF m
  <2>4. Truth[m.job] # Open => m.status = Truth[m.job]
    BY <2>2, <2>3 DEF Truth
  <2>5. QED
    BY <1>4, <2>1, <2>3, <2>4 DEF Dated
<1>8. CASE RefuseRetry
  BY <1>4, <1>8 DEF RefuseRetry, Dated
<1>9. CASE ServeStart \/ ServeRetry
  <2> DEFINE j == Head(asked).job
  <2>1. j \in Jobs
    BY <1>2, <1>9, RequestKinds DEF ServeStart, ServeRetry, Serving, JobCalls
  <2>2. waiting' = waiting \cup {j}
    BY <1>9 DEF ServeStart, ServeRetry
  <2>3. Truth'[j] = Open /\ \A i \in Jobs \ {j} : Truth'[i] = Truth[i]
    BY <1>1, <2>1, <2>2 DEF Truth, Steady
  <2>4. PICK m : Reply(m) /\ m.kind \in {"started", "retried"}
    BY <1>9 DEF ServeStart, ServeRetry
  <2>5. PICK type, stat : type \in {"job_created", "status_changed"} /\ Emit(type, j, stat)
    BY <1>9 DEF ServeStart, ServeRetry
  <2>6. type \in Types /\ Speaks([type |-> type])
    BY <2>5 DEF Types, Speaks
  <2> HIDE DEF j
  <2>7. next' = next + 1 /\ next' - 1 = next /\ next' \in Nat \ {0}
    BY <1>1, <2>5 DEF Emit
  <2>8. answered \in Seq(Replies(next')) /\ known \in SUBSET (1..(next' - 1))
    BY <2>7, ExchangeGrows
  <2>9. ASSUME NEW told \in [Jobs -> 0..(next - 1)], Current(told)
        PROVE  \E told2 \in [Jobs -> 0..(next' - 1)] :
                  /\ Voices(told2, Truth', log')
                  /\ RepliesTrue(told2, Truth', known, answered')
                  /\ conn = "ready" => ShownTrue(told2, Truth', known, shown)
    <3>1. PICK told2 \in [Jobs -> 0..next] :
             /\ Voices(told2, Truth', log')
             /\ RepliesTrue(told2, Truth', known, answered)
             /\ conn = "ready" => ShownTrue(told2, Truth', known, shown)
      BY <2>1, <2>3, <2>5, <2>6, <2>9, SidecarEmits
    <3> DEFINE truth2 == Truth'
    <3>2. RepliesTrue(told2, truth2, known, answered)
      BY <3>1
    <3> HIDE DEF truth2
    <3>3. RepliesTrue(told2, truth2, known, Append(answered, m))
      BY <2>4, <2>7, <2>8, <3>2, RepliesAppend DEF Dated
    <3>4. QED
      BY <2>4, <2>7, <3>1, <3>3 DEF Reply, truth2
  <2>10. QED
    BY <1>1, <1>3, <2>9 DEF CurrentInv, Current, gui
<1>10. QED
  BY <1>5, <1>6, <1>7, <1>8, <1>9 DEF Serve

\* The GUI handles a reply.
LEMMA HandleCurrent ==
    ASSUME FeedInv, CurrentInv, Handle
    PROVE  CurrentInv'
<1> DEFINE m == Head(answered)
<1>1. /\ answered # <<>> /\ UNCHANGED server /\ answered' = Tail(answered)
      /\ next \in Nat \ {0} /\ disk \in [Jobs -> Status]
  BY DEF Handle, Resync, ApplyEvents, RefreshJobs, ShowJob, Started, Retried, Rejected, Handling,
         Then, FeedInv, Numbered, NumberedLog, JobsTyped
<1>2. /\ answered \in Seq(Replies(next)) /\ known \in SUBSET (1..(next - 1))
      /\ shown \in [Jobs -> Shown] /\ m \in Replies(next)
      /\ m = answered[1] /\ 1 \in DOMAIN answered
  BY <1>1, HeadTailProperties DEF FeedInv, Exchange
<1>3. Truth' = Truth /\ log' = log /\ next' = next /\ disk' = disk
  BY <1>1 DEF server, Truth, Steady
<1>4. \A j \in Jobs \ FreshJobs : disk'[j] # "absent"
  BY <1>3 DEF CurrentInv
<1> HIDE DEF m
<1>5. ASSUME NEW told \in [Jobs -> 0..(next - 1)], Current(told)
      PROVE  /\ ReplyTrue(told, Truth, known, answered, 1)
             /\ RepliesTrue(told, Truth, known, answered)
             /\ conn = "ready" => ShownTrue(told, Truth, known, shown)
  BY <1>2, <1>5 DEF Current, RepliesTrue
\* What is left to show: nothing but the reply's news is known, and what is
\* shown is current.
<1>6. ASSUME conn' # "reconnecting", conn # "reconnecting",
             \A told \in [Jobs -> 0..(next - 1)] : Current(told) =>
                /\ known' \subseteq known \cup (IF Dated(m) THEN 1..DateOf(m) ELSE {})
                /\ conn' = "ready" => ShownTrue(told, Truth, known', shown')
      PROVE  CurrentInv'
  <2>1. PICK told \in [Jobs -> 0..(next - 1)] : Current(told)
    BY <1>6 DEF CurrentInv
  <2> DEFINE truth == Truth
             L     == known'
  <2>2. /\ RepliesTrue(told, truth, known, answered)
        /\ L \subseteq known \cup (IF Dated(m) THEN 1..DateOf(m) ELSE {})
    BY <1>5, <1>6, <2>1
  <2> HIDE DEF truth, L
  <2>3. RepliesTrue(told, truth, L, Tail(answered))
    BY <1>1, <1>2, <2>2, RepliesTail DEF m
  <2>4. Voices(told, Truth, log) /\ (conn' = "ready" => ShownTrue(told, Truth, known', shown'))
    BY <1>6, <2>1 DEF Current
  <2>5. Current(told)'
    BY <1>1, <1>3, <2>3, <2>4 DEF Current, truth, L
  <2>6. QED
    BY <1>3, <1>4, <2>5 DEF CurrentInv
<1>7. CASE conn = "reconnecting" \/ Rejected
  <2>1. conn' = "reconnecting"
    BY <1>7 DEF Handle, Resync, ApplyEvents, RefreshJobs, ShowJob, Started, Retried, Rejected, gui
  <2>2. QED
    BY <1>4, <2>1 DEF CurrentInv
<1>8. CASE conn # "reconnecting" /\ (Resync \/ Started \/ Retried)
  <2>1. UNCHANGED gui
    BY <1>8 DEF Resync, Started, Retried
  <2>2. known' = known /\ conn' = conn /\ shown' = shown
    BY <2>1 DEF gui
  <2>3. QED
    BY <1>5, <1>6, <1>8, <2>2
<1>9. CASE conn # "reconnecting" /\ ApplyEvents
  <2>1. /\ m \in Pages(next) /\ m.kind = "events" /\ conn' = conn
        /\ shown' = Applied(m.events) /\ known' = known \cup Numbers(m.events)
    BY <1>2, <1>9, ReplyKinds DEF ApplyEvents, Handling, Numbers, m
  <2>2. ASSUME NEW told \in [Jobs -> 0..(next - 1)], Current(told)
        PROVE  /\ known' \subseteq known \cup (IF Dated(m) THEN 1..DateOf(m) ELSE {})
               /\ conn' = "ready" => ShownTrue(told, Truth, known', shown')
    <3> DEFINE truth == Truth
    <3>1. /\ PageTrue(told, truth, m) /\ known \subseteq 1..m.next_sequence
          /\ conn = "ready" => ShownTrue(told, truth, known, shown)
      BY <1>2, <1>5, <2>1, <2>2 DEF ReplyTrue, Dated, DateOf
    <3>2. Numbers(m.events) \subseteq 1..m.next_sequence
      <4>1. m.events \in Seq(Events(next)) /\ m.next_sequence \in Nat
        <5>1. m.events \in Seq(Events(next)) /\ m.next_sequence \in 0..(next - 1)
          BY <2>1 DEF Pages
        <5>2. QED
          BY <5>1
      <4> DEFINE ev == m.events
      <4>2. Len(ev) \in Nat /\ DOMAIN ev = 1..Len(ev)
        BY <4>1
      <4>3. ASSUME NEW i \in DOMAIN ev PROVE ev[i].sequence \in 1..m.next_sequence
        <5>1. ev[i].sequence \in 1..(next - 1)
          BY <4>1 DEF Events
        <5>2. ev[i].sequence = (m.next_sequence - Len(ev)) + i
          BY <3>1 DEF PageTrue
        <5>3. QED
          BY <4>1, <4>2, <5>1, <5>2
      <4>4. QED
        BY <4>2, <4>3 DEF Numbers, ToSet
    <3> HIDE DEF truth
    <3>3. conn = "ready" =>
            ShownTrue(told, truth, known \cup Numbers(m.events), Applied(m.events))
      BY <1>1, <1>2, <2>1, <3>1, PageShows
    <3>4. QED
      BY <2>1, <3>2, <3>3 DEF Dated, DateOf, truth
  <2>3. QED
    BY <1>6, <1>9, <2>1, <2>2
<1>10. CASE conn # "reconnecting" /\ RefreshJobs
  <2>1. /\ m \in Tables(next) /\ m.kind = "jobs" /\ conn' # "reconnecting"
        /\ shown' = [j \in Jobs |-> Listed(m.status[j])] /\ known' = known \cup 1..m.upto
    BY <1>2, <1>10, ReplyKinds DEF RefreshJobs, Handling, Listed, m
  <2>2. m.status \in [Jobs -> Status] /\ m.upto \in Nat
    <3>1. m.status \in [Jobs -> Status] /\ m.upto \in 0..(next - 1)
      BY <2>1 DEF Tables
    <3>2. QED
      BY <3>1
  <2>3. ASSUME NEW told \in [Jobs -> 0..(next - 1)], Current(told)
        PROVE  /\ known' \subseteq known \cup (IF Dated(m) THEN 1..DateOf(m) ELSE {})
               /\ ShownTrue(told, Truth, known', shown')
    <3> DEFINE truth == Truth
               L     == known'
               jobs  == shown'
    <3>1. TableTrue(told, truth, m) /\ known \subseteq 1..m.upto
      BY <1>2, <1>5, <2>1, <2>3 DEF ReplyTrue, Dated, DateOf
    <3>2. L = 1..m.upto /\ jobs = [j \in Jobs |-> Listed(m.status[j])]
      BY <2>1, <3>1
    <3> HIDE DEF truth, L, jobs
    <3>3. ASSUME NEW j \in Jobs, truth[j] # Open, Heard(told, L, j)
          PROVE  jobs[j] = Listed(truth[j])
      <4>1. told[j] <= m.upto
        BY <2>2, <3>2, <3>3 DEF Heard
      <4>2. QED
        BY <3>1, <3>2, <3>3, <4>1 DEF TableTrue
    <3>4. ASSUME NEW j \in Jobs, j \notin FreshJobs PROVE jobs[j] # "unlisted"
      <4>1. m.status[j] # "absent" /\ m.status[j] # "unlisted"
        BY <2>2, <3>1, <3>4 DEF TableTrue, Status
      <4>2. QED
        BY <3>2, <4>1 DEF Listed
    <3>5. ShownTrue(told, truth, L, jobs)
      BY <3>3, <3>4 DEF ShownTrue, Agrees
    <3>6. QED
      BY <2>1, <3>5 DEF Dated, DateOf, truth, L, jobs
  <2>4. QED
    BY <1>6, <1>10, <2>1, <2>3
<1>11. CASE conn # "reconnecting" /\ ShowJob
  <2>1. /\ m \in JobReplies /\ m.kind = "job" /\ conn' = conn /\ known' = known
        /\ shown' = IF "absent" = m.status \/ shown[m.job] = "unlisted"
                      THEN shown ELSE [shown EXCEPT ![m.job] = m.status]
    BY <1>2, <1>11, ReplyKinds DEF ShowJob, Handling, m
  <2>2. m.job \in Jobs /\ m.status \in Status
    BY <2>1 DEF JobReplies
  <2>3. ASSUME NEW told \in [Jobs -> 0..(next - 1)], Current(told), conn = "ready"
        PROVE  ShownTrue(told, Truth, known', shown')
    <3> DEFINE truth == Truth
               jobs  == shown'
    <3>1. /\ ShownTrue(told, truth, known, shown)
          /\ truth[m.job] # Open /\ Heard(told, known, m.job) => m.status = truth[m.job]
      BY <1>2, <1>5, <2>1, <2>3 DEF ReplyTrue
    <3>2. jobs = IF "absent" = m.status \/ shown[m.job] = "unlisted"
                   THEN shown ELSE [shown EXCEPT ![m.job] = m.status]
      BY <2>1
    <3> HIDE DEF truth, jobs
    <3>3. CASE jobs = shown
      BY <2>1, <3>1, <3>3 DEF truth, jobs
    <3>4. CASE m.status # "absent" /\ jobs = [shown EXCEPT ![m.job] = m.status]
      <4>1. \A j \in Jobs : j # m.job => jobs[j] = shown[j]
        BY <1>2, <3>4
      <4>2. jobs[m.job] = m.status /\ m.status # "unlisted"
        BY <1>2, <2>2, <3>4 DEF Status
      <4>3. truth[m.job] # Open /\ Heard(told, known, m.job) =>
              Agrees(jobs[m.job], truth[m.job], m.job)
        BY <3>1, <3>4, <4>2 DEF Agrees, Listed
      <4>4. ShownTrue(told, truth, known, jobs)
        BY <3>1, <4>1, <4>2, <4>3 DEF ShownTrue
      <4>5. QED
        BY <2>1, <4>4 DEF truth, jobs
    <3>5. QED
      BY <3>2, <3>3, <3>4
  <2>4. QED
    BY <1>6, <1>11, <2>1, <2>3
<1>12. QED
  BY <1>7, <1>8, <1>9, <1>10, <1>11 DEF Handle

\* The GUI asks; the sidecar is lost; a new one starts with an empty log.
LEMMA OthersCurrent ==
    ASSUME FeedInv, CurrentInv,
           \/ PollTimer \/ Lose \/ Reconnect \/ UNCHANGED vars
           \/ \E j \in Jobs : StartClicked(j) \/ RetryClicked(j) \/ DetailsOpened(j)
    PROVE  CurrentInv'
<1>1. ASSUME UNCHANGED <<server, gui, answered>> PROVE CurrentInv'
  <2>1. Truth' = Truth /\ UNCHANGED <<disk, log, next, known, shown, conn, answered>>
    BY <1>1 DEF server, gui, Truth, Steady
  <2>2. QED
    BY <2>1 DEF CurrentInv, Current
<1>2. CASE PollTimer \/ UNCHANGED vars
  BY <1>1, <1>2 DEF PollTimer, Send, vars
<1>3. CASE \E j \in Jobs : StartClicked(j) \/ RetryClicked(j) \/ DetailsOpened(j)
  BY <1>1, <1>3 DEF StartClicked, RetryClicked, DetailsOpened, Send
<1>4. CASE Lose
  BY <1>4 DEF Lose, CurrentInv
<1>5. CASE Reconnect
  <2> DEFINE told == [j \in Jobs |-> 0]
  <2>1. /\ disk' = [j \in Jobs |-> IF disk[j] = "running" THEN "failed" ELSE disk[j]]
        /\ log' = <<>> /\ answered' = <<>> /\ next' = 1 /\ conn' = "listing"
    BY <1>5 DEF Reconnect
  <2>2. told \in [Jobs -> 0..(next' - 1)]
    BY <2>1
  <2>3. Current(told)'
    BY <2>1 DEF Current, Voices, RepliesTrue
  <2>4. \A j \in Jobs \ FreshJobs : disk'[j] # "absent"
    BY <2>1 DEF CurrentInv
  <2> HIDE DEF told
  <2>5. QED
    BY <2>1, <2>2, <2>3, <2>4 DEF CurrentInv
<1>6. QED
  BY <1>2, <1>3, <1>4, <1>5

(***************************************************************************)
(* A GUI that has caught up is current: as long as no page is cut, when    *)
(* nothing runs, nothing is under way and the cursor has reached the last  *)
(* event, each job is shown as it is on disk, whatever was dropped from    *)
(* the log, asked twice, applied again or answered late (applyEvent,       *)
(* refreshJobs, getJob); except for a job last told as job_failed, which   *)
(* carries no status, and a new job the next list will bring.              *)
(***************************************************************************)
THEOREM CaughtUpShowsDisk ==
    Spec /\ [][PageNotCut]_vars => []CaughtUpIsCurrent
<1>1. Init => CurrentInv
  BY JobsAssumption DEF Init, CurrentInv
<1>2. FeedInv /\ CurrentInv /\ [Next]_vars /\ [PageNotCut]_vars => CurrentInv'
  BY WorkerCurrent, ServeCurrent, HandleCurrent, OthersCurrent DEF Next
<1>3. FeedInv /\ CurrentInv /\ NoSilentLoss => CaughtUpIsCurrent
  <2> SUFFICES ASSUME FeedInv, CurrentInv, NoSilentLoss, Quiet,
                      NEW j \in Jobs \ (failing \cup Missing)
               PROVE  shown[j] = IF disk[j] = "absent" THEN "unlisted" ELSE disk[j]
    BY DEF CaughtUpIsCurrent
  <2>1. /\ next \in Nat \ {0} /\ conn = "ready" /\ Outstanding = {} /\ cursor = next - 1
        /\ \A s \in 1..(next - 1) : s \in known
    BY DEF FeedInv, Numbered, NumberedLog, Quiet, NoSilentLoss
  <2>2. PICK told \in [Jobs -> 0..(next - 1)] : Current(told)
    BY <2>1 DEF CurrentInv
  <2>3. Heard(told, known, j)
    <3>1. told[j] \in 0..(next - 1)
      OBVIOUS
    <3>2. \A a \in 0..(next - 1) : a = 0 \/ a \in 1..(next - 1)
      BY <2>1
    <3>3. QED
      BY <2>1, <3>1, <3>2 DEF Heard
  <2>4. Truth[j] = disk[j] /\ disk[j] # Open
    BY <2>1, JobsAssumption DEF Truth, Steady, Outstanding, FeedInv, JobsTyped, Status, Open
  <2>5. Agrees(shown[j], disk[j], j)
    BY <2>1, <2>2, <2>3, <2>4 DEF Current, ShownTrue
  <2>6. QED
    BY <2>5 DEF Agrees, Listed, Missing
<1>4. QED
  BY <1>1, <1>2, <1>3, FeedInvariant, OnlyCutPagesLose, PTL DEF Spec

\* So with pages as long as the log a GUI that has caught up is current (Feed).
COROLLARY NothingShownStale ==
    ASSUME MaxPerPoll >= MaxRetained
    PROVE  Spec => []CaughtUpIsCurrent
  BY LongPagesFit, CaughtUpShowsDisk, PTL
=============================================================================
