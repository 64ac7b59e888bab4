--------------------------- MODULE CronServiceProofs ---------------------------
(***************************************************************************)
(* Theorems of CronService, for any jobs, moments and period, and any      *)
(* number of edits, failures and restarts.                                 *)
(***************************************************************************)
EXTENDS CronService, WellFoundedInduction, TLAPS

Jobs == [Job -> Entry \cup {NoJob}]

-----------------------------------------------------------------------------
(***************************************************************************)
(* Schedules                                                               *)
(***************************************************************************)

\* A next run is a time; a one-shot schedule's is its moment, while that is
\* to come, and none otherwise.
LEMMA NextRunTyped ==
    ASSUME TypeOK, NEW j \in Job, NEW once \in BOOLEAN
    PROVE  /\ NextRun(j, once) \in Nat
           /\ once /\ NextRun(j, once) # 0 =>
                NextRun(j, once) = AtTime[j] /\ AtTime[j] > now
<1>1. AtTime[j] \in Nat \ {0} /\ Period \in Nat \ {0} /\ now \in Nat
  BY CronConstants DEF CronConstants, TypeOK
<1>2. QED
  BY <1>1 DEF NextRun

\* Times have an earliest one.
LEMMA EarliestExists ==
    ASSUME NEW T, T \subseteq Nat, T # {}
    PROVE  Min(T) \in T /\ \A m \in T : Min(T) <= m
<1> DEFINE Less == OpToRel(<, Nat)
<1>1. Less = {ss \in Nat \X Nat : ss[1] < ss[2]}
  BY DEF OpToRel
<1>2. IsWellFoundedOn(Less, Nat)
  BY NatLessThanWellFounded
<1> HIDE DEF Less
<1>3. PICK n \in T : \A m \in T : <<m, n>> \notin Less
  BY <1>2, WFMin
<1>4. \A m \in T : n <= m
  <2>1. SUFFICES ASSUME NEW m \in T PROVE n <= m
    OBVIOUS
  <2>2. n \in Nat /\ m \in Nat /\ <<m, n>> \notin Less
    BY <1>3
  <2>3. ~(m < n)
    BY <1>1, <2>2
  <2>4. QED
    BY <2>2, <2>3
<1>5. QED
  BY <1>3, <1>4 DEF Min

\* The timer is set for the earliest of the scheduled jobs.
LEMMA NextWakeIsEarliest ==
    ASSUME NEW jobs \in Jobs
    PROVE  /\ NextWake(jobs) \in Nat
           /\ \A j \in Scheduled(jobs) : NextWake(jobs) # 0 /\ NextWake(jobs) <= jobs[j].next
<1>1. \A j \in Scheduled(jobs) : j \in Job /\ jobs[j] \in Entry /\ jobs[j].next \in Nat \ {0}
  BY DEF Scheduled, Jobs, Entry
<1>2. CASE Scheduled(jobs) = {}
  BY <1>2 DEF NextWake
<1>3. CASE Scheduled(jobs) # {}
  <2> DEFINE Times == {jobs[j].next : j \in Scheduled(jobs)}
  <2>1. Times \in SUBSET Nat /\ Times # {}
    BY <1>1, <1>3
  <2>3. Min(Times) \in Times /\ \A m \in Times : Min(Times) <= m
    BY <2>1, EarliestExists
  <2>4. NextWake(jobs) = Min(Times)
    BY <1>3 DEF NextWake
  <2>5. QED
    BY <1>1, <2>3, <2>4
<1>4. QED
  BY <1>2, <1>3

\* What is loaded is a store, and the handles it detaches are handles.
LEMMA LoadedTyped ==
    ASSUME TypeOK
    PROVE  Loaded \in Jobs /\ Detached \in Seq(Handle)
<1>1. CASE fresh
  BY <1>1 DEF TypeOK, Loaded, Detached, Jobs
<1>2. CASE ~fresh
  <2>1. Loaded \in Jobs
    BY <1>2 DEF TypeOK, Loaded, Jobs
  <2>2. deferred \in Seq(Handle) /\ DOMAIN deferred = 1..Len(deferred) /\ Len(deferred) \in Nat
    BY DEF TypeOK
  <2>3. \A h \in Handle : [h EXCEPT !.live = FALSE] \in Handle
    BY DEF Handle
  <2>4. QED
    BY <1>2, <2>1, <2>2, <2>3 DEF Detached
<1>3. QED
  BY <1>1, <1>2

\* Before the service starts there are no jobs.
LEMMA InitTyped == Init => TypeOK
<1> SUFFICES ASSUME Init PROVE TypeOK
  OBVIOUS
<1>1. now \in 0..MaxTime /\ edits \in 0..MaxEdits /\ failures \in 0..MaxFailures
      /\ restarts \in 0..MaxRestarts
  BY CronConstants DEF CronConstants, Init
<1>2. /\ running \in BOOLEAN /\ fresh \in BOOLEAN /\ late \in BOOLEAN
      /\ tick \in BOOLEAN /\ unarmed \in BOOLEAN
  BY DEF Init
<1>3. store \in [Job -> Entry \cup {NoJob}] /\ disk \in [Job -> Entry \cup {NoJob}]
  BY DEF Init, NoJobs
<1>4. /\ timer \in Nat /\ due \subseteq Job
      /\ lock \in {"free", "timer", "flush"}
      /\ flushing \in Seq(Handle) /\ deferred \in Seq(Handle)
  BY DEF Init
<1>5. /\ asked \in [Job -> {"nothing", "wanted", "withdrawn"}]
      /\ fired \in [Job -> Nat]
  BY DEF Init
<1>6. QED
  BY <1>1, <1>2, <1>3, <1>4, <1>5 DEF TypeOK

\* What the operations leave in the variables they end with.
StoreTyped == /\ store \in Jobs /\ disk \in Jobs /\ fresh \in BOOLEAN
              /\ timer \in Nat /\ unarmed \in BOOLEAN
              /\ edits \in 0..MaxEdits /\ failures \in 0..MaxFailures
              /\ restarts \in 0..MaxRestarts

\* saveStore keeps the types, whether it succeeds or not.
LEMMA SaveTyped ==
    ASSUME TypeOK, NEW jobs \in Jobs, Save(jobs)
    PROVE  /\ store' \in Jobs /\ disk' \in Jobs /\ fresh' \in BOOLEAN
           /\ edits' \in 0..MaxEdits /\ failures' \in 0..MaxFailures
           /\ restarts' \in 0..MaxRestarts
<1>1. CASE SaveOK(jobs) /\ UNCHANGED counters
  BY <1>1 DEF SaveOK, TypeOK, counters
<1>2. CASE SaveFails(jobs)
  <2>1. failures' \in 0..MaxFailures
    BY <1>2, CronConstants DEF CronConstants, SaveFails, TypeOK
  <2>2. QED
    BY <1>2, <2>1 DEF SaveFails, TypeOK, Jobs
<1>3. QED
  BY <1>1, <1>2 DEF Save

\* So does a save followed by arming the timer.
LEMMA CommitTyped ==
    ASSUME TypeOK, NEW jobs \in Jobs, Commit(jobs)
    PROVE  StoreTyped'
<1>1. Save(jobs)
  BY DEF Commit, Save
<1>2. timer' \in Nat /\ unarmed' \in BOOLEAN
  BY NextWakeIsEarliest DEF Commit, Arm, TypeOK
<1>3. QED
  BY <1>1, <1>2, SaveTyped DEF StoreTyped

\* New states of a job.
LEMMA EntriesTyped ==
    ASSUME TypeOK, NEW jobs \in Jobs, NEW j \in Job, jobs[j] # NoJob
    PROVE  /\ jobs[j] \in Entry
           /\ Advance(j, jobs[j]) \in Entry
           /\ Executed(j, jobs[j]) \in Entry \cup {NoJob}
<1>1. jobs[j] \in Entry
  BY DEF Jobs
<1>2. NextRun(j, FALSE) \in Nat
  BY NextRunTyped
<1>3. Advance(j, jobs[j]) \in Entry
  BY <1>1, <1>2 DEF Advance, Entry
<1>4. QED
  BY <1>1, <1>3 DEF Executed

\* recomputeNextRuns changes nothing but next runs.
LEMMA RecomputedTyped ==
    ASSUME TypeOK, NEW jobs \in Jobs
    PROVE  Recomputed(jobs) \in Jobs
<1>1. \A j \in Job : jobs[j] # NoJob =>
        [jobs[j] EXCEPT !.next = NextRun(j, jobs[j].once)] \in Entry
  <2>1. SUFFICES ASSUME NEW j \in Job, jobs[j] # NoJob
                 PROVE  [jobs[j] EXCEPT !.next = NextRun(j, jobs[j].once)] \in Entry
    OBVIOUS
  <2>2. jobs[j] \in Entry /\ jobs[j].once \in BOOLEAN
    BY <2>1 DEF Jobs, Entry
  <2>3. NextRun(j, jobs[j].once) \in Nat
    BY <2>2, NextRunTyped
  <2>4. QED
    BY <2>2, <2>3 DEF Entry
<1>2. \A j \in Job : jobs[j] \in Entry \cup {NoJob}
  BY DEF Jobs
<1>3. QED
  BY <1>1, <1>2 DEF Recomputed, Jobs

\* Handles that lose their job, or see its new schedule, stay handles.
Rescheduled(j, s, wanted) ==
    [i \in DOMAIN s |-> IF wanted /\ s[i].job = j /\ s[i].live
                        THEN [s[i] EXCEPT !.once = FALSE] ELSE s[i]]

\* Dropping or rescheduling a job leaves a queue of handles.
LEMMA HandlesTyped ==
    ASSUME NEW s \in Seq(Handle), NEW j \in Job, NEW wanted \in BOOLEAN
    PROVE  Dropped(j, s) \in Seq(Handle) /\ Rescheduled(j, s, wanted) \in Seq(Handle)
<1>1. /\ Len(s) \in Nat /\ DOMAIN s = 1..Len(s)
      /\ \A i \in 1..Len(s) : s[i] \in Handle
  OBVIOUS
<1>2. \A h \in Handle : /\ [h EXCEPT !.live = FALSE] \in Handle
                        /\ [h EXCEPT !.once = FALSE] \in Handle
  BY DEF Handle
<1>3. Dropped(j, s) \in [1..Len(s) -> Handle]
  <2>1. \A i \in 1..Len(s) : (IF s[i].job = j THEN [s[i] EXCEPT !.live = FALSE] ELSE s[i]) \in Handle
    BY <1>1, <1>2
  <2>2. QED
    BY <1>1, <2>1 DEF Dropped
<1>4. Rescheduled(j, s, wanted) \in [1..Len(s) -> Handle]
  <2>1. \A i \in 1..Len(s) : (IF wanted /\ s[i].job = j /\ s[i].live
                              THEN [s[i] EXCEPT !.once = FALSE] ELSE s[i]) \in Handle
    BY <1>1, <1>2
  <2>2. QED
    BY <1>1, <2>1 DEF Rescheduled
<1>5. \A f \in [1..Len(s) -> Handle] : f \in Seq(Handle)
  BY <1>1
<1>6. QED
  BY <1>3, <1>4, <1>5

-----------------------------------------------------------------------------
(***************************************************************************)
(* The API.  All its operations but the reading ones come down to this:    *)
(* some new store is committed under the lock, in which a one-shot entry   *)
(* is as it was or is scheduled for a moment to come, and the deferred     *)
(* handles are the same, or more modest.                                   *)
(***************************************************************************)
Operates(jobs) == /\ Operation /\ Commit(jobs)
                  /\ UNCHANGED <<now, running, late, tick, due, flushing, lock, fired>>

Benign(jobs) ==
    \A j \in Scheduled(jobs) : jobs[j].once =>
        \/ /\ j \in Scheduled(Loaded)
           /\ Loaded[j].once
           /\ jobs[j].next = Loaded[j].next
        \/ jobs[j].next = AtTime[j] /\ AtTime[j] > now

HandlesKept == /\ deferred' \in Seq(Handle)
               /\ DOMAIN deferred' = DOMAIN deferred
               /\ \A i \in DOMAIN deferred : /\ deferred'[i].job = deferred[i].job
                                             /\ deferred'[i].once => deferred[i].once

AskedTyped == asked \in [Job -> {"nothing", "wanted", "withdrawn"}]

Committed == /\ \E jobs \in Jobs : Operates(jobs) /\ Benign(jobs)
             /\ HandlesKept
             /\ AskedTyped'

\* Loading the store anew leaves the handles what they were about.
LEMMA DetachedKeeps ==
    ASSUME TypeOK
    PROVE  /\ DOMAIN Detached = DOMAIN deferred
           /\ \A i \in DOMAIN deferred : /\ Detached[i].job = deferred[i].job
                                         /\ Detached[i].once = deferred[i].once
<1>1. \A i \in DOMAIN deferred : deferred[i] \in Handle
  BY DEF TypeOK
<1>2. \A h \in Handle : /\ [h EXCEPT !.live = FALSE].job = h.job
                        /\ [h EXCEPT !.live = FALSE].once = h.once
  BY DEF Handle
<1>3. QED
  BY <1>1, <1>2 DEF Detached

\* Loading the store anew leaves every deferred job in its place.
LEMMA DetachedKept ==
    ASSUME TypeOK, deferred' = Detached
    PROVE  HandlesKept
  BY LoadedTyped, DetachedKeeps DEF HandlesKept

\* So does dropping a job, or rescheduling it.
LEMMA DroppedKept ==
    ASSUME TypeOK, NEW j \in Job, deferred' = Dropped(j, Detached)
    PROVE  HandlesKept
<1>1. Detached \in Seq(Handle) /\ DOMAIN Detached = DOMAIN deferred
  BY LoadedTyped, DetachedKeeps
<1>2. \A i \in DOMAIN deferred : Detached[i] \in Handle
  BY <1>1
<1>3. \A h \in Handle : /\ [h EXCEPT !.live = FALSE].job = h.job
                        /\ [h EXCEPT !.live = FALSE].once = h.once
  BY DEF Handle
<1>4. /\ DOMAIN deferred' = DOMAIN deferred
      /\ \A i \in DOMAIN deferred : /\ deferred'[i].job = Detached[i].job
                                    /\ deferred'[i].once = Detached[i].once
  BY <1>1, <1>2, <1>3 DEF Dropped
<1>5. deferred' \in Seq(Handle)
  BY <1>1, HandlesTyped
<1>6. QED
  BY <1>4, <1>5, DetachedKeeps DEF HandlesKept

\* Rescheduling a job changes none of the other handles.
LEMMA RescheduledKept ==
    ASSUME TypeOK, NEW j \in Job, NEW wanted \in BOOLEAN,
           deferred' = Rescheduled(j, Detached, wanted)
    PROVE  HandlesKept
<1>1. Detached \in Seq(Handle) /\ DOMAIN Detached = DOMAIN deferred
  BY LoadedTyped, DetachedKeeps
<1>2. \A i \in DOMAIN deferred : Detached[i] \in Handle
  BY <1>1
<1>3. \A h \in Handle : /\ [h EXCEPT !.once = FALSE].job = h.job
                        /\ [h EXCEPT !.once = FALSE].once = FALSE
  BY DEF Handle
<1>4. /\ DOMAIN deferred' = DOMAIN deferred
      /\ \A i \in DOMAIN deferred : /\ deferred'[i].job = Detached[i].job
                                    /\ deferred'[i].once => Detached[i].once
  BY <1>1, <1>2, <1>3 DEF Rescheduled
<1>5. deferred' \in Seq(Handle)
  BY <1>1, HandlesTyped
<1>6. QED
  BY <1>4, <1>5, DetachedKeeps DEF HandlesKept

\* What one changed entry makes of a store.
LEMMA OneEntryBenign ==
    ASSUME TypeOK, NEW j \in Job, NEW e \in Entry \cup {NoJob},
           e # NoJob /\ e.enabled /\ e.next # 0 /\ e.once =>
             \/ /\ Loaded[j] # NoJob /\ Loaded[j].enabled /\ Loaded[j].once
                /\ e.next = Loaded[j].next
             \/ e.next = AtTime[j] /\ AtTime[j] > now
    PROVE  /\ [Loaded EXCEPT ![j] = e] \in Jobs
           /\ Benign([Loaded EXCEPT ![j] = e])
<1>1. Loaded \in Jobs
  BY LoadedTyped
<1>2. [Loaded EXCEPT ![j] = e] \in Jobs
  BY <1>1 DEF Jobs
<1>3. ASSUME NEW k \in Scheduled([Loaded EXCEPT ![j] = e]), [Loaded EXCEPT ![j] = e][k].once
      PROVE  \/ /\ k \in Scheduled(Loaded)
                /\ Loaded[k].once
                /\ [Loaded EXCEPT ![j] = e][k].next = Loaded[k].next
             \/ [Loaded EXCEPT ![j] = e][k].next = AtTime[k] /\ AtTime[k] > now
  <2>1. CASE k # j
    BY <1>1, <1>3, <2>1 DEF Jobs, Scheduled
  <2>2. CASE k = j
    BY <1>1, <1>3, <2>2 DEF Jobs, Scheduled
  <2>3. QED
    BY <2>1, <2>2
<1>4. QED
  BY <1>2, <1>3 DEF Benign

\* Every operation that changes a job is such a step.
LEMMA ApiCommits ==
    ASSUME TypeOK, Api
    PROVE  Committed \/ ReadJobs
<1>0. Loaded \in Jobs /\ Detached \in Seq(Handle)
  BY LoadedTyped
<1> DEFINE With(j, e) == [Loaded EXCEPT ![j] = e]
<1>1. ASSUME NEW j \in Job, NEW once \in BOOLEAN, NEW wait \in BOOLEAN, AddJob(j, once, wait)
      PROVE  Committed
  <2> DEFINE e == [enabled |-> TRUE, next |-> NextRun(j, once), once |-> once, wait |-> wait]
  <2>1. e \in Entry /\ (once /\ e.next # 0 => e.next = AtTime[j] /\ AtTime[j] > now)
    BY NextRunTyped DEF Entry
  <2>2. With(j, e) \in Jobs /\ Benign(With(j, e))
    <3>1. e \in Entry \cup {NoJob} /\ e.once = once
      BY <2>1
    <3> HIDE DEF e
    <3>2. QED
      BY <2>1, <3>1, OneEntryBenign
  <2>3. Operates(With(j, e))
    BY <1>1 DEF AddJob, Operates
  <2>4. AskedTyped'
    BY <1>1 DEF AddJob, AskedTyped, TypeOK
  <2>5. HandlesKept
    BY <1>1, DetachedKept DEF AddJob
  <2>6. QED
    BY <2>2, <2>3, <2>4, <2>5 DEF Committed
<1>2. ASSUME NEW j \in Job, RemoveJob(j) PROVE Committed
  <2>1. With(j, NoJob) \in Jobs /\ Benign(With(j, NoJob))
    BY OneEntryBenign
  <2>2. Operates(With(j, NoJob))
    BY <1>2 DEF RemoveJob, Operates
  <2>3. AskedTyped'
    BY <1>2 DEF RemoveJob, AskedTyped, TypeOK
  <2>4. HandlesKept
    BY <1>0, <1>2, DroppedKept DEF RemoveJob
  <2>5. QED
    BY <2>1, <2>2, <2>3, <2>4 DEF Committed
<1>3. ASSUME NEW j \in Job, NEW again \in BOOLEAN, NEW wait \in BOOLEAN, UpdateJob(j, again, wait)
      PROVE  Committed
  <2> DEFINE kept == [Loaded[j] EXCEPT !.wait = wait]
             e == IF again THEN [kept EXCEPT !.once = FALSE, !.next = NextRun(j, FALSE)] ELSE kept
  <2>1. Loaded[j] \in Entry /\ Loaded[j] # NoJob
    BY <1>0, <1>3 DEF UpdateJob, Jobs
  <2>2. NextRun(j, FALSE) \in Nat
    BY NextRunTyped
  <2>3. /\ e \in Entry
        /\ e.once => Loaded[j].once
        /\ e.once => e.enabled = Loaded[j].enabled /\ e.next = Loaded[j].next
    <3>1. CASE again
      BY <2>1, <2>2, <3>1 DEF Entry
    <3>2. CASE ~again
      BY <2>1, <2>2, <3>2 DEF Entry
    <3>3. QED
      BY <3>1, <3>2
  <2>4. With(j, e) \in Jobs /\ Benign(With(j, e))
    <3> HIDE DEF e
    <3>1. QED
      BY <2>1, <2>3, OneEntryBenign
  <2>5. Operates(With(j, e))
    BY <1>3 DEF UpdateJob, Operates
  <2>6. AskedTyped'
    BY <1>3 DEF UpdateJob, AskedTyped, TypeOK
  <2>7. HandlesKept
    <3>1. deferred' = Rescheduled(j, Detached, again)
      BY <1>3, DetachedKeeps DEF UpdateJob, Rescheduled
    <3>2. QED
      BY <3>1, RescheduledKept
  <2>8. QED
    BY <2>4, <2>5, <2>6, <2>7 DEF Committed
<1>4. ASSUME NEW j \in Job, NEW enabled \in BOOLEAN, EnableJob(j, enabled)
      PROVE  Committed
  <2> DEFINE next == IF enabled THEN NextRun(j, Loaded[j].once) ELSE 0
             e == [Loaded[j] EXCEPT !.enabled = enabled, !.next = next]
  <2>1. Loaded[j] \in Entry /\ Loaded[j].once \in BOOLEAN
    BY <1>0, <1>4 DEF EnableJob, Jobs, Entry
  <2>2. /\ next \in Nat
        /\ Loaded[j].once /\ next # 0 => next = AtTime[j] /\ AtTime[j] > now
    BY <2>1, NextRunTyped
  <2>3. e \in Entry /\ e.once = Loaded[j].once /\ e.next = next
    BY <2>1, <2>2 DEF Entry
  <2>4. With(j, e) \in Jobs /\ Benign(With(j, e))
    <3> HIDE DEF e
    <3>1. QED
      BY <2>2, <2>3, OneEntryBenign
  <2>5. Operates(With(j, e))
    <3>1. [Loaded EXCEPT ![j].enabled = enabled, ![j].next = next] = With(j, e)
      BY <1>0 DEF Jobs
    <3>2. QED
      BY <1>4, <3>1 DEF EnableJob, Operates
  <2>6. AskedTyped'
    BY <1>4 DEF EnableJob, AskedTyped, TypeOK
  <2>7. HandlesKept
    BY <1>4, DetachedKept DEF EnableJob
  <2>8. QED
    BY <2>4, <2>5, <2>6, <2>7 DEF Committed
<1>5. ASSUME NEW j \in Job, RunJob(j) PROVE Committed
  <2> DEFINE e == Executed(j, Loaded[j])
  <2>1. Loaded[j] \in Entry /\ Loaded[j] # NoJob
    BY <1>0, <1>5 DEF RunJob, Jobs
  <2>2. e \in Entry \cup {NoJob}
    BY <1>0, <2>1, EntriesTyped
  <2>3. e # NoJob => ~e.once \/ ~e.enabled
    BY <2>1 DEF Executed, Advance, Entry
  <2>4. With(j, e) \in Jobs /\ Benign(With(j, e))
    <3> HIDE DEF e
    <3>1. QED
      BY <2>2, <2>3, OneEntryBenign
  <2>5. Operates(With(j, e))
    BY <1>5 DEF RunJob, Operates
  <2>6. AskedTyped'
    BY <1>5 DEF RunJob, AskedTyped, TypeOK
  <2>7. HandlesKept
    BY <1>0, <1>5, DroppedKept, DetachedKept DEF RunJob
  <2>8. QED
    BY <2>4, <2>5, <2>6, <2>7 DEF Committed
<1>6. QED
  BY <1>1, <1>2, <1>3, <1>4, <1>5 DEF Api

-----------------------------------------------------------------------------
(***************************************************************************)
(* Types.  They rest on the batch of onTimer: the jobs in due are          *)
(* scheduled ones of the store, which nobody changes while it is held.     *)
(***************************************************************************)
Batch == /\ \A j \in due : j \in Scheduled(store) /\ now >= store[j].next
         /\ due # {} => lock = "timer"
         /\ flushing # <<>> => lock = "flush"

Typed == TypeOK /\ Batch

\* The cases of a step.
LEMMA NextCases ==
    ASSUME TypeOK, [Next]_vars
    PROVE  \/ Start \/ Stop \/ Crash \/ Tick \/ TimerGoesOff \/ OnTimer \/ TimerDone
           \/ HeartbeatTicks \/ FlushDeferred \/ FlushJob \/ FlushDone
           \/ \E j \in Job : EditFile(j) \/ DeferJob(j) \/ ExecuteJob(j)
           \/ Committed \/ ReadJobs
           \/ UNCHANGED vars
  BY ApiCommits DEF Next, ClockStops, Fire, Flush

\* The life of the service, and time, keep the types.
LEMMA LifecycleTyped ==
    ASSUME TypeOK,
           Start \/ Stop \/ Crash \/ Tick \/ \E j \in Job : EditFile(j)
    PROVE  TypeOK'
<1> USE CronConstants DEF CronConstants, TypeOK, counters, history
<1>0. Loaded \in Jobs /\ Detached \in Seq(Handle)
  BY LoadedTyped
<1>1. CASE Start
  <2>1. Recomputed(Loaded) \in Jobs
    BY <1>0, RecomputedTyped
  <2>2. NextWake(Recomputed(Loaded)) \in Nat
    BY <2>1, NextWakeIsEarliest
  <2>3. QED
    BY <1>0, <1>1, <2>1, <2>2 DEF Start, SaveOK, Arm, Jobs
<1>2. CASE Stop
  <2>1. restarts' \in 0..MaxRestarts
    BY <1>2 DEF Stop
  <2>2. QED
    BY <1>2, <2>1 DEF Stop
<1>3. CASE Crash
  <2>1. store' \in [Job -> Entry \cup {NoJob}]
    BY <1>3 DEF Crash, NoJobs
  <2>2. restarts' \in 0..MaxRestarts
    BY <1>3 DEF Crash
  <2>3. due' \subseteq Job /\ flushing' \in Seq(Handle) /\ deferred' \in Seq(Handle)
    BY <1>3 DEF Crash
  <2>4. QED
    BY <1>3, <2>1, <2>2, <2>3 DEF Crash
<1>4. CASE Tick
  BY <1>4 DEF Tick
<1>5. ASSUME NEW j \in Job, EditFile(j) PROVE TypeOK'
  <2>1. [enabled |-> TRUE, next |-> now + 1, once |-> FALSE, wait |-> FALSE] \in Entry
    BY DEF Entry
  <2>2. PICK e \in Entry \cup {NoJob} : disk' = [disk EXCEPT ![j] = e]
    BY <1>5, <2>1 DEF EditFile
  <2>3. disk' \in [Job -> Entry \cup {NoJob}]
    BY <2>2
  <2>4. edits' \in 0..MaxEdits
    BY <1>5 DEF EditFile
  <2>5. QED
    BY <1>5, <2>3, <2>4 DEF EditFile
<1>6. QED
  BY <1>1, <1>2, <1>3, <1>4, <1>5

\* So do the timer, its goroutine, and the heartbeat.
LEMMA FiringTyped ==
    ASSUME Typed,
           TimerGoesOff \/ OnTimer \/ TimerDone \/ HeartbeatTicks
             \/ FlushDeferred \/ FlushJob \/ FlushDone
             \/ \E j \in Job : DeferJob(j) \/ ExecuteJob(j)
    PROVE  TypeOK'
<1> USE DEF Typed, TypeOK, counters, history
<1>0. Loaded \in Jobs /\ Detached \in Seq(Handle)
  BY LoadedTyped
<1>1. CASE TimerGoesOff
  BY <1>1 DEF TimerGoesOff
<1>2. CASE OnTimer
  <2>1. Scheduled(Loaded) \subseteq Job
    BY DEF Scheduled
  <2>2. QED
    BY <1>0, <1>2, <2>1 DEF OnTimer, Jobs
<1>3. \A j \in due : /\ store[j] \in Entry
                     /\ Advance(j, store[j]) \in Entry
                     /\ Executed(j, store[j]) \in Entry \cup {NoJob}
  <2>1. \A j \in due : j \in Job /\ store[j] # NoJob
    BY DEF Batch, Scheduled
  <2>2. QED
    BY <2>1, EntriesTyped DEF Jobs
<1>4. ASSUME NEW j \in Job, DeferJob(j) PROVE TypeOK'
  <2>1. [job |-> j, once |-> store[j].once, live |-> TRUE] \in Handle
    BY <1>3, <1>4 DEF DeferJob, Handle, Entry
  <2>2. deferred' \in Seq(Handle)
    BY <1>4, <2>1 DEF DeferJob
  <2>3. store' \in [Job -> Entry \cup {NoJob}]
    BY <1>3, <1>4 DEF DeferJob
  <2>4. QED
    BY <1>4, <2>2, <2>3 DEF DeferJob
<1>5. ASSUME NEW j \in Job, ExecuteJob(j) PROVE TypeOK'
  <2>1. store' \in [Job -> Entry \cup {NoJob}]
    BY <1>3, <1>5 DEF ExecuteJob
  <2>2. fired' \in [Job -> Nat]
    BY <1>5 DEF ExecuteJob, Count
  <2>3. QED
    BY <1>5, <2>1, <2>2 DEF ExecuteJob
<1>6. CASE TimerDone
  <2>1. store \in Jobs
    BY DEF Jobs
  <2>2. timer' \in Nat /\ unarmed' \in BOOLEAN
    BY <1>6, <2>1, NextWakeIsEarliest DEF TimerDone, Arm
  <2>3. QED
    BY <1>6, <2>1, <2>2, SaveTyped DEF TimerDone, Jobs
<1>7. CASE HeartbeatTicks
  BY <1>7 DEF HeartbeatTicks
<1>8. CASE FlushDeferred
  <2>1. unarmed' \in BOOLEAN
    BY <1>8 DEF FlushDeferred
  <2>2. /\ store' \in Jobs /\ lock' \in {"free", "timer", "flush"}
        /\ flushing' \in Seq(Handle) /\ deferred' \in Seq(Handle)
    <3>1. CASE deferred = <<>>
      BY <1>8, <3>1 DEF FlushDeferred, Jobs
    <3>2. CASE deferred # <<>>
      BY <1>0, <1>8, <3>2 DEF FlushDeferred
    <3>3. QED
      BY <3>1, <3>2
  <2>3. QED
    BY <1>8, <2>1, <2>2 DEF FlushDeferred, Jobs
<1>9. CASE FlushJob
  <2>0. flushing \in Seq(Handle) /\ flushing # <<>>
    BY <1>9 DEF FlushJob
  <2>1. /\ Head(flushing) \in Handle /\ Tail(flushing) \in Seq(Handle)
        /\ Head(flushing).job \in Job
    <3>1. Head(flushing) \in Handle
      BY <2>0
    <3>2. Tail(flushing) \in Seq(Handle)
      BY <2>0
    <3>3. QED
      BY <3>1, <3>2 DEF Handle
  <2>2. store' \in [Job -> Entry \cup {NoJob}]
    BY <1>9, <2>1 DEF FlushJob
  <2>3. fired' \in [Job -> Nat]
    <3>1. \A once \in BOOLEAN :
            [fired EXCEPT ![Head(flushing).job] =
                IF once THEN fired[Head(flushing).job] + 1 ELSE fired[Head(flushing).job]]
              \in [Job -> Nat]
      BY <2>1
    <3>2. Head(flushing).once \in BOOLEAN
      BY <2>1 DEF Handle
    <3>3. QED
      BY <1>9, <3>1, <3>2 DEF FlushJob, Count
  <2>4. flushing' \in Seq(Handle)
    BY <1>9, <2>1 DEF FlushJob
  <2>5. QED
    BY <1>9, <2>2, <2>3, <2>4 DEF FlushJob
<1>10. CASE FlushDone
  <2>1. store \in Jobs
    BY DEF Jobs
  <2>2. QED
    BY <1>10, <2>1, SaveTyped DEF FlushDone, FlushSaves, Jobs
<1>11. QED
  BY <1>1, <1>2, <1>4, <1>5, <1>6, <1>7, <1>8, <1>9, <1>10

\* Every step keeps the types.
LEMMA TypePreserved ==
    ASSUME Typed, [Next]_vars
    PROVE  TypeOK'
<1>1. CASE Committed
  <2>1. PICK jobs \in Jobs : Operates(jobs)
    BY <1>1 DEF Committed
  <2>2. StoreTyped'
    BY <2>1, CommitTyped DEF Operates, Typed
  <2>3. QED
    BY <1>1, <2>1, <2>2 DEF Committed, HandlesKept, AskedTyped, Operates, StoreTyped,
                            Jobs, Typed, TypeOK
<1>2. CASE ReadJobs
  <2>1. Loaded \in Jobs /\ Detached \in Seq(Handle)
    BY LoadedTyped DEF Typed
  <2>2. QED
    BY <1>2, <2>1 DEF ReadJobs, Jobs, Typed, TypeOK, counters, history
<1>3. CASE UNCHANGED vars
  BY <1>3 DEF vars, Typed, TypeOK, counters, history
<1>4. QED
  BY <1>1, <1>2, <1>3, NextCases, LifecycleTyped, FiringTyped DEF Typed

\* Every step keeps the batch one of scheduled jobs.
LEMMA BatchPreserved ==
    ASSUME Typed, [Next]_vars
    PROVE  Batch'
<1> USE DEF Typed, Batch, counters, history
<1>1. CASE Start \/ Stop \/ TimerGoesOff \/ HeartbeatTicks
  BY <1>1 DEF Start, Stop, TimerGoesOff, HeartbeatTicks
<1>2. CASE Crash
  BY <1>2 DEF Crash
<1>3. CASE Tick
  <2>1. \A j \in due : now' >= store[j].next
    <3>1. \A j \in due : now >= store[j].next /\ store[j].next \in Nat
      BY DEF Scheduled, TypeOK, Entry
    <3>2. now \in Nat /\ now' = now + 1
      BY <1>3, CronConstants DEF CronConstants, Tick, TypeOK
    <3>3. QED
      BY <3>1, <3>2
  <2>2. QED
    BY <1>3, <2>1 DEF Tick, Scheduled
<1>4. CASE OnTimer
  BY <1>4 DEF OnTimer, Scheduled
<1>5. CASE TimerDone
  BY <1>5 DEF TimerDone
<1>6. CASE FlushDeferred
  BY <1>6 DEF FlushDeferred
<1>7. CASE FlushJob
  BY <1>7 DEF FlushJob
<1>8. CASE FlushDone
  BY <1>8 DEF FlushDone
<1>9. ASSUME NEW j \in Job, EditFile(j) PROVE Batch'
  BY <1>9 DEF EditFile, Scheduled
<1>10. ASSUME NEW j \in Job, DeferJob(j) PROVE Batch'
  <2>1. \A k \in due' : k \in due /\ k # j /\ k \in Job
    BY <1>10 DEF DeferJob, TypeOK
  <2>2. \A k \in due' : store'[k] = store[k]
    BY <1>10, <2>1 DEF DeferJob, TypeOK
  <2>3. QED
    BY <1>10, <2>1, <2>2 DEF DeferJob, Scheduled
<1>11. ASSUME NEW j \in Job, ExecuteJob(j) PROVE Batch'
  <2>1. \A k \in due' : k \in due /\ k # j /\ k \in Job
    BY <1>11 DEF ExecuteJob, TypeOK
  <2>2. \A k \in due' : store'[k] = store[k]
    BY <1>11, <2>1 DEF ExecuteJob, TypeOK
  <2>3. QED
    BY <1>11, <2>1, <2>2 DEF ExecuteJob, Scheduled
<1>12. CASE Committed
  BY <1>12 DEF Committed, Operates, Operation
<1>13. CASE ReadJobs
  BY <1>13 DEF ReadJobs, Operation
<1>14. CASE UNCHANGED vars
  BY <1>14 DEF vars, Scheduled
<1>15. QED
  BY <1>1, <1>2, <1>3, <1>4, <1>5, <1>6, <1>7, <1>8, <1>9, <1>10, <1>11, <1>12,
     <1>13, <1>14, NextCases

\* In every reachable state the types are right, and so is the batch.
LEMMA TypedAlways == Spec => []Typed
<1>1. Init => Typed
  BY InitTyped DEF Init, Typed, Batch
<1>2. Typed /\ [Next]_vars => Typed'
  BY TypePreserved, BatchPreserved DEF Typed
<1>3. QED
  BY <1>1, <1>2, PTL DEF Spec

\* Every variable of the service keeps its type, whatever fails and restarts:
\* in particular every job onTimer works on is in the store.
THEOREM TypeCorrect == Spec => []TypeOK
  BY TypedAlways, PTL DEF Typed

-----------------------------------------------------------------------------
(***************************************************************************)
(* The timer.  While onTimer works on its batch the timer may lag behind;  *)
(* at all other times, also during a flush, it covers the store.           *)
(***************************************************************************)
Covers(jobs, wake, pending) ==
    \A j \in Scheduled(jobs) : pending \/ (wake # 0 /\ wake <= jobs[j].next)

Covered == running /\ lock # "timer" /\ ~unarmed => Covers(store, timer, late)

\* Arming the timer covers the store it is armed for.
LEMMA ArmCovers ==
    ASSUME NEW jobs \in Jobs, Arm(jobs), NEW pending
    PROVE  Covers(jobs, timer', pending)
  BY NextWakeIsEarliest DEF Arm, Covers

\* No step leaves a scheduled job without a timer.
LEMMA CoveredPreserved ==
    ASSUME Typed, Covered, [Next]_vars
    PROVE  Covered'
<1> USE DEF Covered, counters, history
<1>0. Loaded \in Jobs /\ store \in Jobs
  BY LoadedTyped DEF Typed, TypeOK, Jobs
<1>1. CASE Start
  <2>1. Recomputed(Loaded) \in Jobs
    BY <1>0, RecomputedTyped DEF Typed
  <2>2. store' = Recomputed(Loaded) /\ Arm(Recomputed(Loaded))
    BY <1>1 DEF Start, SaveOK
  <2>3. QED
    BY <2>1, <2>2, ArmCovers
<1>2. CASE Stop \/ Crash
  BY <1>2 DEF Stop, Crash
<1>3. CASE Tick \/ HeartbeatTicks \/ FlushDone
  <2>1. UNCHANGED <<running, store, timer, late, unarmed>> /\ (lock' = "timer" <=> lock = "timer")
    BY <1>3 DEF Tick, HeartbeatTicks, FlushDone, FlushSaves, Save, SaveOK, SaveFails
  <2>2. QED
    BY <2>1 DEF Covers, Scheduled
<1>4. CASE TimerGoesOff
  BY <1>4 DEF TimerGoesOff, Covers
<1>5. CASE OnTimer
  BY <1>5 DEF OnTimer
<1>6. CASE TimerDone
  <2>1. Arm(store) /\ store' = store
    BY <1>6 DEF TimerDone, Save, SaveOK, SaveFails
  <2>2. QED
    BY <1>0, <2>1, ArmCovers
<1>7. CASE FlushDeferred
  BY <1>7 DEF FlushDeferred, Loaded, Covers, Scheduled
<1>8. CASE FlushJob
  <2>1. \A j \in Scheduled(store') : j \in Scheduled(store) /\ store'[j] = store[j]
    BY <1>0, <1>8 DEF FlushJob, Scheduled, Jobs
  <2>2. QED
    BY <1>8, <2>1 DEF FlushJob, Covers
<1>9. ASSUME NEW j \in Job, EditFile(j) PROVE Covered'
  BY <1>9 DEF EditFile, Covers, Scheduled
<1>10. ASSUME NEW j \in Job, DeferJob(j) \/ ExecuteJob(j) PROVE Covered'
  BY <1>10 DEF DeferJob, ExecuteJob, Typed, Batch
<1>11. CASE Committed
  <2>1. PICK jobs \in Jobs : Operates(jobs)
    BY <1>11 DEF Committed
  <2>2. CASE SaveOK(jobs) /\ Arm(jobs)
    BY <2>2, ArmCovers DEF SaveOK
  <2>3. CASE unarmed'
    BY <2>3
  <2>4. QED
    BY <2>1, <2>2, <2>3 DEF Operates, Commit
<1>12. CASE ReadJobs
  BY <1>12 DEF ReadJobs
<1>13. CASE UNCHANGED vars
  BY <1>13 DEF vars, Covers, Scheduled
<1>14. QED
  BY <1>1, <1>2, <1>3, <1>4, <1>5, <1>6, <1>7, <1>8, <1>9, <1>10, <1>11, <1>12,
     <1>13, NextCases DEF Typed

\* No scheduled job is overslept: the timer is never set later than the
\* earliest next run, whatever operations and late timers overlap.
THEOREM NothingOverslept == Spec => []TimerCoversStore
<1>1. Init => Covered
  BY DEF Init, Covered
<1>2. Typed /\ Covered /\ [Next]_vars => Covered'
  BY CoveredPreserved
<1>3. Covered => TimerCoversStore
  BY DEF Covered, Covers, TimerCoversStore
<1>4. QED
  BY <1>1, <1>2, <1>3, TypedAlways, PTL DEF Spec

-----------------------------------------------------------------------------
(***************************************************************************)
(* The file.  Whoever releases the lock has saved what it changed.         *)
(***************************************************************************)

\* A save brings file and memory together, or is counted as failed.
LEMMA SaveSettles ==
    ASSUME Typed, NEW jobs, Save(jobs)
    PROVE  disk' = store' \/ failures' # 0
<1>1. CASE SaveOK(jobs)
  BY <1>1 DEF SaveOK
<1>2. CASE SaveFails(jobs)
  <2>1. failures \in Nat
    BY CronConstants DEF CronConstants, Typed, TypeOK
  <2>2. failures' = failures + 1
    BY <1>2 DEF SaveFails
  <2>3. QED
    BY <2>1, <2>2
<1>3. QED
  BY <1>1, <1>2 DEF Save

\* No step lets memory and file differ between operations, without a failure.
LEMMA FilePreserved ==
    ASSUME Typed, FileMatchesStore, [Next]_vars
    PROVE  FileMatchesStore'
<1> USE DEF FileMatchesStore, counters, history
<1>1. CASE Start
  BY <1>1 DEF Start, SaveOK
<1>2. CASE Stop \/ Crash \/ Tick \/ TimerGoesOff \/ HeartbeatTicks
  BY <1>2 DEF Stop, Crash, Tick, TimerGoesOff, HeartbeatTicks
<1>3. CASE OnTimer
  BY <1>3 DEF OnTimer
<1>4. CASE TimerDone \/ FlushDone
  BY <1>4, SaveSettles DEF TimerDone, FlushDone, FlushSaves
<1>5. CASE FlushDeferred
  BY <1>5 DEF FlushDeferred
<1>6. CASE FlushJob
  BY <1>6 DEF FlushJob, Typed, Batch
<1>7. ASSUME NEW j \in Job, EditFile(j) \/ DeferJob(j) \/ ExecuteJob(j) PROVE FileMatchesStore'
  BY <1>7 DEF EditFile, DeferJob, ExecuteJob, Typed, Batch
<1>8. CASE Committed
  <2>1. PICK jobs \in Jobs : Commit(jobs)
    BY <1>8 DEF Committed, Operates
  <2>2. Save(jobs)
    BY <2>1 DEF Commit, Save
  <2>3. QED
    BY <2>2, SaveSettles
<1>9. CASE ReadJobs
  BY <1>9 DEF ReadJobs
<1>10. CASE UNCHANGED vars
  BY <1>10 DEF vars
<1>11. QED
  BY <1>1, <1>2, <1>3, <1>4, <1>5, <1>6, <1>7, <1>8, <1>9, <1>10, NextCases DEF Typed

\* While no save has failed, a crash between operations costs no job.
THEOREM FileFollowsStore == Spec => []FileMatchesStore
<1>1. Init => FileMatchesStore
  BY DEF Init, FileMatchesStore
<1>2. Typed /\ FileMatchesStore /\ [Next]_vars => FileMatchesStore'
  BY FilePreserved
<1>3. QED
  BY <1>1, <1>2, TypedAlways, PTL DEF Spec

-----------------------------------------------------------------------------
(***************************************************************************)
(* One-shot schedules.  A one-shot entry that is scheduled is so for its   *)
(* moment.  Once it has fired, or is held back for the heartbeat, that     *)
(* moment is past: an operation or a restart that computes the next run    *)
(* anew finds none, so the entry is never scheduled again.  All this is    *)
(* about a file nobody else writes to.                                     *)
(***************************************************************************)
OnceAt(handles, j) == {i \in DOMAIN handles : handles[i].job = j /\ handles[i].once}

Pending(j) == j \in Scheduled(store) /\ store[j].once
Held(j)    == OnceAt(deferred, j) # {} \/ OnceAt(flushing, j) # {}
Spent(j)   == fired[j] > 0 \/ Held(j)

Once(j) == /\ Pending(j) => store[j].next = AtTime[j]
           /\ Spent(j) => AtTime[j] <= now /\ ~Pending(j)
           /\ fired[j] <= 1
           /\ fired[j] > 0 => ~Held(j)
           /\ \A i, k \in OnceAt(deferred, j) : i = k
           /\ \A i, k \in OnceAt(flushing, j) : i = k

OnceCore == /\ flushing # <<>> => deferred = <<>>
            /\ \A j \in Job : Once(j)

\* Whoever may load the store has it already.
KeepsFresh == running \/ tick => fresh

OnceInv == edits = 0 => OnceCore /\ KeepsFresh

\* A step that keeps the handles and fires nothing keeps the invariant, if
\* the one-shot entries it schedules were so, or are for a moment to come.
LEMMA QuietOnce ==
    ASSUME Typed, OnceCore, HandlesKept, UNCHANGED <<flushing, fired>>,
           now' = now \/ now' = now + 1,
           \A j \in Job : Pending(j)' =>
             \/ Pending(j) /\ store'[j].next = store[j].next
             \/ store'[j].next = AtTime[j] /\ AtTime[j] > now'
    PROVE  OnceCore'
<1>1. /\ now \in Nat /\ now' \in Nat /\ now <= now'
      /\ deferred \in Seq(Handle) /\ flushing \in Seq(Handle)
      /\ \A j \in Job : AtTime[j] \in Nat
  BY CronConstants DEF CronConstants, Typed, TypeOK
<1>2. \A j \in Job : OnceAt(deferred', j) \subseteq OnceAt(deferred, j)
  BY DEF HandlesKept, OnceAt
<1>3. flushing' # <<>> => deferred' = <<>>
  <2>1. CASE flushing = <<>>
    BY <2>1
  <2>2. CASE deferred = <<>>
    <3>1. DOMAIN deferred' = 1..0 /\ deferred' \in Seq(Handle)
      BY <2>2 DEF HandlesKept
    <3>2. Len(deferred') = 0
      BY <3>1
    <3>3. QED
      BY <3>1, <3>2
  <2>3. QED
    BY <2>1, <2>2 DEF OnceCore
<1>4. ASSUME NEW j \in Job PROVE Once(j)'
  <2>1. Once(j)
    BY DEF OnceCore
  <2>2. Spent(j)' => Spent(j) /\ AtTime[j] <= now
    BY <1>2, <2>1 DEF Spent, Held, Once
  <2>3. Spent(j)' => AtTime[j] <= now'
    BY <1>1, <2>2
  <2>4. Spent(j)' => ~Pending(j)'
    <3>1. SUFFICES ASSUME Spent(j)', Pending(j)' PROVE FALSE
      OBVIOUS
    <3>2. AtTime[j] > now'
      BY <2>1, <2>2, <3>1 DEF Once
    <3>3. QED
      BY <1>1, <2>3, <3>1, <3>2
  <2>5. Pending(j)' => store'[j].next = AtTime[j]
    BY <2>1 DEF Once
  <2>6. fired'[j] <= 1 /\ (fired'[j] > 0 => ~Held(j)')
    BY <1>2, <2>1 DEF Once, Held
  <2>7. /\ \A i, k \in OnceAt(deferred', j) : i = k
        /\ \A i, k \in OnceAt(flushing', j) : i = k
    BY <1>2, <2>1 DEF Once
  <2>8. QED
    BY <2>3, <2>4, <2>5, <2>6, <2>7 DEF Once
<1>5. QED
  BY <1>3, <1>4 DEF OnceCore

\* Recomputing the next runs schedules one-shot entries for moments to come.
LEMMA RecomputedOnce ==
    ASSUME TypeOK, NEW jobs \in Jobs, NEW j \in Scheduled(Recomputed(jobs)),
           Recomputed(jobs)[j].once
    PROVE  Recomputed(jobs)[j].next = AtTime[j] /\ AtTime[j] > now
<1>1. j \in Job /\ Recomputed(jobs)[j] # NoJob
  BY DEF Scheduled
<1>2. jobs[j] \in Entry /\ jobs[j] # NoJob
  BY <1>1 DEF Recomputed, Jobs
<1>3. jobs[j].enabled
  BY <1>1, <1>2 DEF Recomputed, Scheduled
<1>4. Recomputed(jobs)[j] = [jobs[j] EXCEPT !.next = NextRun(j, jobs[j].once)]
  BY <1>1, <1>2, <1>3 DEF Recomputed
<1>5. /\ Recomputed(jobs)[j].next = NextRun(j, jobs[j].once)
      /\ Recomputed(jobs)[j].once = jobs[j].once
      /\ jobs[j].once \in BOOLEAN
  BY <1>2, <1>4 DEF Entry
<1>6. Recomputed(jobs)[j].next # 0
  BY DEF Scheduled
<1>7. QED
  BY <1>1, <1>5, <1>6, NextRunTyped

\* The steps that neither fire nor hold back a job.
LEMMA QuietStepsOnce ==
    ASSUME Typed, OnceCore, KeepsFresh,
           \/ Start \/ Stop \/ Tick \/ TimerGoesOff \/ OnTimer \/ TimerDone
           \/ HeartbeatTicks \/ FlushDone \/ Committed \/ ReadJobs \/ UNCHANGED vars
    PROVE  OnceCore'
<1> USE DEF Typed, counters, history
<1>0. deferred \in Seq(Handle) /\ Loaded \in Jobs
  BY LoadedTyped DEF TypeOK
<1>1. CASE Start
  <2>1. HandlesKept
    BY <1>1, DetachedKept DEF Start
  <2>2. store' = Recomputed(Loaded)
    BY <1>1 DEF Start, SaveOK
  <2>3. ASSUME NEW j \in Job, Pending(j)'
        PROVE  store'[j].next = AtTime[j] /\ AtTime[j] > now
    <3>1. j \in Scheduled(Recomputed(Loaded)) /\ Recomputed(Loaded)[j].once
      BY <2>2, <2>3 DEF Pending
    <3>2. QED
      BY <1>0, <2>2, <3>1, RecomputedOnce
  <2>4. QED
    BY <1>1, <2>1, <2>3, QuietOnce DEF Start
<1>2. CASE /\ Stop \/ Tick \/ TimerGoesOff \/ TimerDone \/ HeartbeatTicks \/ FlushDone
              \/ UNCHANGED vars
  <2>1. UNCHANGED <<store, deferred, flushing, fired>> /\ (now' = now \/ now' = now + 1)
    BY <1>2 DEF Stop, Tick, TimerGoesOff, TimerDone, HeartbeatTicks, FlushDone, FlushSaves,
                Save, SaveOK, SaveFails, vars
  <2>2. HandlesKept
    BY <1>0, <2>1 DEF HandlesKept
  <2>3. \A j \in Job : Pending(j)' => Pending(j) /\ store'[j].next = store[j].next
    BY <2>1 DEF Pending, Scheduled
  <2>4. QED
    BY <2>1, <2>2, <2>3, QuietOnce
<1>3. CASE OnTimer
  <2>1. store' = store /\ HandlesKept
    <3>1. CASE running
      BY <1>3, <3>1, DetachedKept DEF OnTimer, KeepsFresh, Loaded
    <3>2. CASE ~running
      BY <1>0, <1>3, <3>2 DEF OnTimer, HandlesKept
    <3>3. QED
      BY <3>1, <3>2
  <2>2. \A j \in Job : Pending(j)' => Pending(j) /\ store'[j].next = store[j].next
    BY <2>1 DEF Pending, Scheduled
  <2>3. QED
    BY <1>3, <2>1, <2>2, QuietOnce DEF OnTimer
<1>4. CASE Committed
  <2>1. PICK jobs \in Jobs : Operates(jobs) /\ Benign(jobs)
    BY <1>4 DEF Committed
  <2>2. store' = jobs /\ Loaded = store
    BY <2>1 DEF Operates, Operation, Commit, SaveOK, SaveFails, KeepsFresh, Loaded
  <2>3. UNCHANGED <<now, flushing, fired>> /\ HandlesKept
    BY <1>4, <2>1 DEF Operates, Committed
  <2>4. ASSUME NEW j \in Job, Pending(j)'
        PROVE  \/ Pending(j) /\ store'[j].next = store[j].next
               \/ store'[j].next = AtTime[j] /\ AtTime[j] > now'
    <3>1. j \in Scheduled(jobs) /\ jobs[j].once
      BY <2>2, <2>4 DEF Pending
    <3>2. QED
      BY <2>1, <2>2, <2>3, <3>1 DEF Benign, Pending
  <2>5. QED
    BY <2>3, <2>4, QuietOnce
<1>5. CASE ReadJobs
  BY <1>5 DEF ReadJobs, Operation, KeepsFresh
<1>6. QED
  BY <1>1, <1>2, <1>3, <1>4, <1>5

\* A crash forgets handles and entries, and no firing.
LEMMA CrashOnce ==
    ASSUME Typed, OnceCore, Crash
    PROVE  OnceCore'
<1>1. \A j \in Job : OnceAt(deferred', j) = {} /\ OnceAt(flushing', j) = {}
  BY DEF Crash, OnceAt
<1>2. \A j \in Job : ~Pending(j)'
  BY DEF Crash, NoJobs, Pending, Scheduled
<1>3. ASSUME NEW j \in Job PROVE Once(j)'
  BY <1>1, <1>2 DEF OnceCore, Once, Spent, Held, Crash, history
<1>4. QED
  BY <1>3 DEF OnceCore, Crash

\* Where the once-handles are after one more, and after one less.
LEMMA OnceAtAppend ==
    ASSUME NEW s \in Seq(Handle), NEW h \in Handle, NEW j
    PROVE  OnceAt(Append(s, h), j) =
             OnceAt(s, j) \cup (IF h.job = j /\ h.once THEN {Len(s) + 1} ELSE {})
<1>1. /\ DOMAIN Append(s, h) = (DOMAIN s) \cup {Len(s) + 1}
      /\ Append(s, h)[Len(s) + 1] = h
      /\ \A i \in DOMAIN s : Append(s, h)[i] = s[i]
      /\ Len(s) + 1 \notin DOMAIN s
  OBVIOUS
<1> DEFINE a == Append(s, h)
<1> HIDE DEF a
<1>2. /\ DOMAIN a = (DOMAIN s) \cup {Len(s) + 1}
      /\ a[Len(s) + 1] = h
      /\ \A i \in DOMAIN s : a[i] = s[i]
  BY <1>1 DEF a
<1>3. OnceAt(a, j) = OnceAt(s, j) \cup (IF h.job = j /\ h.once THEN {Len(s) + 1} ELSE {})
  BY <1>2 DEF OnceAt
<1>4. QED
  BY <1>3 DEF a

\* What remains of a queue had its place, one further, before.
LEMMA OnceAtTail ==
    ASSUME NEW s \in Seq(Handle), s # <<>>, NEW j, NEW i \in OnceAt(Tail(s), j)
    PROVE  i + 1 \in OnceAt(s, j) /\ i \in Nat \ {0}
<1>1. DOMAIN Tail(s) = 1..(Len(s) - 1) /\ DOMAIN s = 1..Len(s) /\ Len(s) \in Nat
  OBVIOUS
<1>2. \A k \in 1..(Len(s) - 1) : Tail(s)[k] = s[k + 1]
  OBVIOUS
<1>3. i \in 1..(Len(s) - 1) /\ Tail(s)[i].job = j /\ Tail(s)[i].once
  BY <1>1 DEF OnceAt
<1>4. i + 1 \in DOMAIN s /\ s[i + 1] = Tail(s)[i]
  BY <1>1, <1>2, <1>3
<1>5. QED
  BY <1>3, <1>4 DEF OnceAt

\* A job onTimer works on: its moment has come, and if it is a one-shot job
\* it has neither fired nor been held back.
LEMMA DueOnce ==
    ASSUME Typed, OnceCore, NEW j \in due
    PROVE  /\ j \in Job /\ store[j] \in Entry /\ flushing = <<>>
           /\ store[j].once => AtTime[j] <= now /\ ~Spent(j)
<1>1. j \in Job /\ j \in Scheduled(store) /\ now >= store[j].next
  BY DEF Typed, Batch, TypeOK
<1>2. store[j] \in Entry /\ now \in Nat /\ AtTime[j] \in Nat
  BY <1>1, CronConstants DEF CronConstants, Typed, TypeOK, Scheduled
<1>3. Once(j)
  BY <1>1 DEF OnceCore
<1>4. store[j].once => store[j].next = AtTime[j] /\ ~Spent(j)
  BY <1>1, <1>3 DEF Once, Pending
<1>5. flushing = <<>>
  BY DEF Typed, Batch
<1>6. QED
  BY <1>1, <1>2, <1>4, <1>5

\* An entry that moves on is no longer a scheduled one-shot.
LEMMA AdvanceSettles ==
    ASSUME Typed, NEW j \in Job, store[j] \in Entry
    PROVE  /\ ~(Advance(j, store[j]).enabled /\ Advance(j, store[j]).once)
           /\ LET e == Executed(j, store[j]) IN e # NoJob => ~(e.enabled /\ e.once)
<1>1. ~(Advance(j, store[j]).enabled /\ Advance(j, store[j]).once)
  BY DEF Advance, Entry
<1>2. QED
  BY <1>1 DEF Executed

\* Holding a job back spends its one-shot schedule.
LEMMA DeferOnce ==
    ASSUME Typed, OnceCore, NEW j \in Job, DeferJob(j)
    PROVE  OnceCore'
<1> DEFINE h == [job |-> j, once |-> store[j].once, live |-> TRUE]
<1>1. /\ j \in due /\ store[j] \in Entry /\ flushing = <<>>
      /\ store[j].once => AtTime[j] <= now /\ ~Spent(j)
  BY DueOnce DEF DeferJob
<1>2. h \in Handle /\ deferred \in Seq(Handle)
  BY <1>1 DEF Handle, Entry, Typed, TypeOK
<1>3. \A k : OnceAt(deferred', k) =
               OnceAt(deferred, k) \cup (IF j = k /\ store[j].once THEN {Len(deferred) + 1} ELSE {})
  <2>1. deferred' = Append(deferred, h)
    BY DEF DeferJob
  <2>2. h.job = j /\ h.once = store[j].once
    OBVIOUS
  <2> HIDE DEF h
  <2>3. QED
    BY <1>2, <2>1, <2>2, OnceAtAppend
<1>4. store' = [store EXCEPT ![j] = Advance(j, store[j])] /\ store \in Jobs
  BY DEF DeferJob, Typed, TypeOK, Jobs
<1>5. UNCHANGED <<flushing, fired, now>>
  BY DEF DeferJob, history
<1>6. ASSUME NEW k \in Job, k # j PROVE Once(k)'
  <2>1. Pending(k)' <=> Pending(k)
    BY <1>4, <1>6 DEF Pending, Scheduled, Jobs
  <2>2. store'[k] = store[k] /\ OnceAt(deferred', k) = OnceAt(deferred, k)
    BY <1>3, <1>4, <1>6 DEF Jobs
  <2>3. Once(k)
    BY DEF OnceCore
  <2>4. QED
    BY <1>5, <2>1, <2>2, <2>3 DEF Once, Spent, Held
<1>7. Once(j)'
  <2>1. ~Pending(j)'
    BY <1>1, <1>4, AdvanceSettles DEF Pending, Scheduled, Jobs
  <2>2. Once(j)
    BY DEF OnceCore
  <2>3. CASE store[j].once
    <3>1. fired[j] = 0 \/ ~(fired[j] > 0)
      BY <1>1, <2>3 DEF Spent
    <3>2. OnceAt(deferred, j) = {} /\ OnceAt(flushing, j) = {} /\ ~(fired[j] > 0)
      BY <1>1, <2>3 DEF Spent, Held
    <3>3. \A i, k \in OnceAt(deferred', j) : i = k
      BY <1>3, <2>3, <3>2
    <3>4. QED
      BY <1>1, <1>5, <2>1, <2>2, <2>3, <3>2, <3>3 DEF Once
  <2>4. CASE ~store[j].once
    <3>1. OnceAt(deferred', j) = OnceAt(deferred, j)
      BY <1>3, <2>4
    <3>2. QED
      BY <1>5, <2>1, <2>2, <3>1 DEF Once, Spent, Held
  <2>5. QED
    BY <2>3, <2>4
<1>8. QED
  BY <1>1, <1>5, <1>6, <1>7 DEF OnceCore

\* So does firing it.
LEMMA ExecuteOnce ==
    ASSUME Typed, OnceCore, NEW j \in Job, ExecuteJob(j)
    PROVE  OnceCore'
<1>1. /\ j \in due /\ store[j] \in Entry /\ flushing = <<>>
      /\ store[j].once => AtTime[j] <= now /\ ~Spent(j)
  BY DueOnce DEF ExecuteJob
<1>2. store' = [store EXCEPT ![j] = Executed(j, store[j])] /\ store \in Jobs
  BY DEF ExecuteJob, Typed, TypeOK, Jobs
<1>3. /\ fired' = [fired EXCEPT ![j] = IF store[j].once THEN fired[j] + 1 ELSE fired[j]]
      /\ fired \in [Job -> Nat]
  BY DEF ExecuteJob, Count, Typed, TypeOK
<1>4. UNCHANGED <<flushing, deferred, now>>
  BY DEF ExecuteJob
<1>5. ASSUME NEW k \in Job, k # j PROVE Once(k)'
  <2>1. Pending(k)' <=> Pending(k)
    BY <1>2, <1>5 DEF Pending, Scheduled, Jobs
  <2>2. store'[k] = store[k] /\ fired'[k] = fired[k]
    BY <1>2, <1>3, <1>5 DEF Jobs
  <2>3. Once(k)
    BY DEF OnceCore
  <2>4. QED
    BY <1>4, <2>1, <2>2, <2>3 DEF Once, Spent, Held
<1>6. Once(j)'
  <2>1. ~Pending(j)'
    BY <1>1, <1>2, AdvanceSettles DEF Pending, Scheduled, Jobs
  <2>2. Once(j)
    BY DEF OnceCore
  <2>3. CASE store[j].once
    <3>1. ~Held(j) /\ ~(fired[j] > 0)
      BY <1>1, <2>3 DEF Spent
    <3>2. fired'[j] = 1
      BY <1>3, <2>3, <3>1
    <3>3. ~Held(j)'
      BY <1>4, <3>1 DEF Held
    <3>4. QED
      BY <1>1, <1>4, <2>1, <2>2, <2>3, <3>2, <3>3 DEF Once
  <2>4. CASE ~store[j].once
    <3>1. fired'[j] = fired[j]
      BY <1>3, <2>4
    <3>2. QED
      BY <1>4, <2>1, <2>2, <3>1 DEF Once, Spent, Held
  <2>5. QED
    BY <2>3, <2>4
<1>7. QED
  BY <1>1, <1>4, <1>5, <1>6 DEF OnceCore

\* A flush takes over the handles, and fires each once.
LEMMA FlushOnce ==
    ASSUME Typed, OnceCore, KeepsFresh, FlushDeferred
    PROVE  OnceCore'
<1>1. UNCHANGED <<now, fired>> /\ lock = "free" /\ flushing = <<>> /\ fresh
  BY DEF FlushDeferred, history, KeepsFresh, Typed, Batch
<1>2. store' = store
  BY <1>1 DEF FlushDeferred, Loaded
<1>3. CASE deferred = <<>>
  <2>1. UNCHANGED <<deferred, flushing>>
    BY <1>3 DEF FlushDeferred
  <2>2. \A j \in Job : Once(j)'
    BY <1>1, <1>2, <2>1 DEF OnceCore, Once, Pending, Scheduled, Spent, Held
  <2>3. QED
    BY <1>1, <2>1, <2>2
       DEF OnceCore
<1>4. CASE deferred # <<>>
  <2>1. flushing' = deferred /\ deferred' = <<>>
    BY <1>1, <1>4 DEF FlushDeferred, Detached
  <2>2. \A j \in Job : /\ OnceAt(flushing', j) = OnceAt(deferred, j)
                       /\ OnceAt(deferred', j) = {}
    BY <2>1 DEF OnceAt
  <2>3. \A j \in Job : Once(j)'
    BY <1>1, <1>2, <2>2 DEF OnceCore, Once, Pending, Scheduled, Spent, Held
  <2>4. QED
    BY <2>1, <2>3 DEF OnceCore
<1>5. QED
  BY <1>3, <1>4

\* The heartbeat fires a deferred one-shot job for the only time.
LEMMA FlushJobOnce ==
    ASSUME Typed, OnceCore, FlushJob
    PROVE  OnceCore'
<1> DEFINE h == Head(flushing)
<1>1. flushing \in Seq(Handle) /\ flushing # <<>> /\ deferred = <<>>
  BY DEF FlushJob, Typed, TypeOK, OnceCore
<1>2. h \in Handle /\ h = flushing[1] /\ 1 \in DOMAIN flushing
  BY <1>1
<1>3. h.job \in Job /\ h.once \in BOOLEAN
  BY <1>2 DEF Handle
<1>4. /\ fired' = [fired EXCEPT ![h.job] = IF h.once THEN fired[h.job] + 1 ELSE fired[h.job]]
      /\ fired \in [Job -> Nat]
      /\ flushing' = Tail(flushing)
      /\ UNCHANGED <<now, deferred>>
  BY DEF FlushJob, Count, Typed, TypeOK
<1>5. \A k \in Job : Pending(k)' => Pending(k) /\ store'[k] = store[k]
  <2>1. store \in Jobs
    BY DEF Typed, TypeOK, Jobs
  <2>2. store' = store \/ store' = [store EXCEPT ![h.job] = NoJob]
    BY DEF FlushJob
  <2>3. QED
    BY <1>3, <2>1, <2>2 DEF Pending, Scheduled, Jobs
<1> HIDE DEF h
<1>6. \A k \in Job : \A i \in OnceAt(flushing', k) : i + 1 \in OnceAt(flushing, k) /\ i \in Nat \ {0}
  BY <1>1, <1>4, OnceAtTail
<1>7. \A k \in Job : OnceAt(deferred', k) = {} /\ OnceAt(deferred, k) = {}
  BY <1>1, <1>4 DEF OnceAt
<1>8. \A k \in Job : Held(k)' => Held(k)
  BY <1>6, <1>7 DEF Held
<1>9. ASSUME NEW k \in Job PROVE Once(k)'
  <2>1. Once(k)
    BY DEF OnceCore
  <2>2. \A i, m \in OnceAt(flushing', k) : i = m
    <3>1. \A i, m \in OnceAt(flushing', k) : i + 1 = m + 1 /\ i \in Nat /\ m \in Nat
      BY <1>6, <2>1 DEF Once
    <3>2. QED
      BY <3>1
  <2>3. CASE h.job = k /\ h.once
    <3>1. 1 \in OnceAt(flushing, k)
      BY <1>2, <2>3 DEF OnceAt
    <3>2. Held(k) /\ ~(fired[k] > 0) /\ AtTime[k] <= now /\ ~Pending(k)
      BY <2>1, <3>1 DEF Once, Spent, Held
    <3>3. fired'[k] = 1
      BY <1>4, <2>3, <3>2
    <3>4. OnceAt(flushing', k) = {}
      <4>1. \A i \in OnceAt(flushing', k) : i + 1 = 1 /\ i \in Nat \ {0}
        BY <1>6, <2>1, <3>1 DEF Once
      <4>2. QED
        BY <4>1
    <3>5. ~Held(k)' /\ ~Pending(k)'
      BY <1>5, <1>7, <3>2, <3>4 DEF Held
    <3>6. QED
      BY <1>4, <1>7, <2>2, <3>2, <3>3, <3>5 DEF Once
  <2>4. CASE ~(h.job = k /\ h.once)
    <3>1. fired'[k] = fired[k]
      BY <1>3, <1>4, <2>4
    <3>2. Spent(k)' => Spent(k)
      BY <1>8, <3>1 DEF Spent
    <3>3. QED
      BY <1>4, <1>5, <1>7, <1>8, <2>1, <2>2, <3>1, <3>2 DEF Once
  <2>5. QED
    BY <2>3, <2>4
<1>10. QED
  BY <1>1, <1>4, <1>9 DEF OnceCore

\* Nobody can come to load a store that is not there: the service runs, and a
\* heartbeat is on its way, only where it has been loaded.
LEMMA KeepsFreshPreserved ==
    ASSUME Typed, KeepsFresh, [Next]_vars, edits' = edits
    PROVE  KeepsFresh'
<1> USE DEF KeepsFresh, counters, history
<1>1. CASE Start
  BY <1>1 DEF Start, SaveOK
<1>2. CASE Stop \/ Crash \/ Tick \/ TimerGoesOff \/ HeartbeatTicks \/ OnTimer
           \/ FlushDeferred \/ FlushJob \/ ReadJobs
  BY <1>2 DEF Stop, Crash, Tick, TimerGoesOff, HeartbeatTicks, OnTimer, FlushDeferred,
              FlushJob, ReadJobs
<1>3. CASE TimerDone \/ FlushDone
  BY <1>3 DEF TimerDone, FlushDone, FlushSaves, Save, SaveOK, SaveFails
<1>4. ASSUME NEW j \in Job, EditFile(j) PROVE KeepsFresh'
  <2>1. edits \in Nat /\ edits' = edits + 1
    BY <1>4, CronConstants DEF CronConstants, EditFile, Typed, TypeOK
  <2>2. QED
    BY <2>1
<1>5. ASSUME NEW j \in Job, DeferJob(j) \/ ExecuteJob(j) PROVE KeepsFresh'
  BY <1>5 DEF DeferJob, ExecuteJob
<1>6. CASE Committed
  BY <1>6 DEF Committed, Operates, Commit, SaveOK, SaveFails
<1>7. CASE UNCHANGED vars
  BY <1>7 DEF vars
<1>8. QED
  BY <1>1, <1>2, <1>3, <1>4, <1>5, <1>6, <1>7, NextCases DEF Typed

\* Edits are counted, and only edits.
LEMMA EditsCounted ==
    ASSUME Typed, [Next]_vars, edits' = 0
    PROVE  edits = 0 /\ \A j \in Job : ~EditFile(j)
<1>1. edits \in Nat
  BY CronConstants DEF CronConstants, Typed, TypeOK
<1>2. \A j \in Job : EditFile(j) => edits' = edits + 1
  BY DEF EditFile
<1>3. (\A j \in Job : ~EditFile(j)) => edits' = edits
  BY NextCases DEF Typed, Start, Stop, Crash, Tick, TimerGoesOff, OnTimer, TimerDone,
     HeartbeatTicks, FlushDeferred, FlushJob, FlushDone, DeferJob, ExecuteJob, Committed,
     Operates, Commit, ReadJobs, FlushSaves, Save, SaveOK, SaveFails, vars, counters
<1>4. QED
  BY <1>1, <1>2, <1>3

\* Every step keeps what makes one-shot schedules fire once.
LEMMA OncePreserved ==
    ASSUME Typed, OnceInv, [Next]_vars
    PROVE  OnceInv'
<1> SUFFICES ASSUME edits' = 0 PROVE OnceCore' /\ KeepsFresh'
  BY DEF OnceInv
<1>1. edits = 0 /\ \A j \in Job : ~EditFile(j)
  BY EditsCounted
<1>2. OnceCore /\ KeepsFresh
  BY <1>1 DEF OnceInv
<1>3. KeepsFresh'
  BY <1>1, <1>2, KeepsFreshPreserved
<1>4. OnceCore'
  BY <1>1, <1>2, NextCases, QuietStepsOnce, CrashOnce, DeferOnce, ExecuteOnce, FlushOnce,
     FlushJobOnce DEF Typed
<1>5. QED
  BY <1>3, <1>4

\* A one-shot schedule fires at most once, by the timer or by the heartbeat,
\* whatever fails and crashes in between: only an edit of the file can repeat it.
THEOREM OneShotsFireOnce == Spec => []OneShotFiresOnce
<1>1. Init => OnceInv
  BY DEF Init, OnceInv, OnceCore, Once, Pending, Scheduled, NoJobs, Spent, Held, OnceAt,
         KeepsFresh
<1>2. Typed /\ OnceInv /\ [Next]_vars => OnceInv'
  BY OncePreserved
<1>3. OnceInv => OneShotFiresOnce
  BY DEF OnceInv, OnceCore, Once, OneShotFiresOnce
<1>4. QED
  BY <1>1, <1>2, <1>3, TypedAlways, PTL DEF Spec

=============================================================================
