----------------------------- MODULE CronService -----------------------------
(***************************************************************************)
(* The cron scheduler: Service of tools/cron/service.go.                   *)
(*                                                                         *)
(* Jobs live in a store in memory, written to a JSON file after every      *)
(* change and read again when the file's mtime is not the one last         *)
(* written.  One timer is armed for the earliest next run.  Service.mu is  *)
(* held for all of every operation, so an operation is one action, except  *)
(* the two that fire jobs: onTimer and FlushDeferred hold the lock from    *)
(* taking their batch to saving, and the process may crash in between.     *)
(*                                                                         *)
(* Time is counted in ticks.  A job has a one-shot ("at") or a recurring   *)
(* ("every", "cron") schedule; what firing a job does is left to OnJob.    *)
(***************************************************************************)
EXTENDS Integers, Sequences, FiniteSetsExt

CONSTANTS Job,             \* job ids
          NoJob,           \* no entry in the store
          AtTime,          \* AtMS of each job, if its schedule is one-shot
          Period,          \* ticks between two runs of a recurring job
          DeleteAfterRun,  \* jobs whose one-shot entry goes away once it ran
          MaxTime,         \* bound: the clock stops here
          MaxEdits,        \* bound: changes of the file by somebody else
          MaxFailures,     \* bound: saves that fail
          MaxRestarts      \* bound: stops of the service and crashes of the process

ASSUME CronConstants ==
    /\ AtTime \in [Job -> Nat \ {0}]
    /\ Period \in Nat \ {0}
    /\ DeleteAfterRun \subseteq Job
    /\ MaxTime \in Nat /\ MaxEdits \in Nat
    /\ MaxFailures \in Nat /\ MaxRestarts \in Nat
    /\ NoJob \notin [enabled : BOOLEAN, next : Nat, once : BOOLEAN, wait : BOOLEAN]

VARIABLES
    now,        \* the wall clock
    running,    \* Service.running
    store,      \* Service.store: the jobs in memory
    disk,       \* the jobs in the file
    fresh,      \* store is loaded and the file's mtime is Service.lastMtime
    timer,      \* when Service.timer goes off, 0 if there is none
    late,       \* an onTimer call was started and has not got the lock yet
    tick,       \* heartbeatLoop saw the service running and is about to flush
    due,        \* onTimer holds the lock: the jobs it still has to fire
    flushing,   \* FlushDeferred holds the lock: what it still has to fire
    lock,       \* "free", "timer" or "flush"
    deferred,   \* Service.deferred
    asked,      \* history: what the user wants of each job
    fired,      \* history: firings of a job's one-shot schedule
    unarmed,    \* history: the store changed and nobody armed the timer for it
    edits, failures, restarts    \* how often each disturbance has happened

counters == <<edits, failures, restarts>>
history  == <<asked, fired>>
vars == <<now, running, store, disk, fresh, timer, late, tick, due, flushing,
          lock, deferred, history, unarmed, counters>>

\* once: the schedule's kind is "at"; wait: WakeMode is "next-heartbeat".
Entry == [enabled : BOOLEAN, next : Nat, once : BOOLEAN, wait : BOOLEAN]

\* An element of deferred is a pointer to a job.  It stays good when the
\* store drops the job or is loaded anew; live says the store still holds it.
Handle == [job : Job, once : BOOLEAN, live : BOOLEAN]

NoJobs == [j \in Job |-> NoJob]

\* Defect: the time left until a one-shot job's moment, not the moment.
DelayLeft(j, once) == IF once THEN AtTime[j] - (now + 1) ELSE now + Period

\* computeNextRun
NextRun(j, once) == IF once THEN (IF AtTime[j] > now THEN AtTime[j] ELSE 0)
                            ELSE now + Period

\* getNextWakeMSLocked
Scheduled(jobs) == {j \in Job : /\ jobs[j] # NoJob
                                /\ jobs[j].enabled
                                /\ jobs[j].next # 0}
NextWake(jobs) == IF Scheduled(jobs) = {} THEN 0
                  ELSE Min({jobs[j].next : j \in Scheduled(jobs)})

\* armTimerLocked, while the service is running
Arm(jobs) == /\ timer' = NextWake(jobs)
             /\ unarmed' = FALSE

\* loadStoreLocked: the jobs in memory, unless the file is somebody else's
\* work; handles then no longer point into the store.
Loaded   == IF fresh THEN store ELSE disk
Detached == IF fresh THEN deferred
            ELSE [i \in DOMAIN deferred |-> [deferred[i] EXCEPT !.live = FALSE]]

\* saveStoreLocked: temporary file and rename; when it fails the change stays
\* in memory and the file keeps what it had.
SaveOK(jobs) == store' = jobs /\ disk' = jobs /\ fresh' = TRUE
SaveFails(jobs) == /\ failures < MaxFailures
                   /\ failures' = failures + 1
                   /\ store' = jobs
                   /\ UNCHANGED <<disk, fresh, edits, restarts>>
Save(jobs) == \/ SaveOK(jobs) /\ UNCHANGED counters
              \/ SaveFails(jobs)

\* Defect: a change that is saved but does not re-arm the timer.
CommitUnarmed(jobs) == /\ SaveOK(jobs)
                       /\ UNCHANGED <<timer, unarmed, counters>>

\* How every operation that changes a job ends: save, then arm the timer; an
\* operation that cannot save returns its error without arming.
Commit(jobs) == \/ /\ SaveOK(jobs)
                   /\ Arm(jobs)
                   /\ UNCHANGED counters
                \/ /\ SaveFails(jobs)
                   /\ unarmed' = TRUE
                   /\ UNCHANGED timer

Init ==
    /\ now = 0
    /\ running = FALSE
    /\ store = NoJobs /\ disk = NoJobs /\ fresh = FALSE
    /\ timer = 0 /\ late = FALSE /\ tick = FALSE
    /\ due = {} /\ flushing = <<>> /\ lock = "free"
    /\ deferred = <<>>
    /\ asked = [j \in Job |-> "nothing"]
    /\ fired = [j \in Job |-> 0]
    /\ unarmed = FALSE
    /\ edits = 0 /\ failures = 0 /\ restarts = 0

(***************************************************************************)
(* Lifecycle                                                               *)
(***************************************************************************)

\* recomputeNextRunsLocked
Recomputed(jobs) ==
    [j \in Job |-> IF jobs[j] # NoJob /\ jobs[j].enabled
                   THEN [jobs[j] EXCEPT !.next = NextRun(j, jobs[j].once)]
                   ELSE jobs[j]]

\* Start; when it cannot save, main gives up.
Start ==
    /\ ~running
    /\ lock = "free"
    /\ running' = TRUE
    /\ SaveOK(Recomputed(Loaded))
    /\ Arm(Recomputed(Loaded))
    /\ deferred' = Detached
    /\ UNCHANGED <<now, late, tick, due, flushing, lock, history, counters>>

Stop ==
    /\ running
    /\ lock = "free"
    /\ restarts < MaxRestarts
    /\ restarts' = restarts + 1
    /\ running' = FALSE
    /\ timer' = 0
    /\ UNCHANGED <<now, store, disk, fresh, late, tick, due, flushing, lock,
                   deferred, history, unarmed, edits, failures>>

\* The process dies, in or between operations; only the file is left.
Crash ==
    /\ restarts < MaxRestarts
    /\ restarts' = restarts + 1
    /\ running' = FALSE
    /\ store' = NoJobs /\ fresh' = FALSE
    /\ timer' = 0 /\ late' = FALSE /\ tick' = FALSE
    /\ due' = {} /\ flushing' = <<>> /\ lock' = "free"
    /\ deferred' = <<>>
    /\ unarmed' = FALSE
    /\ UNCHANGED <<now, disk, history, edits, failures>>

Tick ==
    /\ now < MaxTime
    /\ now' = now + 1
    /\ UNCHANGED <<running, store, disk, fresh, timer, late, tick, due, flushing,
                   lock, deferred, history, unarmed, counters>>

\* Where the model's time ends, so may its behaviours.
ClockStops == now = MaxTime /\ UNCHANGED vars

\* Somebody writes the file by hand: drops a job, or adds or resets one.
EditFile(j) ==
    /\ edits < MaxEdits
    /\ edits' = edits + 1
    /\ \E e \in {NoJob, [enabled |-> TRUE, next |-> now + 1, once |-> FALSE, wait |-> FALSE]} :
        disk' = [disk EXCEPT ![j] = e]
    /\ fresh' = FALSE
    /\ asked' = [asked EXCEPT ![j] = "withdrawn"]
    /\ UNCHANGED <<now, running, store, timer, late, tick, due, flushing, lock,
                   deferred, fired, unarmed, failures, restarts>>

(***************************************************************************)
(* Firing                                                                  *)
(***************************************************************************)

\* time.AfterFunc starts onTimer on a goroutine of its own.
TimerGoesOff ==
    /\ timer # 0
    /\ now >= timer
    /\ timer' = 0
    /\ late' = TRUE
    /\ UNCHANGED <<now, running, store, disk, fresh, tick, due, flushing, lock,
                   deferred, history, unarmed, counters>>

\* onTimer: nothing to do once stopped, else collect the jobs that are due.
OnTimer ==
    /\ late
    /\ lock = "free"
    /\ late' = FALSE
    /\ IF running
       THEN /\ lock' = "timer"
            /\ store' = Loaded
            /\ deferred' = Detached
            /\ due' = {j \in Scheduled(Loaded) : now >= Loaded[j].next}
       ELSE UNCHANGED <<lock, store, deferred, due>>
    /\ UNCHANGED <<now, running, disk, fresh, timer, tick, flushing, history,
                   unarmed, counters>>

\* Defect: a deferred one-shot job stays enabled.
AdvanceOnly(j, e) == [e EXCEPT !.next = NextRun(j, FALSE)]

\* deferJobLocked's new state of the job: the schedule moves on as if it ran.
Advance(j, e) == IF e.once THEN [e EXCEPT !.enabled = FALSE, !.next = 0]
                           ELSE [e EXCEPT !.next = NextRun(j, FALSE)]

\* executeJobLocked's new state of the job, whether or not OnJob failed.
Executed(j, e) == IF e.once /\ j \in DeleteAfterRun THEN NoJob ELSE Advance(j, e)

Count(j, once) == fired' = [fired EXCEPT ![j] = IF once THEN @ + 1 ELSE @]

DeferJob(j) ==
    /\ j \in due
    /\ store[j].wait
    /\ due' = due \ {j}
    /\ deferred' = Append(deferred, [job |-> j, once |-> store[j].once, live |-> TRUE])
    /\ store' = [store EXCEPT ![j] = Advance(j, @)]
    /\ UNCHANGED <<now, running, disk, fresh, timer, late, tick, flushing, lock,
                   history, unarmed, counters>>

ExecuteJob(j) ==
    /\ j \in due
    /\ ~store[j].wait
    /\ due' = due \ {j}
    /\ Count(j, store[j].once)
    /\ store' = [store EXCEPT ![j] = Executed(j, @)]
    /\ UNCHANGED <<now, running, disk, fresh, timer, late, tick, flushing, lock,
                   deferred, asked, unarmed, counters>>

\* The end of onTimer: the result of the save is not looked at.
TimerDone ==
    /\ lock = "timer"
    /\ due = {}
    /\ lock' = "free"
    /\ Arm(store)
    /\ Save(store)
    /\ UNCHANGED <<now, running, late, tick, due, flushing, deferred, history>>

\* heartbeatLoop looks at running before it flushes, not while.
HeartbeatTicks ==
    /\ running
    /\ lock = "free"
    /\ deferred # <<>>
    /\ tick' = TRUE
    /\ UNCHANGED <<now, running, store, disk, fresh, timer, late, due, flushing,
                   lock, deferred, history, unarmed, counters>>

FlushDeferred ==
    /\ tick
    /\ lock = "free"
    /\ tick' = FALSE
    /\ IF deferred = <<>>
       THEN UNCHANGED <<store, flushing, deferred, lock, unarmed>>
       ELSE /\ lock' = "flush"
            /\ store' = Loaded
            /\ unarmed' = (unarmed \/ ~fresh)
            /\ flushing' = Detached
            /\ deferred' = <<>>
    /\ UNCHANGED <<now, running, disk, fresh, timer, late, due, history, counters>>

FlushJob ==
    /\ flushing # <<>>
    /\ LET h == Head(flushing) IN
        /\ Count(h.job, h.once)
        /\ store' = IF h.once /\ h.job \in DeleteAfterRun
                    THEN [store EXCEPT ![h.job] = NoJob] ELSE store
    /\ flushing' = Tail(flushing)
    /\ UNCHANGED <<now, running, disk, fresh, timer, late, tick, due, lock,
                   deferred, asked, unarmed, counters>>

\* Defect: a flush that does not save.
FlushUnsaved == UNCHANGED <<store, disk, fresh, counters>>

\* What a flush leaves behind: the file, saved or not; the timer is not touched.
FlushSaves == Save(store)

FlushDone ==
    /\ lock = "flush"
    /\ flushing = <<>>
    /\ lock' = "free"
    /\ FlushSaves
    /\ UNCHANGED <<now, running, timer, late, tick, due, flushing, deferred,
                   history, unarmed>>

(***************************************************************************)
(* The API, called while the service runs                                  *)
(***************************************************************************)
Operation == running /\ lock = "free"

\* AddJob under a new id.  If the save fails the caller gets an error, but
\* the job stays in the store.
AddJob(j, once, wait) ==
    /\ Operation
    /\ asked[j] = "nothing"
    /\ Commit([Loaded EXCEPT ![j] = [enabled |-> TRUE, next |-> NextRun(j, once),
                                     once |-> once, wait |-> wait]])
    /\ asked' = [asked EXCEPT ![j] = IF failures' = failures /\ NextRun(j, once) # 0
                                     THEN "wanted" ELSE "withdrawn"]
    /\ deferred' = Detached
    /\ UNCHANGED <<now, running, late, tick, due, flushing, lock, fired>>

\* The handles of a job the store lets go of.
Dropped(j, handles) ==
    [i \in DOMAIN handles |-> IF handles[i].job = j
                              THEN [handles[i] EXCEPT !.live = FALSE] ELSE handles[i]]

RemoveJob(j) ==
    /\ Operation
    /\ Loaded[j] # NoJob
    /\ Commit([Loaded EXCEPT ![j] = NoJob])
    /\ asked' = [asked EXCEPT ![j] = "withdrawn"]
    /\ deferred' = Dropped(j, Detached)
    /\ UNCHANGED <<now, running, late, tick, due, flushing, lock, fired>>

\* UpdateJob with what the tool passes: a recurring schedule, a wake mode, or
\* neither.  A handle that is still live sees the new schedule.
UpdateJob(j, reschedule, wait) ==
    /\ Operation
    /\ Loaded[j] # NoJob
    /\ LET e == [Loaded[j] EXCEPT !.wait = wait] IN
        Commit([Loaded EXCEPT ![j] =
                  IF reschedule THEN [e EXCEPT !.once = FALSE, !.next = NextRun(j, FALSE)]
                  ELSE e])
    /\ asked' = [asked EXCEPT ![j] = IF reschedule THEN "withdrawn" ELSE @]
    /\ deferred' = [i \in DOMAIN deferred |->
                      IF reschedule /\ Detached[i].job = j /\ Detached[i].live
                      THEN [Detached[i] EXCEPT !.once = FALSE] ELSE Detached[i]]
    /\ UNCHANGED <<now, running, late, tick, due, flushing, lock, fired>>

EnableJob(j, enabled) ==
    /\ Operation
    /\ Loaded[j] # NoJob
    /\ LET next == IF enabled THEN NextRun(j, Loaded[j].once) ELSE 0 IN
        /\ Commit([Loaded EXCEPT ![j].enabled = enabled, ![j].next = next])
        /\ asked' = [asked EXCEPT ![j] =
                       IF next # 0 /\ failures' = failures /\ Loaded[j].once
                       THEN "wanted" ELSE "withdrawn"]
    /\ deferred' = Detached
    /\ UNCHANGED <<now, running, late, tick, due, flushing, lock, fired>>

\* RunJob(force): fires the job now, whatever its wake mode.
RunJob(j) ==
    /\ Operation
    /\ Loaded[j] # NoJob
    /\ Commit([Loaded EXCEPT ![j] = Executed(j, @)])
    /\ asked' = [asked EXCEPT ![j] = "withdrawn"]
    /\ deferred' = IF Executed(j, Loaded[j]) = NoJob THEN Dropped(j, Detached) ELSE Detached
    /\ UNCHANGED <<now, running, late, tick, due, flushing, lock, fired>>

\* ListJobs, GetJob and Status only load.
ReadJobs ==
    /\ Operation
    /\ ~fresh
    /\ store' = Loaded
    /\ unarmed' = TRUE
    /\ deferred' = Detached
    /\ UNCHANGED <<now, running, disk, fresh, timer, late, tick, due, flushing,
                   lock, history, counters>>

(***************************************************************************)
(* The specification                                                       *)
(***************************************************************************)
Fire == \/ OnTimer
        \/ \E j \in Job : DeferJob(j) \/ ExecuteJob(j)
        \/ TimerDone

Flush == FlushDeferred \/ FlushJob \/ FlushDone

Api == \/ \E j \in Job, once, wait \in BOOLEAN : AddJob(j, once, wait)
       \/ \E j \in Job : RemoveJob(j) \/ RunJob(j)
       \/ \E j \in Job, reschedule, wait \in BOOLEAN : UpdateJob(j, reschedule, wait)
       \/ \E j \in Job, enabled \in BOOLEAN : EnableJob(j, enabled)
       \/ ReadJobs

Next == \/ Start \/ Stop \/ Crash \/ Tick \/ ClockStops
        \/ \E j \in Job : EditFile(j)
        \/ TimerGoesOff \/ Fire \/ HeartbeatTicks \/ Flush
        \/ Api

Spec == Init /\ [][Next]_vars

\* Time passes, the runtime's timers go off, their goroutines run and get the
\* lock, which serves its waiters in turn; the heartbeat is configured.
Fairness == /\ WF_vars(Tick)
            /\ WF_vars(TimerGoesOff)
            /\ SF_vars(Fire)
            /\ SF_vars(HeartbeatTicks)
            /\ SF_vars(Flush)

FairSpec == Spec /\ Fairness

-----------------------------------------------------------------------------
(***************************************************************************)
(* Properties                                                              *)
(***************************************************************************)
TypeOK ==
    /\ now \in 0..MaxTime
    /\ running \in BOOLEAN /\ fresh \in BOOLEAN /\ late \in BOOLEAN
    /\ tick \in BOOLEAN /\ unarmed \in BOOLEAN
    /\ store \in [Job -> Entry \cup {NoJob}]
    /\ disk \in [Job -> Entry \cup {NoJob}]
    /\ timer \in Nat
    /\ due \subseteq Job
    /\ flushing \in Seq(Handle)
    /\ lock \in {"free", "timer", "flush"}
    /\ deferred \in Seq(Handle)
    /\ asked \in [Job -> {"nothing", "wanted", "withdrawn"}]
    /\ fired \in [Job -> Nat]
    /\ edits \in 0..MaxEdits /\ failures \in 0..MaxFailures /\ restarts \in 0..MaxRestarts

\* No scheduled job is overslept: while the service runs, the timer is set no
\* later than any job's next run, or an onTimer call is on its way.  Left out
\* are stores nobody armed the timer for, because their save failed or because
\* the file was written by hand.
TimerCoversStore ==
    running /\ lock = "free" /\ ~unarmed =>
        \A j \in Scheduled(store) : late \/ (timer # 0 /\ timer <= store[j].next)

\* A one-shot schedule fires at most once: not again by the timer after a
\* deferral, not by both onTimer and FlushDeferred, and not after a crash
\* between firing and saving.  Only a file written by hand can repeat it.
OneShotFiresOnce == edits = 0 => \A j \in Job : fired[j] <= 1

\* Between operations the file holds exactly the jobs in memory, unless a
\* save failed or somebody else wrote it: a crash costs no job.
FileMatchesStore == lock = "free" /\ fresh /\ failures = 0 => disk = store

\* A one-shot job that was accepted and not withdrawn has fired or is still
\* on its way: scheduled, in a batch, or held back for the heartbeat.
OneShotNotLost ==
    \A j \in Job : asked[j] = "wanted" =>
        \/ fired[j] > 0
        \/ store[j] # NoJob /\ (~store[j].once \/ j \in Scheduled(store))
        \/ fresh = FALSE /\ disk[j] # NoJob /\ j \in Scheduled(disk)
        \/ \E i \in DOMAIN deferred : deferred[i].job = j
        \/ \E i \in DOMAIN flushing : flushing[i].job = j

\* The service has run all along, and only its own writes have happened.
Undisturbed == running /\ edits = 0 /\ failures = 0 /\ restarts = 0

\* In an undisturbed service a one-shot job that was accepted does fire, by
\* the timer or by the heartbeat, unless it is withdrawn.
OneShotRuns ==
    \A j \in Job :
        (asked[j] = "wanted" /\ store[j] # NoJob /\ store[j].once /\ Undisturbed)
            ~> (fired[j] > 0 \/ asked[j] # "wanted" \/ ~Undisturbed)
=============================================================================
