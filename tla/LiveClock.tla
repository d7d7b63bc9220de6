----------------------------- MODULE LiveClock ------------------------------
(***************************************************************************)
(* The clock of live Runtimes: crates/clock/src/native.rs and              *)
(* native_state.rs on top of the timer table.                              *)
(*                                                                         *)
(* One worker thread waits for the next timer and calls its callback       *)
(* without the lock; other threads, and the callback itself, schedule,     *)
(* cancel and close meanwhile.  A timer waits on the monotonic clock for   *)
(* the anchor computed when it was registered, so the wall clock may jump  *)
(* in either direction.  Every action is one critical section of the       *)
(* mutex.                                                                  *)
(***************************************************************************)
EXTENDS TimerScheduler

CONSTANTS
  Intervals,    \* intervals of periodic timers
  Forever,      \* a wait without a timeout, larger than any instant
  MaxMono,      \* bound: the last instant of the monotonic clock
  MaxWall       \* bound: the largest reading of the wall clock

VARIABLES
  scheduler,    \* engine.scheduler: the timer table
  anchors,      \* engine.anchors: when each timer is due, monotonic
  callbacks,    \* timers whose callback is in the map
  phase,        \* NativeState.phase
  worker,       \* the worker: running, calling back, waiting, gone or panicked
  wake,         \* when the worker's wait times out
  mono,         \* the monotonic clock
  wall,         \* the wall clock
  closing       \* the owner in close(): None, waiting for the worker, returned

vars == <<scheduler, anchors, callbacks, phase, worker, wake, mono, wall, closing>>

Init ==
  /\ wall \in 0..MaxWall
  /\ mono = 0
  /\ scheduler = NewScheduler(wall)
  /\ anchors = <<>>
  /\ callbacks = {}
  /\ phase = "Running"
  /\ worker = "running"
  /\ wake = Forever
  /\ closing = None

\* Time passes; the wall clock may jump.
Tick ==
  /\ mono < MaxMono
  /\ mono' = mono + 1
  /\ wall' \in 0..MaxWall
  /\ UNCHANGED <<scheduler, anchors, callbacks, phase, worker, wake, closing>>

\* Mutant: nobody wakes the worker.
Notified_Not == worker

\* notify_all: a waiting worker goes round its loop.
Notified == IF worker = "waiting" THEN "running" ELSE worker

-----------------------------------------------------------------------------
\* LiveClockControl, called by any thread and by the callback.

\* observe: the table follows the wall clock.
Observed == [scheduler EXCEPT !.now = wall]

Remaining(deadline) == IF deadline > wall THEN deadline - wall ELSE 0

Register(id, deadline, interval) ==
  /\ phase = "Running"
  /\ MayRegister(Observed, id, deadline)
  /\ scheduler' = Registered(Observed, id, deadline, interval)
  /\ anchors' = [i \in DOMAIN anchors \cup {id} |->
                   IF i = id THEN mono + Remaining(deadline) ELSE anchors[i]]
  /\ callbacks' = callbacks \cup {id}
  /\ worker' = Notified
  /\ UNCHANGED <<phase, wake, mono, wall, closing>>

Without(f, x) == [y \in DOMAIN f \ {x} |-> f[y]]

Cancel(id) ==
  /\ MayCancel(scheduler, id)
  /\ scheduler' = CancelledTimer(scheduler, id)
  /\ anchors' = Without(anchors, id)
  /\ callbacks' = callbacks \ {id}
  /\ worker' = Notified
  /\ UNCHANGED <<phase, wake, mono, wall, closing>>

RequestClose ==
  /\ phase = "Running"
  /\ phase' = "Closing"
  /\ scheduler' = ClosedScheduler(scheduler)
  /\ worker' = Notified
  /\ UNCHANGED <<anchors, callbacks, wake, mono, wall, closing>>

-----------------------------------------------------------------------------
\* The worker.

DueIds == {i \in DOMAIN anchors :
             anchors[i] <= mono /\ scheduler.timers[i].state = "Scheduled"}

WaitingIds == {i \in DOMAIN anchors : scheduler.timers[i].state = "Scheduled"}

\* take_due: of the timers that are due the first by deadline fires.
TakeDue ==
  /\ worker = "running"
  /\ phase = "Running"
  /\ DueIds # {}
  /\ LET id == First({Entry(i, scheduler.timers[i]) : i \in DueIds})[3] IN
       /\ scheduler' = Dispatched(Observed, id, wall)
       /\ callbacks' = callbacks \ {id}
       /\ IF id \in callbacks
          THEN worker' = "calling" /\ UNCHANGED phase
          ELSE worker' = "gone" /\ phase' = "Failed"
  /\ UNCHANGED <<anchors, wake, mono, wall, closing>>

\* The callback ended: a periodic timer is due again one interval after it was.
\* A callback that is not kept is dropped by the worker, outside the lock and
\* outside catch_unwind: a destructor that unwinds ends the thread.
Complete(ok, unwinds) ==
  /\ worker = "calling"
  /\ LET id == scheduler.outstanding.id
         s == Completed(scheduler, ok)
         kept == phase = "Running" /\ Active(s.timers[id])
     IN /\ scheduler' = s
        /\ anchors' = IF s.timers[id].state = "Scheduled"
                      THEN [anchors EXCEPT ![id] = @ + s.timers[id].interval]
                      ELSE Without(anchors, id)
        /\ callbacks' = IF kept THEN callbacks \cup {id} ELSE callbacks
        /\ unwinds => ~kept
  /\ worker' = IF unwinds THEN "panicked" ELSE "running"
  /\ UNCHANGED <<phase, wake, mono, wall, closing>>

\* remaining and wait_timeout, or wait when no timer is scheduled.
Wait ==
  /\ worker = "running"
  /\ phase = "Running"
  /\ DueIds = {}
  /\ scheduler' = Observed
  /\ worker' = "waiting"
  /\ wake' = IF WaitingIds = {} THEN Forever
             ELSE CHOOSE m \in {anchors[i] : i \in WaitingIds} :
                    \A i \in WaitingIds : m <= anchors[i]
  /\ UNCHANGED <<anchors, callbacks, phase, mono, wall, closing>>

WakeUp ==
  /\ worker = "waiting"
  /\ wake <= mono
  /\ worker' = "running"
  /\ UNCHANGED <<scheduler, anchors, callbacks, phase, wake, mono, wall, closing>>

\* The clock is no longer running: the callbacks are dropped and the thread ends.
Exit(unwinds) ==
  /\ worker = "running"
  /\ phase # "Running"
  /\ unwinds => callbacks # {}
  /\ callbacks' = {}
  /\ worker' = IF unwinds THEN "panicked" ELSE "gone"
  /\ UNCHANGED <<scheduler, anchors, phase, wake, mono, wall, closing>>

-----------------------------------------------------------------------------
\* close of the owner: it asks for the close and joins the worker.

Close ==
  /\ closing = None
  /\ closing' = "joining"
  /\ IF phase = "Running"
     THEN /\ phase' = "Closing"
          /\ scheduler' = ClosedScheduler(scheduler)
          /\ worker' = Notified
     ELSE UNCHANGED <<phase, scheduler, worker>>
  /\ UNCHANGED <<anchors, callbacks, wake, mono, wall>>

Joined ==
  /\ closing = "joining"
  /\ worker \in {"gone", "panicked"}
  /\ closing' = "returned"
  /\ phase' = IF phase = "Failed" \/ worker = "panicked" THEN "Failed" ELSE "Closed"
  /\ UNCHANGED <<scheduler, anchors, callbacks, worker, wake, mono, wall>>

-----------------------------------------------------------------------------
Worker ==
  \/ TakeDue
  \/ \E ok, unwinds \in BOOLEAN : Complete(ok, unwinds)
  \/ Wait
  \/ WakeUp
  \/ \E unwinds \in BOOLEAN : Exit(unwinds)

Next ==
  \/ Tick
  \/ \E id \in TimerIds, d \in 0..MaxWall : \E i \in Intervals \cup {OneShot} :
       Register(id, d, i)
  \/ \E id \in TimerIds : Cancel(id)
  \/ RequestClose
  \/ Worker
  \/ Close
  \/ Joined

Spec == Init /\ [][Next]_vars

\* The operating system schedules the worker; callbacks return.
FairSpec == Spec /\ WF_vars(Worker)

-----------------------------------------------------------------------------
(* A timer whose anchor the monotonic clock has passed fires, unless it is *)
(* cancelled or the clock closed first, however the wall clock jumps and   *)
(* whichever thread registered it while the worker was waiting.  Only a    *)
(* destructor that unwinds, which ends the worker, excuses it.             *)
DueFires ==
  \A id \in TimerIds : (id \in DueIds) ~> (id \notin DueIds \/ worker = "panicked")
=============================================================================
