---------------------------- MODULE VirtualClock ----------------------------
(***************************************************************************)
(* The clock of backtests: crates/clock/src/virtual_clock.rs on top of the *)
(* timer table.  Time moves only in advance_to, which fires the timers due *)
(* one by one; a callback may schedule, cancel and close through its       *)
(* context while its own timer fires.  A handle cancels from any thread.   *)
(***************************************************************************)
EXTENDS TimerScheduler

CONSTANTS
  Intervals,    \* intervals of periodic timers
  Horizon       \* bound: the last instant

VARIABLES
  scheduler,    \* the timer table
  callbacks,    \* timers whose callback is in the map
  target,       \* the instant advance_to is on its way to, or None
  saved         \* the last snapshot taken, or None

vars == <<scheduler, callbacks, target, saved>>

Init ==
  /\ scheduler = NewScheduler(0)
  /\ callbacks = {}
  /\ target = None
  /\ saved = None

\* The owner between its calls, or the callback that runs.
Free == target = None \/ scheduler.outstanding # None

Schedule(id, deadline, interval) ==
  /\ Free
  /\ MayRegister(scheduler, id, deadline)
  /\ scheduler' = Registered(scheduler, id, deadline, interval)
  /\ callbacks' = callbacks \cup {id}
  /\ UNCHANGED <<target, saved>>

Cancel(id) ==
  /\ MayCancel(scheduler, id)
  /\ scheduler' = CancelledTimer(scheduler, id)
  /\ callbacks' = callbacks \ {id}
  /\ UNCHANGED <<target, saved>>

\* close of the owner, request_close of a callback.
Close ==
  /\ Free
  /\ scheduler' = ClosedScheduler(scheduler)
  /\ callbacks' = {}
  /\ UNCHANGED <<target, saved>>

AdvanceTo(t) ==
  /\ target = None
  /\ ~scheduler.closed
  /\ t >= scheduler.now
  /\ target' = t
  /\ UNCHANGED <<scheduler, callbacks, saved>>

Due == {e \in scheduler.pending : e[1] <= target}

\* The loop of advance_inner: the first timer that is due fires at its deadline
\* and its callback is taken out of the map.
Fire ==
  /\ target # None
  /\ Dispatchable(scheduler)
  /\ Due # {}
  /\ LET e == First(Due) IN
       /\ scheduler' = Dispatched(scheduler, e[3], e[1])
       /\ callbacks' = callbacks \ {e[3]}
  /\ UNCHANGED <<target, saved>>

\* The callback ended; it goes back into the map if the timer is still active.
Complete(ok) ==
  /\ scheduler.outstanding # None
  /\ LET id == scheduler.outstanding.id IN
       /\ scheduler' = Completed(scheduler, ok)
       /\ callbacks' = IF Active(scheduler'.timers[id]) THEN callbacks \cup {id} ELSE callbacks
  /\ UNCHANGED <<target, saved>>

\* Nothing more is due, or a callback closed the clock.
EndAdvance ==
  /\ target # None
  /\ scheduler.outstanding = None
  /\ scheduler.closed \/ Due = {}
  /\ scheduler' = IF scheduler.closed THEN scheduler ELSE [scheduler EXCEPT !.now = target]
  /\ target' = None
  /\ UNCHANGED <<callbacks, saved>>

Snapshot ==
  /\ target = None
  /\ scheduler.outstanding = None
  /\ saved' = Saved(scheduler)
  /\ UNCHANGED <<scheduler, callbacks, target>>

\* restore on the running clock; the caller binds a callback to each timer
\* that is scheduled in the snapshot.
Restore ==
  /\ target = None
  /\ saved # None
  /\ MayRestore(scheduler, saved)
  /\ scheduler' = Restored(scheduler, saved)
  /\ callbacks' = ScheduledIds(saved)
  /\ UNCHANGED <<target, saved>>

\* The process restarts: a new clock and restore_fresh.
RestoreFresh ==
  /\ saved # None
  /\ ValidSnapshot(saved)
  /\ scheduler' = Restored(NewScheduler(0), saved)
  /\ callbacks' = ScheduledIds(saved)
  /\ target' = None
  /\ UNCHANGED saved

-----------------------------------------------------------------------------
Next ==
  \/ \E id \in TimerIds, d \in 0..Horizon : \E i \in Intervals \cup {OneShot} :
       Schedule(id, d, i)
  \/ \E id \in TimerIds : Cancel(id)
  \/ Close
  \/ \E t \in 0..Horizon : AdvanceTo(t)
  \/ Fire
  \/ \E ok \in BOOLEAN : Complete(ok)
  \/ EndAdvance
  \/ Snapshot
  \/ Restore
  \/ RestoreFresh

Spec == Init /\ [][Next]_vars

-----------------------------------------------------------------------------
(* Whatever the callbacks did to the timers while they fired, between two  *)
(* advances the clock can be saved and what is saved can be restored: the  *)
(* table passes the validation of a snapshot, the pending set is the one   *)
(* restore would rebuild, and exactly the scheduled timers have the        *)
(* callback that firing them takes from the map without a fallback.        *)
SavedIsRestorable ==
  target = None =>
    /\ ValidSnapshot(Saved(scheduler))
    /\ scheduler.pending = Restored(scheduler, Saved(scheduler)).pending
    /\ callbacks = ScheduledIds(scheduler)
=============================================================================
