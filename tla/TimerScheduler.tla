--------------------------- MODULE TimerScheduler ---------------------------
(***************************************************************************)
(* The timer table shared by the virtual and the live clock:               *)
(* crates/clock/src/scheduler.rs, and the validation of a saved table in   *)
(* crates/clock/src/snapshot.rs.                                           *)
(*                                                                         *)
(* The table is a value; an operation that can be refused is a predicate   *)
(* and the table after it.  Instants and intervals are numbers.  Dispatch  *)
(* tokens never leave the clock that took them, so a token is the event it *)
(* carries; timer metadata is left out.                                    *)
(***************************************************************************)
EXTENDS Naturals, FiniteSets, Sequences

CONSTANTS
  TimerIds,
  None

OneShot == 0     \* the interval of a timer that fires once

NewScheduler(now) ==
  [now |-> now, sequence |-> 0, timers |-> <<>>, pending |-> {}, failures |-> {},
   closed |-> FALSE, outstanding |-> None]

Active(t) == t.state \in {"Scheduled", "Firing"}

Entry(id, t) == <<t.deadline, t.sequence, id>>

\* The order of the pending set: by deadline, then by registration.
Earlier(a, b) == a[1] < b[1] \/ (a[1] = b[1] /\ a[2] <= b[2])

First(S) == CHOOSE a \in S : \A b \in S : Earlier(a, b)

-----------------------------------------------------------------------------
MayRegister(s, id, deadline) ==
  ~s.closed /\ id \notin DOMAIN s.timers /\ deadline >= s.now

Registered(s, id, deadline, interval) ==
  LET t == [state |-> "Scheduled", created |-> s.now, first |-> deadline,
            deadline |-> deadline, interval |-> interval,
            sequence |-> s.sequence + 1, fires |-> 0]
  IN [s EXCEPT !.sequence = @ + 1,
               !.pending = @ \cup {Entry(id, t)},
               !.timers = [i \in DOMAIN @ \cup {id} |-> IF i = id THEN t ELSE @[i]]]

MayCancel(s, id) == id \in DOMAIN s.timers /\ Active(s.timers[id])

CancelledTimer(s, id) ==
  [s EXCEPT !.pending = @ \ {Entry(id, s.timers[id])},
            !.timers[id].state = "Cancelled"]

Dispatchable(s) == ~s.closed /\ s.outstanding = None

\* dispatch_id: the timer fires at the given instant.
Dispatched(s, id, at) ==
  LET t == s.timers[id]
  IN [s EXCEPT !.pending = @ \ {Entry(id, t)},
               !.timers[id].state = "Firing",
               !.timers[id].fires = @ + 1,
               !.now = at,
               !.outstanding = [id |-> id, deadline |-> t.deadline,
                                sequence |-> t.sequence, fires |-> t.fires + 1]]

\* Mutant: the next deadline is computed before the outcome is looked at.
Completed_Advances(s, ok) ==
  LET e == s.outstanding
      t == [s.timers[e.id] EXCEPT !.deadline = @ + s.timers[e.id].interval]
      u == IF t.state = "Cancelled" THEN t
           ELSE IF ~ok THEN [t EXCEPT !.state = "Failed"]
           ELSE IF t.interval = OneShot THEN [t EXCEPT !.state = "Completed"]
           ELSE [t EXCEPT !.state = "Scheduled"]
  IN [s EXCEPT !.timers[e.id] = u,
               !.pending = IF u.state = "Scheduled" THEN @ \cup {Entry(e.id, u)} ELSE @,
               !.failures = IF ok THEN @ ELSE @ \cup {e},
               !.outstanding = None]

\* complete_dispatch: a failure is recorded; a timer that was not cancelled
\* meanwhile fails, completes or is scheduled for its next deadline.
Completed(s, ok) ==
  LET e == s.outstanding
      t == s.timers[e.id]
      u == IF t.state = "Cancelled" THEN t
           ELSE IF ~ok THEN [t EXCEPT !.state = "Failed"]
           ELSE IF t.interval = OneShot THEN [t EXCEPT !.state = "Completed"]
           ELSE [t EXCEPT !.state = "Scheduled", !.deadline = @ + t.interval]
  IN [s EXCEPT !.timers[e.id] = u,
               !.pending = IF u.state = "Scheduled" THEN @ \cup {Entry(e.id, u)} ELSE @,
               !.failures = IF ok THEN @ ELSE @ \cup {e},
               !.outstanding = None]

ClosedScheduler(s) ==
  [s EXCEPT !.closed = TRUE,
            !.pending = {},
            !.timers = [i \in DOMAIN @ |->
              IF Active(@[i]) THEN [@[i] EXCEPT !.state = "Cancelled"] ELSE @[i]]]

-----------------------------------------------------------------------------
\* Saving and restoring.

Saved(s) == [now |-> s.now, sequence |-> s.sequence, timers |-> s.timers,
             failures |-> s.failures]

ScheduledIds(s) == {i \in DOMAIN s.timers : s.timers[i].state = "Scheduled"}

\* The deadline of the n-th fire of a periodic timer.
NthDeadline(t, n) == t.first + t.interval * (n - 1)

ValidOneShot(t, now) ==
  /\ t.fires <= 1
  /\ t.deadline = t.first
  /\ t.state = "Completed" => t.fires = 1
  /\ t.state = "Scheduled" => t.fires = 0
  /\ t.fires # 0 => t.deadline <= now

ValidPeriodic(t, now) ==
  LET next == t.first + t.interval * t.fires
      isLast == t.fires # 0 /\ t.deadline = NthDeadline(t, t.fires)
  IN /\ t.fires # 0 => NthDeadline(t, t.fires) <= now
     /\ CASE t.state = "Scheduled" -> t.deadline = next
          [] t.state = "Failed" -> isLast
          [] t.state = "Cancelled" -> t.deadline = next \/ isLast
          [] OTHER -> FALSE

ValidTimer(t, v) ==
  /\ t.sequence \in 1..v.sequence
  /\ t.created <= v.now
  /\ t.first >= t.created
  /\ t.deadline >= t.first
  /\ t.state # "Firing"
  /\ t.state = "Scheduled" => t.deadline >= v.now
  /\ IF t.interval = OneShot THEN ValidOneShot(t, v.now) ELSE ValidPeriodic(t, v.now)
  /\ t.state = "Failed" => t.fires # 0

\* ClockSnapshot::validate.
ValidSnapshot(v) ==
  /\ \A i \in DOMAIN v.timers : ValidTimer(v.timers[i], v)
  /\ \A i, j \in DOMAIN v.timers : i # j => v.timers[i].sequence # v.timers[j].sequence
  /\ Cardinality(DOMAIN v.timers) = v.sequence
  /\ \A f \in v.failures :
       /\ f.id \in DOMAIN v.timers
       /\ LET t == v.timers[f.id]
          IN /\ f.fires # 0
             /\ f.fires = t.fires
             /\ f.sequence = t.sequence
             /\ f.deadline = t.deadline
             /\ f.deadline = IF t.interval = OneShot THEN t.first ELSE NthDeadline(t, t.fires)
             /\ t.state \in {"Failed", "Cancelled"}
  /\ \A f, g \in v.failures : f.id = g.id => f = g
  /\ \A i \in DOMAIN v.timers : v.timers[i].state = "Failed" => \E f \in v.failures : f.id = i

\* restore neither releases nor redefines an identifier that is in use.
Continues(s, v) ==
  \A i \in DOMAIN s.timers :
    /\ i \in DOMAIN v.timers
    /\ LET old == s.timers[i]
           new == v.timers[i]
       IN /\ old.created = new.created
          /\ old.sequence = new.sequence
          /\ old.interval = new.interval
          /\ old.first = new.first

MayRestore(s, v) == Dispatchable(s) /\ ValidSnapshot(v) /\ Continues(s, v)

Restored(s, v) ==
  [now |-> v.now, sequence |-> v.sequence, timers |-> v.timers, failures |-> v.failures,
   pending |-> {Entry(i, v.timers[i]) : i \in ScheduledIds(v)},
   closed |-> s.closed, outstanding |-> s.outstanding]
=============================================================================
