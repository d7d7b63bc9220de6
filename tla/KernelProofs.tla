---------------------------- MODULE KernelProofs ----------------------------
(* Theorems about the parts of a Runtime that MCKernel puts side by side,   *)
(* for any identifiers, commands and bounds.                                *)
EXTENDS MCKernel, AccountProofs, SequenceTheorems

-----------------------------------------------------------------------------
(* The virtual clock: the inductive invariant *)

TimerState == {"Scheduled", "Firing", "Completed", "Failed", "Cancelled"}

Timer ==
  [state : TimerState, created : Nat, first : Nat, deadline : Nat, interval : Nat,
   sequence : Nat, fires : Nat]

\* The part of a table that is saved.
TableTyped(v) ==
  /\ v.now \in Nat /\ v.sequence \in Nat
  /\ v.timers \in [DOMAIN v.timers -> Timer]
  /\ DOMAIN v.timers \subseteq TimerIds /\ IsFiniteSet(DOMAIN v.timers)
  /\ v.failures \subseteq Token

SchedulerTyped(s) ==
  /\ s = [now |-> s.now, sequence |-> s.sequence, timers |-> s.timers, pending |-> s.pending,
          failures |-> s.failures, closed |-> s.closed, outstanding |-> s.outstanding]
  /\ TableTyped(s)
  /\ s.closed \in BOOLEAN
  /\ s.outstanding \in Token \cup {None}

\* The deadline a timer had when it fired last.
LastDeadline(t) == IF t.interval = 0 THEN t.first ELSE Clock!NthDeadline(t, t.fires)

NextDeadline(t) == t.first + t.interval * t.fires

OneShotSound(t, now) ==
  /\ t.fires <= 1 /\ t.deadline = t.first
  /\ t.state \in {"Completed", "Firing"} => t.fires = 1
  /\ t.state = "Scheduled" => t.fires = 0
  /\ t.fires # 0 => t.deadline <= now

PeriodicSound(t, now) ==
  /\ t.fires # 0 => LastDeadline(t) <= now
  /\ t.state # "Completed"
  /\ t.state = "Scheduled" => t.deadline = NextDeadline(t)
  /\ t.state \in {"Failed", "Firing"} => t.fires # 0 /\ t.deadline = LastDeadline(t)
  /\ t.state = "Cancelled" =>
       t.deadline = NextDeadline(t) \/ (t.fires # 0 /\ t.deadline = LastDeadline(t))

\* A timer of a table at an instant; unlike in a snapshot it may be firing.
TimerSound(t, now) ==
  /\ t.created <= now /\ t.first >= t.created /\ t.deadline >= t.first
  /\ t.state = "Scheduled" => t.deadline >= now
  /\ t.state = "Failed" => t.fires # 0
  /\ IF t.interval = 0 THEN OneShotSound(t, now) ELSE PeriodicSound(t, now)

\* The identifiers of a table, numbered in the order of registration.
Numbered(T, n) ==
  /\ \A i \in DOMAIN T : T[i].sequence \in 1..n
  /\ \A i, j \in DOMAIN T : i # j => T[i].sequence # T[j].sequence
  /\ Cardinality(DOMAIN T) = n

\* A failure is the last fire of a timer that never fires again.
FailureSound(f, T) ==
  /\ f.id \in DOMAIN T
  /\ f.fires # 0 /\ f.fires = T[f.id].fires /\ f.sequence = T[f.id].sequence
  /\ f.deadline = T[f.id].deadline /\ f.deadline = LastDeadline(T[f.id])
  /\ T[f.id].state \in {"Failed", "Cancelled"}

FailuresSound(F, T) ==
  /\ \A f \in F : FailureSound(f, T)
  /\ \A i \in DOMAIN T : T[i].state = "Failed" => \E f \in F : f.id = i

TableSound(v) ==
  /\ \A i \in DOMAIN v.timers : TimerSound(v.timers[i], v.now)
  /\ Numbered(v.timers, v.sequence)
  /\ FailuresSound(v.failures, v.timers)

\* The dispatch under way: time stands still until its callback ends.
FlightSound(s) ==
  /\ \A i \in DOMAIN s.timers :
       s.timers[i].state = "Firing" => s.outstanding # None /\ s.outstanding.id = i
  /\ s.outstanding # None =>
       LET e == s.outstanding
       IN /\ e.id \in DOMAIN s.timers
          /\ e.fires # 0 /\ e.fires = s.timers[e.id].fires
          /\ e.sequence = s.timers[e.id].sequence
          /\ e.deadline = s.timers[e.id].deadline /\ e.deadline = LastDeadline(s.timers[e.id])
          /\ s.timers[e.id].state \in {"Firing", "Cancelled"}
          /\ s.now = e.deadline

PendingOf(v) == {Clock!Entry(i, v.timers[i]) : i \in Clock!ScheduledIds(v)}

SchedulerSound(s) ==
  /\ SchedulerTyped(s)
  /\ TableSound(s)
  /\ FlightSound(s)
  /\ s.pending = PendingOf(s)

SavedSound(v) == TableTyped(v) /\ Clock!ValidSnapshot(v)

ClockInvariant ==
  /\ SchedulerSound(scheduler)
  /\ callbacks = Clock!ScheduledIds(scheduler)
  /\ target \in Nat \cup {None}
  /\ target = None => scheduler.outstanding = None
  /\ target # None => scheduler.now <= target
  /\ saved # None => SavedSound(saved)

-----------------------------------------------------------------------------
(* Snapshots and sound tables *)

\* The instance of the clock brings its own copy of the operators on finite sets.
LEMMA SameCardinality == ASSUME NEW S PROVE Clock!Cardinality(S) = Cardinality(S)
  BY DEF Clock!Cardinality, Cardinality

LEMMA TimerFields ==
  ASSUME NEW t \in Timer
  PROVE  /\ t.state \in TimerState /\ t.created \in Nat /\ t.first \in Nat /\ t.deadline \in Nat
         /\ t.interval \in Nat /\ t.sequence \in Nat /\ t.fires \in Nat
  BY DEF Timer

LEMMA DeadlinesTyped ==
  ASSUME NEW t \in Timer
  PROVE  /\ NextDeadline(t) \in Nat /\ LastDeadline(t) \in Int
         /\ t.fires = 0 => NextDeadline(t) = t.first
  <1>1. \A i, n \in Nat : i * n \in Nat /\ i * 0 = 0
    OBVIOUS
  <1>2. \A i, n \in Nat : i * (n - 1) \in Int
    OBVIOUS
  <1>3. t.interval * t.fires \in Nat /\ t.interval * (t.fires - 1) \in Int
        /\ t.interval * 0 = 0 /\ t.first \in Nat
    BY <1>1, <1>2, TimerFields
  <1>4. LastDeadline(t) = IF t.interval = 0 THEN t.first
                          ELSE t.first + t.interval * (t.fires - 1)
    BY DEF LastDeadline, Clock!NthDeadline
  <1>5. NextDeadline(t) = t.first + t.interval * t.fires
    BY DEF NextDeadline
  <1> DEFINE m == t.interval * t.fires
             l == t.interval * (t.fires - 1)
  <1>6. t.fires = 0 => m = 0
    BY <1>3
  <1> HIDE DEF m, l
  <1> QED BY <1>3, <1>4, <1>5, <1>6 DEF m, l

\* A periodic timer that fires reaches its next deadline, and then the one after it.
LEMMA DeadlinesMeet ==
  ASSUME NEW i \in Nat, NEW n \in Nat
  PROVE  i * ((n + 1) - 1) = i * n /\ i * (n - 1) + i = i * n
  OBVIOUS

LEMMA TimerIsValid ==
  ASSUME NEW t \in Timer, NEW v, v.now \in Nat, v.sequence \in Nat
  PROVE  Clock!ValidTimer(t, v) <=>
           /\ TimerSound(t, v.now) /\ t.sequence \in 1..v.sequence /\ t.state # "Firing"
  <1> DEFINE last == Clock!NthDeadline(t, t.fires)
             next == t.first + t.interval * t.fires
  <1>1. NextDeadline(t) = next /\ (t.interval # 0 => LastDeadline(t) = last)
    BY DEF NextDeadline, LastDeadline
  <1>2. t.state \in TimerState
    BY TimerFields
  <1>3. CASE t.interval = 0
    BY <1>2, <1>3 DEF Clock!ValidTimer, Clock!OneShot, Clock!ValidOneShot, TimerSound,
         OneShotSound, TimerState
  <1>4. CASE t.interval # 0
    <2>1. Clock!ValidPeriodic(t, v.now) <=>
            /\ t.fires # 0 => last <= v.now
            /\ CASE t.state = "Scheduled" -> t.deadline = next
                 [] t.state = "Failed" -> t.fires # 0 /\ t.deadline = last
                 [] t.state = "Cancelled" -> t.deadline = next \/ (t.fires # 0 /\ t.deadline = last)
                 [] OTHER -> FALSE
      BY DEF Clock!ValidPeriodic
    <2> HIDE DEF last, next
    <2>2. PeriodicSound(t, v.now) <=>
            /\ t.fires # 0 => last <= v.now
            /\ t.state # "Completed"
            /\ t.state = "Scheduled" => t.deadline = next
            /\ t.state \in {"Failed", "Firing"} => t.fires # 0 /\ t.deadline = last
            /\ t.state = "Cancelled" =>
                 t.deadline = next \/ (t.fires # 0 /\ t.deadline = last)
      BY <1>1, <1>4 DEF PeriodicSound
    <2>3. t.state # "Firing" => (Clock!ValidPeriodic(t, v.now) <=> PeriodicSound(t, v.now))
      BY <1>2, <2>1, <2>2 DEF TimerState
    <2> QED BY <1>4, <2>3 DEF Clock!ValidTimer, Clock!OneShot, TimerSound
  <1> QED BY <1>3, <1>4

LEMMA FailureIsOne ==
  ASSUME NEW T, NEW f \in Token, NEW g \in Token, FailureSound(f, T), FailureSound(g, T),
         f.id = g.id
  PROVE  f = g
  BY DEF FailureSound, Token

\* What ClockSnapshot::validate accepts is a sound table in which nothing fires.
LEMMA SnapshotIsTable ==
  ASSUME NEW v, TableTyped(v)
  PROVE  Clock!ValidSnapshot(v) <=>
           TableSound(v) /\ \A i \in DOMAIN v.timers : v.timers[i].state # "Firing"
  <1>1. \A i \in DOMAIN v.timers : v.timers[i] \in Timer
    BY DEF TableTyped
  <1>2. v.now \in Nat /\ v.sequence \in Nat /\ v.failures \subseteq Token
    BY DEF TableTyped
  <1>3. \A i \in DOMAIN v.timers :
          Clock!ValidTimer(v.timers[i], v) <=>
            /\ TimerSound(v.timers[i], v.now) /\ v.timers[i].sequence \in 1..v.sequence
            /\ v.timers[i].state # "Firing"
    BY <1>1, <1>2, TimerIsValid
  <1> DEFINE Told(f) ==
               /\ f.id \in DOMAIN v.timers
               /\ LET t == v.timers[f.id]
                  IN /\ f.fires # 0
                     /\ f.fires = t.fires
                     /\ f.sequence = t.sequence
                     /\ f.deadline = t.deadline
                     /\ f.deadline = IF t.interval = Clock!OneShot THEN t.first
                                     ELSE Clock!NthDeadline(t, t.fires)
                     /\ t.state \in {"Failed", "Cancelled"}
  <1>4. \A f \in v.failures : Told(f) <=> FailureSound(f, v.timers)
    BY DEF FailureSound, LastDeadline, Clock!OneShot
  <1>5. Clock!ValidSnapshot(v) <=>
          /\ \A i \in DOMAIN v.timers : Clock!ValidTimer(v.timers[i], v)
          /\ \A i, j \in DOMAIN v.timers : i # j => v.timers[i].sequence # v.timers[j].sequence
          /\ Cardinality(DOMAIN v.timers) = v.sequence
          /\ \A f \in v.failures : Told(f)
          /\ \A f, g \in v.failures : f.id = g.id => f = g
          /\ \A i \in DOMAIN v.timers :
               v.timers[i].state = "Failed" => \E f \in v.failures : f.id = i
    BY SameCardinality DEF Clock!ValidSnapshot
  <1> HIDE DEF Told
  <1>6. (\A f \in v.failures : FailureSound(f, v.timers)) =>
          \A f, g \in v.failures : f.id = g.id => f = g
    BY <1>2, FailureIsOne
  <1> QED BY <1>3, <1>4, <1>5, <1>6 DEF TableSound, Numbered, FailuresSound

-----------------------------------------------------------------------------
(* What each operation does to a sound table *)

LEMMA SchedulerFacts ==
  ASSUME NEW s, SchedulerSound(s)
  PROVE  /\ s = [now |-> s.now, sequence |-> s.sequence, timers |-> s.timers,
                 pending |-> s.pending, failures |-> s.failures, closed |-> s.closed,
                 outstanding |-> s.outstanding]
         /\ s.now \in Nat /\ s.sequence \in Nat /\ s.closed \in BOOLEAN
         /\ s.timers \in [DOMAIN s.timers -> Timer]
         /\ DOMAIN s.timers \subseteq TimerIds /\ IsFiniteSet(DOMAIN s.timers)
         /\ s.failures \subseteq Token /\ s.outstanding \in Token \cup {None}
         /\ \A i \in DOMAIN s.timers : s.timers[i] \in Timer /\ TimerSound(s.timers[i], s.now)
         /\ Numbered(s.timers, s.sequence)
         /\ FailuresSound(s.failures, s.timers)
         /\ FlightSound(s)
         /\ s.pending = PendingOf(s)
  BY DEF SchedulerSound, SchedulerTyped, TableTyped, TableSound

\* A table put together from its parts.
LEMMA Assembled ==
  ASSUME NEW s, NEW n, NEW q, NEW T, NEW P, NEW F, NEW c, NEW o,
         s = [now |-> n, sequence |-> q, timers |-> T, pending |-> P, failures |-> F,
              closed |-> c, outstanding |-> o],
         n \in Nat, q \in Nat, c \in BOOLEAN, T \in [DOMAIN T -> Timer],
         DOMAIN T \subseteq TimerIds, IsFiniteSet(DOMAIN T), F \subseteq Token,
         o \in Token \cup {None},
         \A i \in DOMAIN T : TimerSound(T[i], n), Numbered(T, q), FailuresSound(F, T),
         FlightSound(s), P = PendingOf(s)
  PROVE  SchedulerSound(s)
  <1>1. /\ s.now = n /\ s.sequence = q /\ s.timers = T /\ s.pending = P /\ s.failures = F
        /\ s.closed = c /\ s.outstanding = o
    OBVIOUS
  <1>2. SchedulerTyped(s)
    BY <1>1 DEF SchedulerTyped, TableTyped
  <1>3. TableSound(s)
    BY <1>1 DEF TableSound
  <1> QED BY <1>1, <1>2, <1>3 DEF SchedulerSound

LEMMA RegisterSound ==
  ASSUME NEW s, SchedulerSound(s), NEW id \in TimerIds, NEW d \in Nat, NEW k \in Nat,
         Clock!MayRegister(s, id, d)
  PROVE  LET b == Clock!Registered(s, id, d, k)
         IN /\ SchedulerSound(b)
            /\ b.now = s.now /\ b.outstanding = s.outstanding
            /\ Clock!ScheduledIds(b) = Clock!ScheduledIds(s) \cup {id}
  <1> DEFINE T == s.timers
             q == s.sequence + 1
             t == [state |-> "Scheduled", created |-> s.now, first |-> d, deadline |-> d,
                   interval |-> k, sequence |-> q, fires |-> 0]
             U == [i \in DOMAIN T \cup {id} |-> IF i = id THEN t ELSE T[i]]
             P == s.pending \cup {Clock!Entry(id, t)}
             b == Clock!Registered(s, id, d, k)
  <1>0. id \notin DOMAIN T /\ d >= s.now
    BY DEF Clock!MayRegister
  <1>1. b = [now |-> s.now, sequence |-> q, timers |-> U, pending |-> P,
             failures |-> s.failures, closed |-> s.closed, outstanding |-> s.outstanding]
    <2>1. b = [s EXCEPT !.sequence = q, !.pending = P, !.timers = U]
      BY DEF Clock!Registered
    <2>2. s = [now |-> s.now, sequence |-> s.sequence, timers |-> s.timers,
               pending |-> s.pending, failures |-> s.failures, closed |-> s.closed,
               outstanding |-> s.outstanding]
      BY SchedulerFacts
    <2> HIDE DEF b, q, P, U
    <2> QED BY ONLY <2>1, <2>2
  <1>2. q \in Nat /\ t \in Timer /\ t.state = "Scheduled" /\ t.sequence = q
    BY SchedulerFacts DEF Timer, TimerState
  <1>3. TimerSound(t, s.now)
    <2>1. /\ t.created = s.now /\ t.first = d /\ t.deadline = d /\ t.interval = k /\ t.fires = 0
          /\ t.state = "Scheduled" /\ s.now \in Nat
      BY SchedulerFacts
    <2>2. NextDeadline(t) = d
      BY <1>2, <2>1, DeadlinesTyped
    <2> HIDE DEF t
    <2> QED BY <1>0, <2>1, <2>2 DEF TimerSound, OneShotSound, PeriodicSound
  <1> HIDE DEF t, q
  <1>4. /\ DOMAIN U = DOMAIN T \cup {id} /\ U[id] = t
        /\ \A i \in DOMAIN T : i # id /\ U[i] = T[i]
    BY <1>0
  <1>5. U \in [DOMAIN U -> Timer] /\ DOMAIN U \subseteq TimerIds /\ IsFiniteSet(DOMAIN U)
    BY <1>2, <1>4, SchedulerFacts, FS_AddElement
  <1> HIDE DEF U, b, P
  <1>6. \A i \in DOMAIN U : TimerSound(U[i], s.now)
    BY <1>3, <1>4, SchedulerFacts
  <1>7. Numbered(U, q)
    <2>1. /\ \A i \in DOMAIN T : T[i].sequence \in 1..s.sequence
          /\ \A i, j \in DOMAIN T : i # j => T[i].sequence # T[j].sequence
          /\ Cardinality(DOMAIN T) = s.sequence /\ s.sequence \in Nat
      BY SchedulerFacts DEF Numbered
    <2>2. Cardinality(DOMAIN U) = q
      BY <1>0, <1>4, <2>1, SchedulerFacts, FS_AddElement DEF q
    <2>3. \A i \in DOMAIN U : U[i].sequence \in 1..q
      BY <1>2, <1>4, <2>1 DEF q
    <2>4. \A i \in DOMAIN T : U[i].sequence # t.sequence
      BY <1>2, <1>4, <2>1 DEF q
    <2>5. \A i, j \in DOMAIN U : i # j => U[i].sequence # U[j].sequence
      BY <1>4, <2>1, <2>4
    <2> QED BY <2>2, <2>3, <2>5 DEF Numbered
  <1>8. FailuresSound(s.failures, U)
    <2>1. FailuresSound(s.failures, T)
      BY SchedulerFacts
    <2>2. \A f \in s.failures : FailureSound(f, U)
      BY <1>4, <2>1 DEF FailuresSound, FailureSound
    <2>3. \A i \in DOMAIN U : U[i].state = "Failed" => \E f \in s.failures : f.id = i
      BY <1>2, <1>4, <2>1 DEF FailuresSound
    <2> QED BY <2>2, <2>3 DEF FailuresSound
  <1>9. b.now = s.now /\ b.timers = U /\ b.outstanding = s.outstanding
    BY <1>1
  <1>10. FlightSound(b)
    <2>1. FlightSound(s)
      BY SchedulerFacts
    <2> QED BY <1>2, <1>4, <1>9, <2>1 DEF FlightSound
  <1>11. Clock!ScheduledIds(b) = Clock!ScheduledIds(s) \cup {id}
    BY <1>2, <1>4, <1>9 DEF Clock!ScheduledIds
  <1>12. P = PendingOf(b)
    <2>1. s.pending = {Clock!Entry(i, T[i]) : i \in Clock!ScheduledIds(s)}
      BY SchedulerFacts DEF PendingOf
    <2>2. Clock!ScheduledIds(s) \subseteq DOMAIN T
      BY DEF Clock!ScheduledIds
    <2> QED BY <1>4, <1>9, <1>11, <2>1, <2>2 DEF PendingOf, P
  <1>13. SchedulerSound(b)
    BY <1>1, <1>2, <1>5, <1>6, <1>7, <1>8, <1>10, <1>12, SchedulerFacts, Assembled
  <1> QED BY <1>9, <1>11, <1>13 DEF b

LEMMA TimerReplaced ==
  ASSUME NEW s, SchedulerSound(s), NEW id \in DOMAIN s.timers, NEW u \in Timer,
         u.sequence = s.timers[id].sequence,
         NEW U, U = [s.timers EXCEPT ![id] = u]
  PROVE  /\ DOMAIN U = DOMAIN s.timers /\ U[id] = u
         /\ \A i \in DOMAIN s.timers : i # id => U[i] = s.timers[i]
         /\ U \in [DOMAIN U -> Timer]
         /\ Numbered(U, s.sequence)
  <1>1. /\ DOMAIN U = DOMAIN s.timers /\ U[id] = u
        /\ \A i \in DOMAIN s.timers : i # id => U[i] = s.timers[i]
    OBVIOUS
  <1>2. U \in [DOMAIN U -> Timer]
    BY SchedulerFacts
  <1>3. \A i \in DOMAIN U : U[i].sequence = s.timers[i].sequence
    BY <1>1
  <1>4. Numbered(U, s.sequence)
    BY <1>1, <1>3, SchedulerFacts DEF Numbered
  <1> QED BY <1>1, <1>2, <1>4

\* A timer without a failure on record may be replaced by one that has not failed.
LEMMA FailuresKept ==
  ASSUME NEW F, NEW T, FailuresSound(F, T), NEW id \in DOMAIN T, NEW U,
         DOMAIN U = DOMAIN T, \A i \in DOMAIN T : i # id => U[i] = T[i],
         T[id].state \notin {"Failed", "Cancelled"}, U[id].state # "Failed"
  PROVE  FailuresSound(F, U)
  <1>1. \A f \in F : FailureSound(f, U)
    BY DEF FailuresSound, FailureSound
  <1>2. \A i \in DOMAIN U : U[i].state = "Failed" => \E f \in F : f.id = i
    BY DEF FailuresSound
  <1> QED BY <1>1, <1>2 DEF FailuresSound

LEMMA EntriesDiffer ==
  ASSUME NEW i, NEW j, NEW t, NEW u, Clock!Entry(i, t) = Clock!Entry(j, u)
  PROVE  i = j
  BY DEF Clock!Entry

\* Cancelled or closed, a timer stays sound.
LEMMA CancelledSound ==
  ASSUME NEW t \in Timer, NEW now \in Nat, TimerSound(t, now), Clock!Active(t)
  PROVE  LET u == [t EXCEPT !.state = "Cancelled"]
         IN /\ u \in Timer /\ TimerSound(u, now)
            /\ u.state = "Cancelled" /\ u.sequence = t.sequence /\ u.fires = t.fires
            /\ u.deadline = t.deadline /\ LastDeadline(u) = LastDeadline(t)
  <1> DEFINE u == [t EXCEPT !.state = "Cancelled"]
  <1>1. /\ u \in Timer /\ u.state = "Cancelled" /\ u.created = t.created /\ u.first = t.first
        /\ u.deadline = t.deadline /\ u.interval = t.interval /\ u.sequence = t.sequence
        /\ u.fires = t.fires
    BY DEF Timer, TimerState
  <1> HIDE DEF u
  <1>2. LastDeadline(u) = LastDeadline(t) /\ NextDeadline(u) = NextDeadline(t)
    BY <1>1 DEF LastDeadline, NextDeadline, Clock!NthDeadline
  <1>3. t.state \in {"Scheduled", "Firing"}
    BY DEF Clock!Active
  <1>4. TimerSound(u, now)
    BY <1>1, <1>2, <1>3 DEF TimerSound, OneShotSound, PeriodicSound
  <1> QED BY <1>1, <1>2, <1>4 DEF u

LEMMA CancelSound ==
  ASSUME NEW s, SchedulerSound(s), NEW id, Clock!MayCancel(s, id)
  PROVE  LET b == Clock!CancelledTimer(s, id)
         IN /\ SchedulerSound(b)
            /\ b.now = s.now /\ b.outstanding = s.outstanding
            /\ Clock!ScheduledIds(b) = Clock!ScheduledIds(s) \ {id}
  <1> DEFINE T == s.timers
             u == [T[id] EXCEPT !.state = "Cancelled"]
             U == [T EXCEPT ![id] = u]
             P == s.pending \ {Clock!Entry(id, T[id])}
             b == Clock!CancelledTimer(s, id)
  <1>0. id \in DOMAIN T /\ T[id] \in Timer /\ T[id].state \in {"Scheduled", "Firing"}
    BY SchedulerFacts DEF Clock!MayCancel, Clock!Active
  <1>1. b = [now |-> s.now, sequence |-> s.sequence, timers |-> U, pending |-> P,
             failures |-> s.failures, closed |-> s.closed, outstanding |-> s.outstanding]
    <2>1. b = [s EXCEPT !.pending = P, !.timers = U]
      BY DEF Clock!CancelledTimer
    <2>2. s = [now |-> s.now, sequence |-> s.sequence, timers |-> s.timers,
               pending |-> s.pending, failures |-> s.failures, closed |-> s.closed,
               outstanding |-> s.outstanding]
      BY SchedulerFacts
    <2> HIDE DEF b, P, U
    <2> QED BY ONLY <2>1, <2>2
  <1>2. /\ u \in Timer /\ TimerSound(u, s.now)
        /\ u.state = "Cancelled" /\ u.sequence = T[id].sequence /\ u.fires = T[id].fires
        /\ u.deadline = T[id].deadline /\ LastDeadline(u) = LastDeadline(T[id])
    <2>1. s.now \in Nat /\ TimerSound(T[id], s.now) /\ Clock!Active(T[id])
      BY <1>0, SchedulerFacts DEF Clock!Active
    <2> QED BY <1>0, <2>1, CancelledSound
  <1> HIDE DEF u
  <1>3. /\ DOMAIN U = DOMAIN T /\ U[id] = u /\ \A i \in DOMAIN T : i # id => U[i] = T[i]
        /\ U \in [DOMAIN U -> Timer] /\ Numbered(U, s.sequence)
    BY <1>0, <1>2, TimerReplaced
  <1> HIDE DEF U, b, P
  <1>4. \A i \in DOMAIN U : TimerSound(U[i], s.now)
    BY <1>2, <1>3, SchedulerFacts
  <1>5. FailuresSound(s.failures, U)
    BY <1>0, <1>2, <1>3, SchedulerFacts, FailuresKept
  <1>6. b.now = s.now /\ b.timers = U /\ b.outstanding = s.outstanding
    BY <1>1
  <1>7. FlightSound(b)
    <2>1. FlightSound(s)
      BY SchedulerFacts
    <2> QED BY <1>2, <1>3, <1>6, <2>1 DEF FlightSound
  <1>8. Clock!ScheduledIds(b) = Clock!ScheduledIds(s) \ {id}
    BY <1>2, <1>3, <1>6 DEF Clock!ScheduledIds
  <1>9. P = PendingOf(b)
    <2>1. s.pending = {Clock!Entry(i, T[i]) : i \in Clock!ScheduledIds(s)}
      BY SchedulerFacts DEF PendingOf
    <2>2. Clock!ScheduledIds(s) \subseteq DOMAIN T
      BY DEF Clock!ScheduledIds
    <2>3. P = {Clock!Entry(i, T[i]) : i \in Clock!ScheduledIds(s) \ {id}}
      BY <2>1, EntriesDiffer DEF P
    <2> QED BY <1>3, <1>6, <1>8, <2>2, <2>3 DEF PendingOf
  <1>10. SchedulerSound(b)
    BY <1>1, <1>3, <1>4, <1>5, <1>7, <1>9, SchedulerFacts, Assembled
  <1> QED BY <1>6, <1>8, <1>10 DEF b

LEMMA CloseSound ==
  ASSUME NEW s, SchedulerSound(s)
  PROVE  LET b == Clock!ClosedScheduler(s)
         IN /\ SchedulerSound(b)
            /\ b.now = s.now /\ b.outstanding = s.outstanding
            /\ Clock!ScheduledIds(b) = {}
  <1> DEFINE T == s.timers
             U == [i \in DOMAIN T |-> IF Clock!Active(T[i])
                                      THEN [T[i] EXCEPT !.state = "Cancelled"] ELSE T[i]]
             b == Clock!ClosedScheduler(s)
  <1>1. b = [now |-> s.now, sequence |-> s.sequence, timers |-> U, pending |-> {},
             failures |-> s.failures, closed |-> TRUE, outstanding |-> s.outstanding]
    <2>1. b = [s EXCEPT !.closed = TRUE, !.pending = {}, !.timers = U]
      BY DEF Clock!ClosedScheduler
    <2>2. s = [now |-> s.now, sequence |-> s.sequence, timers |-> s.timers,
               pending |-> s.pending, failures |-> s.failures, closed |-> s.closed,
               outstanding |-> s.outstanding]
      BY SchedulerFacts
    <2> HIDE DEF b, U
    <2> QED BY ONLY <2>1, <2>2
  <1>2. ASSUME NEW i \in DOMAIN T
        PROVE  /\ U[i] \in Timer /\ TimerSound(U[i], s.now)
               /\ U[i].sequence = T[i].sequence /\ U[i].fires = T[i].fires
               /\ U[i].deadline = T[i].deadline /\ LastDeadline(U[i]) = LastDeadline(T[i])
               /\ U[i].state = IF T[i].state \in {"Scheduled", "Firing"} THEN "Cancelled"
                               ELSE T[i].state
    <2>1. T[i] \in Timer /\ TimerSound(T[i], s.now) /\ s.now \in Nat
      BY SchedulerFacts
    <2>2. CASE Clock!Active(T[i])
      <3>1. U[i] = [T[i] EXCEPT !.state = "Cancelled"]
        BY <2>2
      <3> HIDE DEF U
      <3> QED BY <2>1, <2>2, <3>1, CancelledSound DEF Clock!Active
    <2>3. CASE ~Clock!Active(T[i])
      <3>1. U[i] = T[i]
        BY <2>3
      <3> QED BY <2>1, <2>3, <3>1 DEF Clock!Active
    <2> QED BY <2>2, <2>3
  <1>3. DOMAIN U = DOMAIN T /\ U = [i \in DOMAIN T |-> U[i]]
    OBVIOUS
  <1> HIDE DEF U, b
  <1>4. U \in [DOMAIN U -> Timer]
    BY <1>2, <1>3
  <1>5. Numbered(U, s.sequence)
    <2>1. \A i \in DOMAIN U : U[i].sequence = T[i].sequence
      BY <1>2, <1>3
    <2>2. Numbered(T, s.sequence)
      BY SchedulerFacts
    <2> HIDE DEF T
    <2> QED BY ONLY <1>3, <2>1, <2>2 DEF Numbered
  <1>6. FailuresSound(s.failures, U)
    <2>1. FailuresSound(s.failures, T)
      BY SchedulerFacts
    <2>2. \A f \in s.failures : FailureSound(f, U)
      BY <1>2, <1>3, <2>1 DEF FailuresSound, FailureSound
    <2>3. \A i \in DOMAIN U : U[i].state = "Failed" => \E f \in s.failures : f.id = i
      BY <1>2, <1>3, <2>1 DEF FailuresSound
    <2> QED BY <2>2, <2>3 DEF FailuresSound
  <1>7. b.now = s.now /\ b.timers = U /\ b.outstanding = s.outstanding
    BY <1>1
  <1>8. FlightSound(b)
    <2>1. FlightSound(s)
      BY SchedulerFacts
    <2> QED BY <1>2, <1>3, <1>7, <2>1 DEF FlightSound
  <1>9. Clock!ScheduledIds(b) = {}
    BY <1>2, <1>3, <1>7 DEF Clock!ScheduledIds
  <1>10. PendingOf(b) = {}
    BY <1>9 DEF PendingOf
  <1>11. SchedulerSound(b)
    BY <1>1, <1>2, <1>3, <1>4, <1>5, <1>6, <1>8, <1>10, SchedulerFacts, Assembled
  <1> QED BY <1>7, <1>9, <1>11 DEF b

\* A timer that fires at its deadline.
LEMMA FiringSound ==
  ASSUME NEW t \in Timer, NEW now \in Nat, TimerSound(t, now), t.state = "Scheduled"
  PROVE  LET u == [t EXCEPT !.state = "Firing", !.fires = @ + 1]
         IN /\ u \in Timer /\ TimerSound(u, t.deadline)
            /\ u.state = "Firing" /\ u.sequence = t.sequence /\ u.fires = t.fires + 1
            /\ u.fires # 0 /\ u.deadline = t.deadline /\ LastDeadline(u) = t.deadline
  <1> DEFINE u == [t EXCEPT !.state = "Firing", !.fires = t.fires + 1]
  <1>0. t.fires \in Nat /\ t.deadline \in Nat /\ t.interval \in Nat /\ t.first \in Nat
        /\ t.created \in Nat
    BY TimerFields
  <1>1. /\ u \in Timer /\ u.state = "Firing" /\ u.created = t.created /\ u.first = t.first
        /\ u.deadline = t.deadline /\ u.interval = t.interval /\ u.sequence = t.sequence
        /\ u.fires = t.fires + 1
    <2>1. t.fires + 1 \in Nat /\ "Firing" \in TimerState
      BY <1>0 DEF TimerState
    <2> QED BY <2>1 DEF Timer
  <1> HIDE DEF u
  <1>2. LastDeadline(u) = t.deadline
    <2>1. CASE t.interval = 0
      BY <1>1, <2>1 DEF LastDeadline, TimerSound, OneShotSound
    <2>2. CASE t.interval # 0
      <3>1. t.deadline = t.first + t.interval * t.fires
        BY <2>2 DEF TimerSound, PeriodicSound, NextDeadline
      <3>2. LastDeadline(u) = t.first + t.interval * ((t.fires + 1) - 1)
        BY <1>1, <2>2 DEF LastDeadline, Clock!NthDeadline
      <3> QED BY <1>0, <3>1, <3>2, DeadlinesMeet
    <2> QED BY <2>1, <2>2
  <1>3. /\ t.created <= now /\ t.first >= t.created /\ t.deadline >= t.first
        /\ t.interval = 0 => t.fires = 0 /\ t.deadline = t.first
    BY DEF TimerSound, OneShotSound
  <1>4. TimerSound(u, t.deadline)
    <2>1. u.created <= t.deadline /\ u.fires # 0
      BY <1>0, <1>1, <1>3
    <2>2. t.interval = 0 => OneShotSound(u, t.deadline)
      BY <1>0, <1>1, <1>3 DEF OneShotSound
    <2>3. PeriodicSound(u, t.deadline)
      BY <1>0, <1>1, <1>2, <2>1 DEF PeriodicSound
    <2> QED BY <1>1, <1>3, <2>1, <2>2, <2>3 DEF TimerSound
  <1> QED BY <1>0, <1>1, <1>2, <1>4 DEF u

\* The passing of time up to an instant no deadline lies before.
LEMMA LaterSound ==
  ASSUME NEW t \in Timer, NEW now \in Nat, NEW later \in Nat, now <= later, TimerSound(t, now),
         t.state = "Scheduled" => later <= t.deadline
  PROVE  TimerSound(t, later)
  <1>1. t.created \in Nat /\ t.deadline \in Nat /\ LastDeadline(t) \in Int
    BY TimerFields, DeadlinesTyped
  <1>2. t.created <= later
    BY <1>1 DEF TimerSound
  <1>3. t.interval = 0 => OneShotSound(t, later)
    BY <1>1 DEF TimerSound, OneShotSound
  <1>4. t.interval # 0 => PeriodicSound(t, later)
    BY <1>1 DEF TimerSound, PeriodicSound
  <1> QED BY <1>2, <1>3, <1>4 DEF TimerSound

LEMMA DispatchSound ==
  ASSUME NEW s, SchedulerSound(s), NEW id \in Clock!ScheduledIds(s), s.outstanding = None,
         \A i \in Clock!ScheduledIds(s) : s.timers[id].deadline <= s.timers[i].deadline
  PROVE  LET b == Clock!Dispatched(s, id, s.timers[id].deadline)
         IN /\ SchedulerSound(b)
            /\ b.now = s.timers[id].deadline /\ b.outstanding # None
            /\ Clock!ScheduledIds(b) = Clock!ScheduledIds(s) \ {id}
  <1> DEFINE T == s.timers
             t == T[id]
             u == [t EXCEPT !.state = "Firing", !.fires = @ + 1]
             U == [T EXCEPT ![id] = u]
             P == s.pending \ {Clock!Entry(id, t)}
             e == [id |-> id, deadline |-> t.deadline, sequence |-> t.sequence,
                   fires |-> t.fires + 1]
             b == Clock!Dispatched(s, id, t.deadline)
  <1>0. /\ id \in DOMAIN T /\ id \in TimerIds /\ t \in Timer /\ t.state = "Scheduled"
        /\ TimerSound(t, s.now) /\ s.now \in Nat /\ s.now <= t.deadline
    BY SchedulerFacts DEF Clock!ScheduledIds, TimerSound
  <1>1. b = [now |-> t.deadline, sequence |-> s.sequence, timers |-> U, pending |-> P,
             failures |-> s.failures, closed |-> s.closed, outstanding |-> e]
    <2>1. b = [s EXCEPT !.pending = P, !.timers = U, !.now = t.deadline, !.outstanding = e]
      BY <1>0 DEF Clock!Dispatched, Timer
    <2>2. s = [now |-> s.now, sequence |-> s.sequence, timers |-> s.timers,
               pending |-> s.pending, failures |-> s.failures, closed |-> s.closed,
               outstanding |-> s.outstanding]
      BY SchedulerFacts
    <2> HIDE DEF b, P, U, e, t
    <2> QED BY ONLY <2>1, <2>2
  <1>2. /\ u \in Timer /\ TimerSound(u, t.deadline)
        /\ u.state = "Firing" /\ u.sequence = t.sequence /\ u.fires = t.fires + 1
        /\ u.fires # 0 /\ u.deadline = t.deadline /\ LastDeadline(u) = t.deadline
    BY <1>0, FiringSound
  <1>3. t.deadline \in Nat /\ t.sequence \in Nat /\ t.fires + 1 \in Nat
    BY <1>0, TimerFields
  <1>4. e \in Token /\ e.id = id /\ e.deadline = t.deadline /\ e.sequence = t.sequence
        /\ e.fires = t.fires + 1
    BY <1>0, <1>3 DEF Token
  <1> HIDE DEF u, e
  <1>5. /\ DOMAIN U = DOMAIN T /\ U[id] = u /\ \A i \in DOMAIN T : i # id => U[i] = T[i]
        /\ U \in [DOMAIN U -> Timer] /\ Numbered(U, s.sequence)
    BY <1>0, <1>2, TimerReplaced
  <1> HIDE DEF U, b, P
  <1>6. \A i \in DOMAIN U : TimerSound(U[i], t.deadline)
    <2>1. ASSUME NEW i \in DOMAIN T, i # id PROVE TimerSound(T[i], t.deadline)
      <3>1. T[i] \in Timer /\ TimerSound(T[i], s.now)
        BY SchedulerFacts
      <3>2. T[i].state = "Scheduled" => t.deadline <= T[i].deadline
        BY DEF Clock!ScheduledIds
      <3> HIDE DEF T, t
      <3> QED BY <1>0, <1>3, <3>1, <3>2, LaterSound
    <2> QED BY <1>2, <1>5, <2>1
  <1>7. FailuresSound(s.failures, U)
    BY <1>0, <1>2, <1>5, SchedulerFacts, FailuresKept
  <1>8. b.now = t.deadline /\ b.timers = U /\ b.outstanding = e
    BY <1>1
  <1>9. e # None
    BY <1>4, KernelAssumption
  <1>10. FlightSound(b)
    <2>1. \A i \in DOMAIN T : T[i].state # "Firing"
      BY SchedulerFacts DEF FlightSound
    <2>2. \A i \in DOMAIN U : U[i].state = "Firing" => i = id
      BY <1>5, <2>1
    <2> HIDE DEF T, t
    <2> QED BY <1>0, <1>2, <1>4, <1>5, <1>8, <2>2, <1>9 DEF FlightSound
  <1>11. Clock!ScheduledIds(b) = Clock!ScheduledIds(s) \ {id}
    BY <1>2, <1>5, <1>8 DEF Clock!ScheduledIds
  <1>12. P = PendingOf(b)
    <2>1. s.pending = {Clock!Entry(i, T[i]) : i \in Clock!ScheduledIds(s)}
      BY SchedulerFacts DEF PendingOf
    <2>2. Clock!ScheduledIds(s) \subseteq DOMAIN T
      BY DEF Clock!ScheduledIds
    <2>3. P = {Clock!Entry(i, T[i]) : i \in Clock!ScheduledIds(s) \ {id}}
      BY <2>1, EntriesDiffer DEF P
    <2> QED BY <1>5, <1>8, <1>11, <2>2, <2>3 DEF PendingOf
  <1>13. SchedulerSound(b)
    <2> HIDE DEF t
    <2>1. /\ s.sequence \in Nat /\ s.closed \in BOOLEAN /\ s.failures \subseteq Token
          /\ DOMAIN U \subseteq TimerIds /\ IsFiniteSet(DOMAIN U) /\ e \in Token \cup {None}
      BY <1>4, <1>5, SchedulerFacts
    <2> QED BY ONLY <1>1, <1>3, <1>5, <1>6, <1>7, <1>10, <1>12, <2>1, Assembled
  <1> QED BY <1>8, <1>9, <1>11, <1>13 DEF b

\* What complete_dispatch makes of the timer that fired.
Outcome(t, ok) ==
  IF t.state = "Cancelled" THEN t
  ELSE IF ~ok THEN [t EXCEPT !.state = "Failed"]
  ELSE IF t.interval = 0 THEN [t EXCEPT !.state = "Completed"]
  ELSE [t EXCEPT !.state = "Scheduled", !.deadline = t.deadline + t.interval]

LEMMA OutcomeSound ==
  ASSUME NEW t \in Timer, NEW ok \in BOOLEAN, TimerSound(t, t.deadline),
         t.state \in {"Firing", "Cancelled"}, t.fires # 0, t.deadline = LastDeadline(t)
  PROVE  LET u == Outcome(t, ok)
         IN /\ u \in Timer /\ TimerSound(u, t.deadline)
            /\ u.sequence = t.sequence /\ u.fires = t.fires
            /\ LastDeadline(u) = t.deadline
            /\ u.state = IF t.state = "Cancelled" THEN "Cancelled" ELSE IF ~ok THEN "Failed"
                         ELSE IF t.interval = 0 THEN "Completed" ELSE "Scheduled"
            /\ u.state # "Scheduled" => u.deadline = t.deadline
  <1> DEFINE u == Outcome(t, ok)
             next == IF u.state = "Scheduled" THEN t.deadline + t.interval ELSE t.deadline
  <1>0. t.fires \in Nat /\ t.deadline \in Nat /\ t.interval \in Nat /\ t.first \in Nat
        /\ t.created \in Nat
    BY TimerFields
  <1>1. /\ u \in Timer /\ u.created = t.created /\ u.first = t.first
        /\ u.deadline = next /\ u.interval = t.interval /\ u.sequence = t.sequence
        /\ u.fires = t.fires
        /\ u.state = IF t.state = "Cancelled" THEN "Cancelled" ELSE IF ~ok THEN "Failed"
                     ELSE IF t.interval = 0 THEN "Completed" ELSE "Scheduled"
    <2>1. t.deadline + t.interval \in Nat /\ {"Failed", "Completed", "Scheduled"} \subseteq TimerState
      BY <1>0 DEF TimerState
    <2> QED BY <2>1 DEF Timer, Outcome
  <1> HIDE DEF u
  <1>2. LastDeadline(u) = t.deadline
    BY <1>1 DEF LastDeadline, Clock!NthDeadline
  <1>3. t.interval # 0 => NextDeadline(u) = t.deadline + t.interval
    <2> SUFFICES ASSUME t.interval # 0 PROVE NextDeadline(u) = t.deadline + t.interval
      OBVIOUS
    <2>1. t.deadline = t.first + t.interval * (t.fires - 1)
      BY DEF LastDeadline, Clock!NthDeadline
    <2>2. NextDeadline(u) = t.first + t.interval * t.fires
      BY <1>1 DEF NextDeadline
    <2> DEFINE m == t.interval * t.fires
               l == t.interval * (t.fires - 1)
    <2>3. l + t.interval = m
      BY <1>0, DeadlinesMeet
    <2>4. l \in Int
      BY <1>0
    <2> HIDE DEF m, l
    <2> QED BY <1>0, <2>1, <2>2, <2>3, <2>4 DEF m, l
  <1>4. /\ t.created <= t.deadline /\ t.first >= t.created /\ t.deadline >= t.first
        /\ t.interval = 0 => t.fires <= 1 /\ t.deadline = t.first
    BY DEF TimerSound, OneShotSound
  <1>5. t.interval = 0 => OneShotSound(u, t.deadline)
    BY <1>0, <1>1, <1>4 DEF OneShotSound
  <1>6. t.interval # 0 => PeriodicSound(u, t.deadline)
    BY <1>0, <1>1, <1>2, <1>3 DEF PeriodicSound
  <1>7. TimerSound(u, t.deadline)
    BY <1>0, <1>1, <1>4, <1>5, <1>6 DEF TimerSound
  <1> QED BY <1>1, <1>2, <1>7 DEF u

LEMMA CompleteSound ==
  ASSUME NEW s, SchedulerSound(s), s.outstanding # None, NEW ok \in BOOLEAN
  PROVE  LET b == Clock!Completed(s, ok)
             id == s.outstanding.id
         IN /\ SchedulerSound(b)
            /\ b.now = s.now /\ b.outstanding = None
            /\ id \notin Clock!ScheduledIds(s)
            /\ Clock!ScheduledIds(b) = Clock!ScheduledIds(s)
                                         \cup (IF Clock!Active(b.timers[id]) THEN {id} ELSE {})
  <1> DEFINE T == s.timers
             e == s.outstanding
             id == e.id
             t == T[id]
             u == Outcome(t, ok)
             U == [T EXCEPT ![id] = u]
             P == IF u.state = "Scheduled" THEN s.pending \cup {Clock!Entry(id, u)} ELSE s.pending
             F == IF ok THEN s.failures ELSE s.failures \cup {e}
             b == Clock!Completed(s, ok)
  <1>0. /\ id \in DOMAIN T /\ t \in Timer /\ e \in Token
        /\ e.fires # 0 /\ e.fires = t.fires /\ e.sequence = t.sequence
        /\ e.deadline = t.deadline /\ e.deadline = LastDeadline(t)
        /\ t.state \in {"Firing", "Cancelled"} /\ s.now = t.deadline
        /\ TimerSound(t, t.deadline)
    BY SchedulerFacts DEF FlightSound
  <1>1. b = [now |-> s.now, sequence |-> s.sequence, timers |-> U, pending |-> P,
             failures |-> F, closed |-> s.closed, outstanding |-> None]
    <2>1. b = [s EXCEPT !.timers = U, !.pending = P, !.failures = F, !.outstanding = None]
      BY DEF Clock!Completed, Clock!OneShot, Outcome
    <2>2. s = [now |-> s.now, sequence |-> s.sequence, timers |-> s.timers,
               pending |-> s.pending, failures |-> s.failures, closed |-> s.closed,
               outstanding |-> s.outstanding]
      BY SchedulerFacts
    <2> HIDE DEF b, P, U, F
    <2> QED BY ONLY <2>1, <2>2
  <1>2. /\ u \in Timer /\ TimerSound(u, t.deadline)
        /\ u.sequence = t.sequence /\ u.fires = t.fires /\ LastDeadline(u) = t.deadline
        /\ u.state = IF t.state = "Cancelled" THEN "Cancelled" ELSE IF ~ok THEN "Failed"
                     ELSE IF t.interval = 0 THEN "Completed" ELSE "Scheduled"
        /\ u.state # "Scheduled" => u.deadline = t.deadline
    <2> HIDE DEF t
    <2>1. t.fires # 0 /\ t.deadline = LastDeadline(t)
      BY <1>0
    <2> QED BY <1>0, <2>1, OutcomeSound
  <1> HIDE DEF u
  <1>3. /\ DOMAIN U = DOMAIN T /\ U[id] = u /\ \A i \in DOMAIN T : i # id => U[i] = T[i]
        /\ U \in [DOMAIN U -> Timer] /\ Numbered(U, s.sequence)
    BY <1>0, <1>2, TimerReplaced
  <1> HIDE DEF U, b, P, F
  <1>4. \A i \in DOMAIN U : TimerSound(U[i], s.now)
    BY <1>0, <1>2, <1>3, SchedulerFacts
  <1>5. FailuresSound(F, U)
    <2>1. FailuresSound(s.failures, T)
      BY SchedulerFacts
    <2>2. ASSUME NEW f \in s.failures PROVE FailureSound(f, U)
      <3>1. FailureSound(f, T)
        BY <2>1 DEF FailuresSound
      <3>2. CASE f.id # id
        BY <1>3, <3>1, <3>2 DEF FailureSound
      <3>3. CASE f.id = id
        <4>1. t.state = "Cancelled" /\ f.fires # 0 /\ f.fires = t.fires
              /\ f.sequence = t.sequence /\ f.deadline = t.deadline
          BY <1>0, <3>1, <3>3 DEF FailureSound
        <4> HIDE DEF t
        <4> QED BY <1>0, <1>2, <1>3, <3>3, <4>1 DEF FailureSound
      <3> QED BY <3>2, <3>3
    <2>3. ~ok => FailureSound(e, U)
      <3> HIDE DEF t
      <3> QED BY <1>0, <1>2, <1>3 DEF FailureSound
    <2>4. \A f \in F : FailureSound(f, U)
      BY <2>2, <2>3 DEF F
    <2>5. ASSUME NEW i \in DOMAIN U, U[i].state = "Failed" PROVE \E f \in F : f.id = i
      <3>1. CASE i # id
        <4>1. i \in DOMAIN T /\ T[i].state = "Failed"
          BY <1>3, <2>5, <3>1
        <4> QED BY <2>1, <4>1 DEF FailuresSound, F
      <3>2. CASE i = id
        <4>1. ~ok
          BY <1>2, <1>3, <2>5, <3>2
        <4> QED BY <3>2, <4>1 DEF F
      <3> QED BY <3>1, <3>2
    <2> QED BY <2>4, <2>5 DEF FailuresSound
  <1>6. b.now = s.now /\ b.timers = U /\ b.outstanding = None
    BY <1>1
  <1>7. FlightSound(b)
    <2>1. \A i \in DOMAIN U : U[i].state # "Firing"
      <3>1. \A i \in DOMAIN T : i # id => T[i].state # "Firing"
        BY SchedulerFacts DEF FlightSound
      <3>2. u.state # "Firing"
        BY <1>2
      <3> QED BY <1>3, <3>1, <3>2
    <2> QED BY <1>6, <2>1 DEF FlightSound
  <1>8. id \notin Clock!ScheduledIds(s)
    BY <1>0 DEF Clock!ScheduledIds
  <1>9. Clock!ScheduledIds(b) = Clock!ScheduledIds(s)
                                  \cup (IF u.state = "Scheduled" THEN {id} ELSE {})
    <2>1. \A i : i \in Clock!ScheduledIds(b) <=> i \in DOMAIN U /\ U[i].state = "Scheduled"
      BY <1>6 DEF Clock!ScheduledIds
    <2>2. \A i : i \in Clock!ScheduledIds(s) <=> i \in DOMAIN T /\ T[i].state = "Scheduled"
      BY DEF Clock!ScheduledIds
    <2> HIDE DEF T, id, t
    <2> QED BY <1>0, <1>3, <1>8, <2>1, <2>2
  <1>10. P = PendingOf(b)
    <2>1. s.pending = {Clock!Entry(i, T[i]) : i \in Clock!ScheduledIds(s)}
      BY SchedulerFacts DEF PendingOf
    <2>2. Clock!ScheduledIds(s) \subseteq DOMAIN T
      BY DEF Clock!ScheduledIds
    <2>3. PendingOf(b) = {Clock!Entry(i, U[i]) : i \in Clock!ScheduledIds(b)}
      BY <1>6 DEF PendingOf
    <2>4. \A i \in Clock!ScheduledIds(s) : U[i] = T[i]
      BY <1>3, <1>8, <2>2
    <2> HIDE DEF T, id, t
    <2> QED BY <1>3, <1>9, <2>1, <2>3, <2>4 DEF P
  <1>11. SchedulerSound(b)
    <2>1. /\ s.now \in Nat /\ s.sequence \in Nat /\ s.closed \in BOOLEAN /\ F \subseteq Token
          /\ DOMAIN U \subseteq TimerIds /\ IsFiniteSet(DOMAIN U) /\ None \in Token \cup {None}
      BY <1>0, <1>3, SchedulerFacts DEF F
    <2> QED BY ONLY <1>1, <1>3, <1>4, <1>5, <1>7, <1>10, <2>1, Assembled
  <1>12. Clock!Active(b.timers[id]) <=> u.state = "Scheduled"
    BY <1>2, <1>3, <1>6 DEF Clock!Active
  <1> QED BY <1>6, <1>8, <1>9, <1>11, <1>12 DEF b

\* Nothing is due before the instant an advance ends at.
LEMMA AdvanceSound ==
  ASSUME NEW s, SchedulerSound(s), s.outstanding = None, NEW n \in Nat, s.now <= n,
         \A i \in Clock!ScheduledIds(s) : n <= s.timers[i].deadline
  PROVE  LET b == [s EXCEPT !.now = n]
         IN /\ SchedulerSound(b) /\ b.now = n /\ b.outstanding = None
            /\ Clock!ScheduledIds(b) = Clock!ScheduledIds(s)
  <1> DEFINE T == s.timers
             b == [s EXCEPT !.now = n]
  <1>1. b = [now |-> n, sequence |-> s.sequence, timers |-> T, pending |-> s.pending,
             failures |-> s.failures, closed |-> s.closed, outstanding |-> s.outstanding]
    <2>1. s = [now |-> s.now, sequence |-> s.sequence, timers |-> s.timers,
               pending |-> s.pending, failures |-> s.failures, closed |-> s.closed,
               outstanding |-> s.outstanding]
      BY SchedulerFacts
    <2> QED BY ONLY <2>1
  <1> HIDE DEF b
  <1>2. b.now = n /\ b.timers = T /\ b.outstanding = None
    BY <1>1
  <1>3. Clock!ScheduledIds(b) = Clock!ScheduledIds(s) /\ PendingOf(b) = PendingOf(s)
    BY <1>2 DEF Clock!ScheduledIds, PendingOf
  <1>4. \A i \in DOMAIN T : TimerSound(T[i], n)
    <2> SUFFICES ASSUME NEW i \in DOMAIN T PROVE TimerSound(T[i], n)
      OBVIOUS
    <2>1. T[i] \in Timer /\ TimerSound(T[i], s.now) /\ s.now \in Nat
      BY SchedulerFacts
    <2>2. T[i].state = "Scheduled" => n <= T[i].deadline
      BY DEF Clock!ScheduledIds
    <2> HIDE DEF T
    <2> QED BY <2>1, <2>2, LaterSound
  <1>5. FlightSound(b)
    <2>1. FlightSound(s)
      BY SchedulerFacts
    <2> QED BY <1>2, <2>1 DEF FlightSound
  <1>6. SchedulerSound(b)
    BY <1>1, <1>3, <1>4, <1>5, SchedulerFacts, Assembled
  <1> QED BY <1>2, <1>3, <1>6 DEF b

\* What is saved between two advances is a valid snapshot.
LEMMA SavedIsValid ==
  ASSUME NEW s, SchedulerSound(s), s.outstanding = None
  PROVE  SavedSound(Clock!Saved(s))
  <1> DEFINE v == Clock!Saved(s)
  <1>1. v.now = s.now /\ v.sequence = s.sequence /\ v.timers = s.timers
        /\ v.failures = s.failures
    BY DEF Clock!Saved
  <1> HIDE DEF v
  <1>2. TableTyped(v) /\ TableSound(v)
    BY <1>1, SchedulerFacts DEF TableTyped, TableSound
  <1>3. \A i \in DOMAIN v.timers : v.timers[i].state # "Firing"
    BY <1>1, SchedulerFacts DEF FlightSound
  <1>4. SavedSound(v)
    BY <1>2, <1>3, SnapshotIsTable DEF SavedSound
  <1> QED BY <1>4 DEF v

\* A table restored from a valid snapshot is sound.
LEMMA RestoreSound ==
  ASSUME NEW v, SavedSound(v), NEW s, NEW c \in BOOLEAN,
         s = [now |-> s.now, sequence |-> s.sequence, timers |-> s.timers,
              pending |-> s.pending, failures |-> s.failures, closed |-> c,
              outstanding |-> None]
  PROVE  LET b == Clock!Restored(s, v)
         IN /\ SchedulerSound(b) /\ b.outstanding = None
            /\ Clock!ScheduledIds(b) = Clock!ScheduledIds(v)
  <1> DEFINE b == Clock!Restored(s, v)
             P == PendingOf(v)
  <1>1. b = [now |-> v.now, sequence |-> v.sequence, timers |-> v.timers, pending |-> P,
             failures |-> v.failures, closed |-> c, outstanding |-> None]
    <2>1. s.closed = c /\ s.outstanding = None
      OBVIOUS
    <2> QED BY <2>1 DEF Clock!Restored, PendingOf
  <1> HIDE DEF b
  <1>2. b.now = v.now /\ b.timers = v.timers /\ b.outstanding = None
    BY <1>1
  <1>3. Clock!ScheduledIds(b) = Clock!ScheduledIds(v) /\ PendingOf(b) = P
    BY <1>2 DEF Clock!ScheduledIds, PendingOf
  <1> HIDE DEF P
  <1>4. TableTyped(v) /\ TableSound(v) /\ \A i \in DOMAIN v.timers : v.timers[i].state # "Firing"
    BY SnapshotIsTable DEF SavedSound
  <1>5. FlightSound(b)
    BY <1>2, <1>4 DEF FlightSound
  <1>6. /\ v.now \in Nat /\ v.sequence \in Nat /\ v.timers \in [DOMAIN v.timers -> Timer]
        /\ DOMAIN v.timers \subseteq TimerIds /\ IsFiniteSet(DOMAIN v.timers)
        /\ v.failures \subseteq Token /\ None \in Token \cup {None}
        /\ \A i \in DOMAIN v.timers : TimerSound(v.timers[i], v.now)
        /\ Numbered(v.timers, v.sequence) /\ FailuresSound(v.failures, v.timers)
    BY <1>4 DEF TableTyped, TableSound
  <1>7. SchedulerSound(b)
    BY <1>1, <1>3, <1>5, <1>6, Assembled
  <1> QED BY <1>2, <1>3, <1>7 DEF b

\* The least member of a set of numbers.
LEMMA LeastNumber ==
  ASSUME NEW S, S \subseteq Nat, S # {}
  PROVE  \E n \in S : \A m \in S : n <= m
  <1>1. IsWellFoundedOn(OpToRel(<, Nat), Nat)
    BY NatLessThanWellFounded
  <1>2. PICK n \in S : \A m \in S : ~(<<m, n>> \in OpToRel(<, Nat))
    BY <1>1, WFMin
  <1>3. \A m \in S : ~(m < n)
    BY <1>2 DEF OpToRel
  <1> QED BY <1>3

\* The timer that fires is the first of those that are due.
LEMMA FirstDue ==
  ASSUME NEW D, D # {}, \A e \in D : e[1] \in Nat /\ e[2] \in Nat
  PROVE  Clock!First(D) \in D /\ \A e \in D : Clock!First(D)[1] <= e[1]
  <1>1. PICK n \in {e[1] : e \in D} : \A m \in {e[1] : e \in D} : n <= m
    <2>1. {e[1] : e \in D} \subseteq Nat /\ {e[1] : e \in D} # {}
      OBVIOUS
    <2> QED BY ONLY <2>1, LeastNumber
  <1> DEFINE E == {e \in D : e[1] = n}
  <1>2. PICK q \in {e[2] : e \in E} : \A m \in {e[2] : e \in E} : q <= m
    <2>1. {e[2] : e \in E} \subseteq Nat /\ {e[2] : e \in E} # {}
      BY <1>1
    <2> HIDE DEF E
    <2> QED BY ONLY <2>1, LeastNumber
  <1>3. PICK a \in D : a[1] = n /\ a[2] = q
    BY <1>2
  <1>4. \A e \in D : Clock!Earlier(a, e)
    <2> SUFFICES ASSUME NEW e \in D PROVE Clock!Earlier(a, e)
      OBVIOUS
    <2>1. n <= e[1] /\ n \in Nat /\ e[1] \in Nat
      BY <1>1
    <2>2. e[1] = n => q <= e[2]
      BY <1>2
    <2> QED BY <1>3, <2>1, <2>2 DEF Clock!Earlier
  <1>5. Clock!First(D) \in D /\ \A e \in D : Clock!Earlier(Clock!First(D), e)
    BY <1>4 DEF Clock!First
  <1> QED BY <1>5 DEF Clock!Earlier

LEMMA ClockInit == Clock!Init => ClockInvariant
  <1> SUFFICES ASSUME Clock!Init PROVE ClockInvariant
    OBVIOUS
  <1> DEFINE s == scheduler
  <1>1. /\ s = [now |-> 0, sequence |-> 0, timers |-> <<>>, pending |-> {}, failures |-> {},
                closed |-> FALSE, outstanding |-> None]
        /\ callbacks = {} /\ target = None /\ saved = None
    BY DEF Clock!Init, Clock!NewScheduler
  <1> HIDE DEF s
  <1>2. s.timers = <<>> /\ DOMAIN <<>> = {} /\ s.outstanding = None /\ s.now = 0
    BY <1>1
  <1>3. IsFiniteSet({}) /\ Cardinality({}) = 0
    BY FS_EmptySet
  <1>4. Clock!ScheduledIds(s) = {} /\ PendingOf(s) = {}
    BY <1>2 DEF Clock!ScheduledIds, PendingOf
  <1>5. /\ <<>> \in [DOMAIN <<>> -> Timer] /\ \A i \in DOMAIN <<>> : TimerSound(<<>>[i], 0)
    BY <1>2
  <1>6. Numbered(<<>>, 0) /\ FailuresSound({}, <<>>) /\ FlightSound(s)
    BY <1>2, <1>3 DEF Numbered, FailuresSound, FlightSound
  <1>7. SchedulerSound(s)
    <2>1. /\ 0 \in Nat /\ FALSE \in BOOLEAN /\ DOMAIN <<>> \subseteq TimerIds
          /\ IsFiniteSet(DOMAIN <<>>) /\ {} \subseteq Token /\ None \in Token \cup {None}
          /\ {} = PendingOf(s)
      BY <1>2, <1>3, <1>4
    <2> QED BY ONLY <1>1, <1>5, <1>6, <2>1, Assembled
  <1> QED BY <1>1, <1>2, <1>4, <1>7 DEF ClockInvariant, s

LEMMA ClockFires == ASSUME ClockInvariant, Clock!Fire PROVE ClockInvariant'
  <1> DEFINE s == scheduler
             e == Clock!First(Clock!Due)
  <1>0. /\ SchedulerSound(s) /\ callbacks = Clock!ScheduledIds(s) /\ target \in Nat
        /\ s.now <= target /\ s.outstanding = None
    BY DEF ClockInvariant, Clock!Fire, Clock!Dispatchable
  <1>1. /\ Clock!Due # {} /\ s' = Clock!Dispatched(s, e[3], e[1])
        /\ callbacks' = callbacks \ {e[3]} /\ target' = target /\ saved' = saved
    BY DEF Clock!Fire
  <1>2. s.pending = {Clock!Entry(i, s.timers[i]) : i \in Clock!ScheduledIds(s)}
    BY <1>0, SchedulerFacts DEF PendingOf
  <1>3. \A i \in Clock!ScheduledIds(s) :
          i \in DOMAIN s.timers /\ s.timers[i].deadline \in Nat /\ s.timers[i].sequence \in Nat
    BY <1>0, SchedulerFacts, TimerFields DEF Clock!ScheduledIds
  <1>4. \A d \in Clock!Due : d \in s.pending /\ d[1] <= target
    BY DEF Clock!Due
  <1>5. \A d \in Clock!Due : d[1] \in Nat /\ d[2] \in Nat
    BY <1>2, <1>3, <1>4 DEF Clock!Entry
  <1>6. e \in Clock!Due /\ \A d \in Clock!Due : e[1] <= d[1]
    BY <1>1, <1>5, FirstDue
  <1> HIDE DEF e
  <1>7. PICK id \in Clock!ScheduledIds(s) : e = Clock!Entry(id, s.timers[id])
    BY <1>2, <1>4, <1>6
  <1>8. e[1] = s.timers[id].deadline /\ e[3] = id /\ e[1] <= target /\ e[1] \in Nat
    BY <1>3, <1>4, <1>6, <1>7 DEF Clock!Entry
  <1>9. ASSUME NEW i \in Clock!ScheduledIds(s)
        PROVE  s.timers[id].deadline <= s.timers[i].deadline
    <2>1. Clock!Entry(i, s.timers[i]) \in s.pending /\ Clock!Entry(i, s.timers[i])[1] = s.timers[i].deadline
      BY <1>2 DEF Clock!Entry
    <2>2. CASE s.timers[i].deadline <= target
      <3>1. Clock!Entry(i, s.timers[i]) \in Clock!Due
        BY <2>1, <2>2 DEF Clock!Due
      <3> QED BY <1>6, <1>8, <2>1, <3>1
    <2>3. CASE ~(s.timers[i].deadline <= target)
      BY <1>0, <1>3, <1>8, <2>3
    <2> QED BY <2>2, <2>3
  <1>10. s' = Clock!Dispatched(s, id, s.timers[id].deadline)
    BY <1>1, <1>8
  <1>11. /\ SchedulerSound(s') /\ s'.now = s.timers[id].deadline /\ s'.outstanding # None
         /\ Clock!ScheduledIds(s') = Clock!ScheduledIds(s) \ {id}
    BY <1>0, <1>9, <1>10, DispatchSound
  <1>12. target # None
    BY <1>0, KernelAssumption
  <1> QED BY <1>0, <1>1, <1>8, <1>11, <1>12 DEF ClockInvariant

LEMMA ClockNext == ASSUME ClockInvariant, [Clock!Next]_clockVars PROVE ClockInvariant'
  <1> DEFINE s == scheduler
  <1>0. /\ SchedulerSound(s) /\ callbacks = Clock!ScheduledIds(s)
        /\ target \in Nat \cup {None} /\ (target = None => s.outstanding = None)
        /\ (target # None => s.now <= target) /\ (saved # None => SavedSound(saved))
        /\ s.now \in Nat
    BY SchedulerFacts DEF ClockInvariant
  <1>1. ASSUME NEW id \in TimerIds, NEW d \in 0..Horizon, NEW k \in Intervals \cup {Clock!OneShot},
               Clock!Schedule(id, d, k)
        PROVE  ClockInvariant'
    <2>1. d \in Nat /\ k \in Nat
      BY KernelAssumption DEF Clock!OneShot
    <2>2. /\ Clock!MayRegister(s, id, d) /\ s' = Clock!Registered(s, id, d, k)
          /\ callbacks' = callbacks \cup {id} /\ target' = target /\ saved' = saved
      BY <1>1 DEF Clock!Schedule
    <2>3. /\ SchedulerSound(s') /\ s'.now = s.now /\ s'.outstanding = s.outstanding
          /\ Clock!ScheduledIds(s') = Clock!ScheduledIds(s) \cup {id}
      BY <1>0, <2>1, <2>2, RegisterSound
    <2> QED BY <1>0, <2>2, <2>3 DEF ClockInvariant
  <1>2. ASSUME NEW id \in TimerIds, Clock!Cancel(id) PROVE ClockInvariant'
    <2>1. /\ Clock!MayCancel(s, id) /\ s' = Clock!CancelledTimer(s, id)
          /\ callbacks' = callbacks \ {id} /\ target' = target /\ saved' = saved
      BY <1>2 DEF Clock!Cancel
    <2>2. /\ SchedulerSound(s') /\ s'.now = s.now /\ s'.outstanding = s.outstanding
          /\ Clock!ScheduledIds(s') = Clock!ScheduledIds(s) \ {id}
      BY <1>0, <2>1, CancelSound
    <2> QED BY <1>0, <2>1, <2>2 DEF ClockInvariant
  <1>3. CASE Clock!Close
    <2>1. /\ s' = Clock!ClosedScheduler(s)
          /\ callbacks' = {} /\ target' = target /\ saved' = saved
      BY <1>3 DEF Clock!Close
    <2>2. /\ SchedulerSound(s') /\ s'.now = s.now /\ s'.outstanding = s.outstanding
          /\ Clock!ScheduledIds(s') = {}
      BY <1>0, <2>1, CloseSound
    <2> QED BY <1>0, <2>1, <2>2 DEF ClockInvariant
  <1>4. ASSUME NEW t \in 0..Horizon, Clock!AdvanceTo(t) PROVE ClockInvariant'
    <2>1. /\ target = None /\ t >= s.now /\ target' = t /\ s' = s /\ callbacks' = callbacks
          /\ saved' = saved /\ t \in Nat
      BY <1>4, KernelAssumption DEF Clock!AdvanceTo
    <2>2. t # None
      BY <2>1, KernelAssumption
    <2> QED BY <1>0, <2>1, <2>2 DEF ClockInvariant
  <1>5. CASE Clock!Fire
    BY <1>5, ClockFires
  <1>6. ASSUME NEW ok \in BOOLEAN, Clock!Complete(ok) PROVE ClockInvariant'
    <2> DEFINE id == s.outstanding.id
    <2>1. /\ s.outstanding # None /\ s' = Clock!Completed(s, ok)
          /\ callbacks' = IF Clock!Active(s'.timers[id]) THEN callbacks \cup {id} ELSE callbacks
          /\ target' = target /\ saved' = saved
      BY <1>6 DEF Clock!Complete
    <2>2. /\ SchedulerSound(s') /\ s'.now = s.now /\ s'.outstanding = None
          /\ Clock!ScheduledIds(s') = Clock!ScheduledIds(s)
                                        \cup (IF Clock!Active(s'.timers[id]) THEN {id} ELSE {})
      BY <1>0, <2>1, CompleteSound
    <2>3. callbacks' = Clock!ScheduledIds(s')
      BY <1>0, <2>1, <2>2
    <2> QED BY <1>0, <2>1, <2>2, <2>3 DEF ClockInvariant
  <1>7. CASE Clock!EndAdvance
    <2>1. /\ target # None /\ target \in Nat /\ s.outstanding = None
          /\ s.closed \/ Clock!Due = {}
          /\ s' = IF s.closed THEN s ELSE [s EXCEPT !.now = target]
          /\ target' = None /\ callbacks' = callbacks /\ saved' = saved
      BY <1>0, <1>7 DEF Clock!EndAdvance
    <2>2. CASE s.closed
      BY <1>0, <2>1, <2>2 DEF ClockInvariant
    <2>3. CASE ~s.closed
      <3>1. ASSUME NEW i \in Clock!ScheduledIds(s) PROVE target <= s.timers[i].deadline
        <4>1. /\ Clock!Entry(i, s.timers[i]) \in s.pending
              /\ Clock!Entry(i, s.timers[i])[1] = s.timers[i].deadline
          BY <1>0, SchedulerFacts DEF PendingOf, Clock!Entry
        <4>2. s.timers[i].deadline \in Nat
          BY <1>0, SchedulerFacts, TimerFields DEF Clock!ScheduledIds
        <4>3. ~(s.timers[i].deadline <= target)
          BY <2>1, <2>3, <4>1 DEF Clock!Due
        <4> QED BY <2>1, <4>2, <4>3
      <3>2. /\ SchedulerSound(s') /\ s'.outstanding = None
            /\ Clock!ScheduledIds(s') = Clock!ScheduledIds(s)
        BY <1>0, <2>1, <2>3, <3>1, AdvanceSound
      <3> QED BY <1>0, <2>1, <3>2 DEF ClockInvariant
    <2> QED BY <2>2, <2>3
  <1>8. CASE Clock!Snapshot
    <2>1. /\ target = None /\ s.outstanding = None /\ saved' = Clock!Saved(s)
          /\ s' = s /\ callbacks' = callbacks /\ target' = target
      BY <1>8 DEF Clock!Snapshot
    <2>2. SavedSound(saved')
      BY <1>0, <2>1, SavedIsValid
    <2> QED BY <1>0, <2>1, <2>2 DEF ClockInvariant
  <1>9. CASE Clock!Restore
    <2>1. /\ target = None /\ saved # None /\ s.outstanding = None
          /\ s' = Clock!Restored(s, saved) /\ callbacks' = Clock!ScheduledIds(saved)
          /\ target' = target /\ saved' = saved
      BY <1>9 DEF Clock!Restore, Clock!MayRestore, Clock!Dispatchable
    <2>2. /\ s.closed \in BOOLEAN
          /\ s = [now |-> s.now, sequence |-> s.sequence, timers |-> s.timers,
                  pending |-> s.pending, failures |-> s.failures, closed |-> s.closed,
                  outstanding |-> None]
      <3>1. s = [now |-> s.now, sequence |-> s.sequence, timers |-> s.timers,
                 pending |-> s.pending, failures |-> s.failures, closed |-> s.closed,
                 outstanding |-> s.outstanding]
        BY <1>0, SchedulerFacts
      <3>2. s.closed \in BOOLEAN
        BY <1>0, SchedulerFacts
      <3> QED BY <2>1, <3>1, <3>2
    <2>3. /\ SchedulerSound(s') /\ s'.outstanding = None
          /\ Clock!ScheduledIds(s') = Clock!ScheduledIds(saved)
      BY <1>0, <2>1, <2>2, RestoreSound
    <2> QED BY <1>0, <2>1, <2>3 DEF ClockInvariant
  <1>10. CASE Clock!RestoreFresh
    <2> DEFINE z == Clock!NewScheduler(0)
    <2>1. /\ saved # None /\ s' = Clock!Restored(z, saved)
          /\ callbacks' = Clock!ScheduledIds(saved) /\ target' = None /\ saved' = saved
      BY <1>10 DEF Clock!RestoreFresh
    <2>2. z = [now |-> z.now, sequence |-> z.sequence, timers |-> z.timers,
               pending |-> z.pending, failures |-> z.failures, closed |-> FALSE,
               outstanding |-> None]
      BY DEF Clock!NewScheduler
    <2> HIDE DEF z
    <2>3. /\ SchedulerSound(s') /\ s'.outstanding = None
          /\ Clock!ScheduledIds(s') = Clock!ScheduledIds(saved)
      BY <1>0, <2>1, <2>2, RestoreSound
    <2> QED BY <1>0, <2>1, <2>3 DEF ClockInvariant
  <1>11. CASE UNCHANGED clockVars
    BY <1>11 DEF ClockInvariant, clockVars
  <1> QED BY <1>1, <1>2, <1>3, <1>4, <1>5, <1>6, <1>7, <1>8, <1>9, <1>10, <1>11 DEF Clock!Next

-----------------------------------------------------------------------------
(* The virtual clock: theorems *)

LEMMA ClockRestorable == ClockInvariant => SavedIsRestorable
  <1> SUFFICES ASSUME ClockInvariant, target = None PROVE Clock!SavedIsRestorable
    BY DEF SavedIsRestorable, Clock!SavedIsRestorable
  <1> DEFINE s == scheduler
             v == Clock!Saved(s)
  <1>1. SchedulerSound(s) /\ s.outstanding = None /\ callbacks = Clock!ScheduledIds(s)
    BY DEF ClockInvariant
  <1>2. Clock!ValidSnapshot(v)
    BY <1>1, SavedIsValid DEF SavedSound
  <1>3. v.timers = s.timers
    BY DEF Clock!Saved
  <1>4. Clock!Restored(s, v).pending = PendingOf(v)
    BY DEF Clock!Restored, PendingOf
  <1>5. PendingOf(v) = PendingOf(s)
    BY <1>3 DEF PendingOf, Clock!ScheduledIds
  <1>6. s.pending = PendingOf(s)
    BY <1>1, SchedulerFacts
  <1> HIDE DEF v
  <1> QED BY <1>1, <1>2, <1>4, <1>5, <1>6 DEF Clock!SavedIsRestorable, s, v

\* A step of the Runtime's parts is a step of the clock or leaves it alone.
LEMMA ClockMoves == [KernelNext]_kernelVars => [Clock!Next]_clockVars
  BY DEF KernelNext, kernelVars, Others

\* Whatever callbacks schedule, cancel or close while timers fire, and wherever
\* the clock is saved and restored, the table keeps its accounting: registrations
\* are numbered without a gap, a timer's deadline and state agree with how often
\* it fired, a failure is the last fire of its timer, at most the timer that is
\* dispatched is firing, and the pending set and the callback map hold exactly the
\* scheduled timers (src/crates/clock/src/scheduler.rs, virtual_clock.rs).
THEOREM ClockSound == KernelSpec => []ClockInvariant
  <1>1. KernelInit => ClockInvariant
    BY ClockInit DEF KernelInit
  <1>2. ClockInvariant /\ [KernelNext]_kernelVars => ClockInvariant'
    BY ClockMoves, ClockNext
  <1> QED BY <1>1, <1>2, PTL DEF KernelSpec

\* Between two advances the clock can always be saved, the snapshot passes its
\* own validation, and a clock restored from it waits for the same timers with
\* the same callbacks (src/crates/clock/src/snapshot.rs, validate).
THEOREM SnapshotsRestore == KernelSpec => []SavedIsRestorable
  BY ClockSound, ClockRestorable, PTL

-----------------------------------------------------------------------------
(* The event bus: the inductive invariant *)

BusTyped ==
  /\ queue \in Seq(QueuedEvent)
  /\ handlers \in [DOMAIN handlers -> Handler] /\ DOMAIN handlers \subseteq usedIds
  /\ usedIds \subseteq Ids /\ IsFiniteSet(usedIds)
  /\ dispatch \in Delivery \cup {None}
  /\ driver \in {"one", "drain", "close", None}
  /\ dropped \in BOOLEAN
  /\ diag.dispatches \in Nat /\ diag.replacements \in Nat /\ diag.abandoned \in Nat
  /\ diag = [dispatches |-> diag.dispatches, replacements |-> diag.replacements,
             abandoned |-> diag.abandoned]
  /\ accepted \in Nat
  /\ inbox \in [Ids -> Seq(Nat)]

\* Who is on the stack, and what a closed bus has left.
BusPhases ==
  /\ driver = None => dispatch = None
  /\ dropped => driver = None
  /\ ~dropped => diag.abandoned = 0
  /\ phase = "Closed" => queue = <<>> /\ dispatch = None /\ diag.abandoned = 0

\* The numbers of queued events, with n the last number given.
QueueOrdered(q, n) ==
  /\ \A k \in DOMAIN q : q[k].no <= n
  /\ \A j, k \in DOMAIN q : j < k => q[j].no < q[k].no

\* A number given before those of all queued events.
Behind(n, q, a) == n <= a /\ \A k \in DOMAIN q : n < q[k].no

Todo == IF dispatch = None THEN {} ELSE DOMAIN dispatch.todo

\* Whatever was handed to a subscription came before what is still queued, and
\* before what it is about to be handed.
BusNumbers ==
  /\ QueueOrdered(queue, accepted)
  /\ \A i \in Ids : \A k \in DOMAIN inbox[i] : Behind(inbox[i][k], queue, accepted)
  /\ dispatch # None => Behind(dispatch.event.no, queue, accepted)
  /\ \A i \in Todo : \A k \in DOMAIN inbox[i] : inbox[i][k] < dispatch.event.no
  /\ \A i \in Ids : \A m, n \in DOMAIN inbox[i] : m < n => inbox[i][m] < inbox[i][n]

\* The inbox of a subscription at the end of the dispatch under way.
Expected(i) == IF i \in Todo THEN Append(inbox[i], dispatch.event.no) ELSE inbox[i]

Ends(s, t) ==
  /\ Len(s) <= Len(t)
  /\ \A k \in 1..Len(s) : s[k] = t[k + (Len(t) - Len(s))]

\* Of two subscriptions to a type the older sees all that the younger one does.
BusSubscriptions ==
  /\ Todo \subseteq usedIds
  /\ \A i \in Ids \ usedIds : inbox[i] = <<>>
  /\ \A i \in DOMAIN handlers : handlers[i].sequence <= Cardinality(usedIds)
  /\ \A i, j \in DOMAIN handlers :
       handlers[i].type = handlers[j].type /\ handlers[i].sequence < handlers[j].sequence
         => Ends(Expected(j), Expected(i))

BusCount ==
  accepted = diag.dispatches + diag.replacements + diag.abandoned + Len(queue)
               + (IF dispatch = None THEN 0 ELSE 1)

BusInvariant == BusTyped /\ BusPhases /\ BusNumbers /\ BusSubscriptions /\ BusCount

-----------------------------------------------------------------------------
(* The event bus: sequences *)

LEMMA SuffixEnds ==
  ASSUME NEW s \in Seq(Nat), NEW t \in Seq(Nat), Ends(s, t)
  PROVE  Bus!IsSuffix(s, t)
  <1> DEFINE r == Bus!Reverse(s)
             u == Bus!Reverse(t)
  <1>1. /\ r \in Seq(Nat) /\ Len(r) = Len(s) /\ \A k \in 1..Len(s) : r[k] = s[(Len(s) - k) + 1]
        /\ u \in Seq(Nat) /\ Len(u) = Len(t) /\ \A k \in 1..Len(t) : u[k] = t[(Len(t) - k) + 1]
    BY DEF Bus!Reverse
  <1> HIDE DEF r, u
  <1>2. Len(s) \in Nat /\ Len(t) \in Nat /\ Len(s) <= Len(t)
    BY DEF Ends
  <1>3. ASSUME NEW k \in 1..Len(s) PROVE r[k] = u[k]
    <2>1. (Len(s) - k) + 1 \in 1..Len(s) /\ k \in 1..Len(t)
      BY <1>2
    <2>2. s[(Len(s) - k) + 1] = t[((Len(s) - k) + 1) + (Len(t) - Len(s))]
      BY <2>1 DEF Ends
    <2>3. ((Len(s) - k) + 1) + (Len(t) - Len(s)) = (Len(t) - k) + 1
      BY <1>2
    <2> QED BY <1>1, <2>1, <2>2, <2>3
  <1>4. SubSeq(r, 1, Len(r)) = SubSeq(u, 1, Len(r))
    <2> DEFINE x == SubSeq(r, 1, Len(r))
               y == SubSeq(u, 1, Len(r))
    <2>0. \A k \in 1..Len(r) : r[k] \in Nat /\ u[k] \in Nat
      <3>1. \A k \in 1..Len(r) : k \in 1..Len(u)
        BY <1>1, <1>2
      <3> QED BY <1>1, <3>1, ElementOfSeq
    <2>1. x \in Seq(Nat) /\ Len(x) = Len(s) /\ \A k \in 1..Len(s) : x[k] = r[k]
      <3>1. /\ x \in Seq(Nat) /\ Len(x) = IF 1 <= Len(r) THEN Len(r) - 1 + 1 ELSE 0
            /\ \A k \in 1 .. Len(r) - 1 + 1 : x[k] = r[1 + k - 1]
        BY <1>1, <1>2, <2>0, SubSeqProperties
      <3> QED BY <1>1, <1>2, <3>1
    <2>2. y \in Seq(Nat) /\ Len(y) = Len(s) /\ \A k \in 1..Len(s) : y[k] = u[k]
      <3>1. /\ y \in Seq(Nat) /\ Len(y) = IF 1 <= Len(r) THEN Len(r) - 1 + 1 ELSE 0
            /\ \A k \in 1 .. Len(r) - 1 + 1 : y[k] = u[1 + k - 1]
        BY <1>1, <1>2, <2>0, SubSeqProperties
      <3> QED BY <1>1, <1>2, <3>1
    <2> HIDE DEF x, y
    <2>3. \A k \in 1..Len(s) : x[k] = y[k]
      BY <1>3, <2>1, <2>2
    <2>4. x = y
      BY <2>1, <2>2, <2>3, SeqEqual
    <2> QED BY <2>4 DEF x, y
  <1>5. Bus!IsPrefix(r, u)
    BY <1>1, <1>2, <1>4 DEF Bus!IsPrefix
  <1> QED BY <1>5 DEF Bus!IsSuffix, r, u

LEMMA Appended ==
  ASSUME NEW S, NEW s \in Seq(S), NEW n \in S
  PROVE  /\ Append(s, n) \in Seq(S) /\ Len(Append(s, n)) = Len(s) + 1
         /\ \A k \in 1..Len(s) : Append(s, n)[k] = s[k]
         /\ Append(s, n)[Len(s) + 1] = n
  OBVIOUS

LEMMA EndsAppend ==
  ASSUME NEW s \in Seq(Nat), NEW t \in Seq(Nat), NEW n \in Nat, Ends(s, t)
  PROVE  Ends(Append(s, n), Append(t, n))
  <1> DEFINE x == Append(s, n)
             y == Append(t, n)
             d == Len(t) - Len(s)
  <1>1. Len(s) \in Nat /\ Len(t) \in Nat /\ Len(s) <= Len(t)
        /\ \A k \in 1..Len(s) : s[k] = t[k + d]
    BY DEF Ends
  <1>2. /\ Len(x) = Len(s) + 1 /\ \A k \in 1..Len(s) : x[k] = s[k]
        /\ Len(y) = Len(t) + 1 /\ \A k \in 1..Len(t) : y[k] = t[k]
        /\ x[Len(s) + 1] = n /\ y[Len(t) + 1] = n
    BY Appended
  <1>3. d \in Nat /\ Len(t) = Len(s) + d /\ (Len(t) + 1) - (Len(s) + 1) = d
    BY <1>1
  <1> HIDE DEF x, y, d
  <1>4. \A k \in 1..Len(s) : k + d \in 1..Len(t)
    BY <1>1, <1>3
  <1>5. \A k \in 1..Len(s) : x[k] = y[k + d]
    BY <1>1, <1>2, <1>4
  <1>6. x[Len(s) + 1] = y[(Len(s) + 1) + d]
    <2>1. (Len(s) + 1) + d = Len(t) + 1
      BY <1>1, <1>3
    <2> QED BY <1>2, <2>1
  <1>7. \A k \in 1..(Len(s) + 1) : k \in 1..Len(s) \/ k = Len(s) + 1
    BY <1>1
  <1>8. \A k \in 1..(Len(s) + 1) : x[k] = y[k + d]
    BY <1>5, <1>6, <1>7
  <1>9. Ends(x, y)
    BY <1>1, <1>2, <1>3, <1>8 DEF Ends
  <1> QED BY <1>9 DEF x, y

LEMMA RemoveAtFacts ==
  ASSUME NEW S, NEW q \in Seq(S), NEW v \in 1..Len(q)
  PROVE  /\ Bus!RemoveAt(q, v) \in Seq(S) /\ Len(Bus!RemoveAt(q, v)) = Len(q) - 1
         /\ \A k \in 1..(Len(q) - 1) : Bus!RemoveAt(q, v)[k] = q[IF k < v THEN k ELSE k + 1]
  <1> DEFINE a == SubSeq(q, 1, v - 1)
             b == SubSeq(q, v + 1, Len(q))
  <1>1. /\ a \in Seq(S) /\ Len(a) = v - 1 /\ \A k \in 1..(v - 1) : a[k] = q[k]
    OBVIOUS
  <1>2. /\ b \in Seq(S) /\ Len(b) = Len(q) - v /\ \A k \in 1..(Len(q) - v) : b[k] = q[v + k]
    OBVIOUS
  <1>3. Bus!RemoveAt(q, v) = a \o b
    BY DEF Bus!RemoveAt
  <1> HIDE DEF a, b
  <1>4. a \o b \in Seq(S) /\ Len(a \o b) = Len(q) - 1
    BY <1>1, <1>2
  <1>5. ASSUME NEW k \in 1..(Len(q) - 1) PROVE (a \o b)[k] = q[IF k < v THEN k ELSE k + 1]
    <2>1. CASE k < v
      BY <1>1, <1>2, <2>1
    <2>2. CASE ~(k < v)
      <3>1. (a \o b)[k] = b[k - (v - 1)]
        BY <1>1, <1>2, <2>2
      <3>2. k - (v - 1) \in 1..(Len(q) - v) /\ v + (k - (v - 1)) = k + 1
        BY <2>2
      <3> QED BY <1>2, <2>2, <3>1, <3>2
    <2> QED BY <2>1, <2>2
  <1> QED BY <1>3, <1>4, <1>5

-----------------------------------------------------------------------------
(* The event bus: publication *)

\* A full queue has an event to give up whenever one is less urgent.
LEMMA VictimIn ==
  ASSUME NEW q \in Seq(QueuedEvent), NEW e, Bus!Victims(q, e) # {}
  PROVE  Bus!Victim(q, e) \in 1..Len(q)
  <1> DEFINE V == Bus!Victims(q, e)
             R == {q[i].priority : i \in V}
  <1>1. V \subseteq 1..Len(q)
    BY DEF Bus!Victims
  <1>2. \A i \in 1..Len(q) : q[i].priority \in Nat
    <2>1. \A i \in 1..Len(q) : q[i] \in QueuedEvent
      BY ElementOfSeq
    <2> QED BY <2>1, KernelAssumption DEF QueuedEvent
  <1> HIDE DEF V
  <1>3. R \subseteq Nat /\ R # {}
    <2>1. V # {}
      BY DEF V
    <2> QED BY <1>1, <1>2, <2>1
  <1>4. PICK p \in R : \A x \in R : p <= x
    <2> HIDE DEF R
    <2> QED BY ONLY <1>3, LeastNumber
  <1> DEFINE W == {i \in V : q[i].priority = p}
  <1>5. W \subseteq Nat /\ W # {}
    <2>1. PICK i \in V : p = q[i].priority
      OBVIOUS
    <2>2. i \in W
      BY <2>1
    <2>3. \A j \in 1..Len(q) : j \in Nat
      OBVIOUS
    <2>4. W \subseteq V
      OBVIOUS
    <2> HIDE DEF W
    <2> QED BY ONLY <1>1, <2>2, <2>3, <2>4
  <1>6. PICK m \in W : \A x \in W : m <= x
    <2> HIDE DEF W, R
    <2> QED BY ONLY <1>5, LeastNumber
  <1>7. ASSUME NEW j \in V
        PROVE  q[m].priority < q[j].priority \/ (q[m].priority = q[j].priority /\ m <= j)
    <2>1. p <= q[j].priority /\ q[j].priority \in Nat /\ p \in Nat /\ q[m].priority = p
      BY <1>1, <1>2, <1>3, <1>4, <1>6
    <2>2. q[j].priority = p => m <= j
      BY <1>6
    <2> QED BY <2>1, <2>2
  <1>8. Bus!Victim(q, e) \in V
    BY <1>6, <1>7 DEF Bus!Victim, V
  <1> QED BY <1>1, <1>8

\* A batch under way: what it accepted is queued behind what was there, or has
\* replaced something, and the numbers follow each other.
BatchSound(b) ==
  /\ b.queue \in Seq(QueuedEvent) /\ b.accepted \in Nat /\ b.replaced \in Nat
  /\ b.accepted + Len(queue) = accepted + b.replaced + Len(b.queue)
  /\ accepted <= b.accepted
  /\ QueueOrdered(b.queue, b.accepted)
  /\ \A k \in DOMAIN b.queue :
       b.queue[k].no > accepted \/ \E j \in DOMAIN queue : b.queue[k].no = queue[j].no
  /\ phase # "Running" => b.queue = queue /\ b.accepted = accepted /\ b.replaced = 0

BatchShape(b) ==
  b = [queue |-> b.queue, accepted |-> b.accepted, replaced |-> b.replaced, open |-> b.open]

LEMMA OrderedAppend ==
  ASSUME NEW q \in Seq(QueuedEvent), NEW n \in Nat, QueueOrdered(q, n),
         NEW x \in QueuedEvent, x.no = n + 1
  PROVE  QueueOrdered(Append(q, x), n + 1)
  <1> DEFINE r == Append(q, x)
  <1>1. /\ r \in Seq(QueuedEvent) /\ Len(r) = Len(q) + 1 /\ Len(q) \in Nat
        /\ \A k \in 1..Len(q) : r[k] = q[k]
        /\ r[Len(q) + 1] = x
    BY Appended
  <1> HIDE DEF r
  <1>2. DOMAIN r = 1..(Len(q) + 1) /\ DOMAIN q = 1..Len(q)
    BY <1>1
  <1>3. \A k \in DOMAIN r : k \in DOMAIN q \/ k = Len(q) + 1
    BY <1>1, <1>2
  <1>4. \A k \in DOMAIN q : r[k].no \in Nat /\ r[k].no = q[k].no /\ r[k].no <= n
    <2>1. \A k \in DOMAIN q : q[k] \in QueuedEvent
      BY <1>2, ElementOfSeq
    <2> QED BY <1>1, <1>2, <2>1 DEF QueueOrdered, QueuedEvent
  <1>5. \A k \in DOMAIN r : r[k].no <= n + 1
    BY <1>1, <1>3, <1>4
  <1>6. ASSUME NEW j \in DOMAIN r, NEW k \in DOMAIN r, j < k PROVE r[j].no < r[k].no
    <2>1. j \in DOMAIN q
      BY <1>1, <1>2, <1>3, <1>6
    <2>2. CASE k \in DOMAIN q
      BY <1>4, <1>6, <2>1, <2>2 DEF QueueOrdered
    <2>3. CASE k = Len(q) + 1
      BY <1>1, <1>4, <2>1, <2>3
    <2> QED BY <1>3, <2>2, <2>3
  <1>7. QueueOrdered(r, n + 1)
    BY <1>5, <1>6 DEF QueueOrdered
  <1> QED BY <1>7 DEF r

LEMMA OrderedRemove ==
  ASSUME NEW q \in Seq(QueuedEvent), NEW n \in Nat, QueueOrdered(q, n), NEW v \in 1..Len(q)
  PROVE  /\ QueueOrdered(Bus!RemoveAt(q, v), n)
         /\ \A k \in DOMAIN Bus!RemoveAt(q, v) :
              \E j \in DOMAIN q : Bus!RemoveAt(q, v)[k] = q[j]
  <1> DEFINE r == Bus!RemoveAt(q, v)
             at(k) == IF k < v THEN k ELSE k + 1
  <1>1. /\ r \in Seq(QueuedEvent) /\ Len(r) = Len(q) - 1 /\ Len(q) \in Nat
        /\ \A k \in 1..(Len(q) - 1) : r[k] = q[at(k)]
    BY RemoveAtFacts
  <1>2. DOMAIN r = 1..(Len(q) - 1) /\ DOMAIN q = 1..Len(q)
    BY <1>1
  <1>3. \A k \in 1..(Len(q) - 1) : at(k) \in 1..Len(q)
    BY <1>1
  <1>4. \A j, k \in 1..(Len(q) - 1) : j < k => at(j) < at(k)
    BY <1>1
  <1> HIDE DEF r, at
  <1>5. QueueOrdered(r, n)
    BY <1>1, <1>2, <1>3, <1>4 DEF QueueOrdered
  <1>6. \A k \in DOMAIN r : \E j \in DOMAIN q : r[k] = q[j]
    BY <1>1, <1>2, <1>3
  <1> QED BY <1>5, <1>6 DEF r

\* One enqueue keeps the batch sound.
LEMMA EnqueueSound ==
  ASSUME BusTyped, NEW b, BatchShape(b), BatchSound(b), NEW e \in Bus!Event
  PROVE  BatchShape(Bus!Enqueue(b, e)) /\ BatchSound(Bus!Enqueue(b, e))
  <1> DEFINE n == Bus!Enqueue(b, e)
             x == Bus!Numbered(e, b.accepted + 1)
             v == Bus!Victim(b.queue, e)
             q == Bus!RemoveAt(b.queue, v)
  <1>0. /\ b.queue \in Seq(QueuedEvent) /\ b.accepted \in Nat /\ b.replaced \in Nat
        /\ QueueOrdered(b.queue, b.accepted) /\ accepted <= b.accepted
        /\ accepted \in Nat /\ Len(queue) \in Nat /\ Len(b.queue) \in Nat
        /\ b.accepted + Len(queue) = accepted + b.replaced + Len(b.queue)
        /\ \A k \in DOMAIN b.queue :
             b.queue[k].no > accepted \/ \E j \in DOMAIN queue : b.queue[k].no = queue[j].no
    BY DEF BatchSound, BusTyped
  <1>1. x \in QueuedEvent /\ x.no = b.accepted + 1
    BY <1>0 DEF Bus!Numbered, QueuedEvent, Bus!Event
  <1>2. b = [queue |-> b.queue, accepted |-> b.accepted, replaced |-> b.replaced, open |-> b.open]
    BY DEF BatchShape
  <1>6. /\ b.accepted \in Nat /\ b.replaced \in Nat /\ accepted <= b.accepted
        /\ accepted \in Nat /\ Len(queue) \in Nat /\ Len(b.queue) \in Nat
        /\ b.accepted + Len(queue) = accepted + b.replaced + Len(b.queue)
    BY <1>0
  <1>3. CASE n = [b EXCEPT !.open = FALSE]
    <2>1. n = [queue |-> b.queue, accepted |-> b.accepted, replaced |-> b.replaced,
               open |-> FALSE]
      <3> HIDE DEF n
      <3> QED BY ONLY <1>2, <1>3
    <2> HIDE DEF n
    <2>2. BatchShape(n) /\ BatchSound(n)
      BY <2>1 DEF BatchShape, BatchSound
    <2> QED BY <2>2 DEF n
  <1>4. CASE /\ phase = "Running"
             /\ n = [b EXCEPT !.queue = Append(@, x), !.accepted = @ + 1]
    <2> DEFINE r == Append(b.queue, x)
               a == b.accepted + 1
    <2>1. n = [queue |-> r, accepted |-> a, replaced |-> b.replaced, open |-> b.open]
      <3>1. n = [b EXCEPT !.queue = r, !.accepted = a]
        BY <1>4
      <3> HIDE DEF n, r, a, x
      <3> QED BY ONLY <1>2, <3>1
    <2>2. QueueOrdered(r, a)
      BY <1>0, <1>1, OrderedAppend
    <2>3. /\ r \in Seq(QueuedEvent) /\ Len(r) = Len(b.queue) + 1
          /\ \A k \in 1..Len(b.queue) : r[k] = b.queue[k]
          /\ r[Len(b.queue) + 1] = x
      BY <1>0, <1>1, Appended
    <2> HIDE DEF n, r, x
    <2>4. ASSUME NEW k \in DOMAIN r
          PROVE  r[k].no > accepted \/ \E j \in DOMAIN queue : r[k].no = queue[j].no
      <3>1. k \in DOMAIN b.queue \/ k = Len(b.queue) + 1
        BY <1>0, <2>3
      <3>2. CASE k \in DOMAIN b.queue
        BY <1>0, <2>3, <3>2
      <3>3. CASE k = Len(b.queue) + 1
        BY <1>0, <1>1, <2>3, <3>3
      <3> QED BY <3>1, <3>2, <3>3
    <2>5. a \in Nat /\ accepted <= a /\ a + Len(queue) = accepted + b.replaced + Len(r)
      <3>1. Len(r) = Len(b.queue) + 1
        BY <2>3
      <3>2. /\ b.accepted + 1 \in Nat /\ accepted <= b.accepted + 1
            /\ (b.accepted + 1) + Len(queue) = accepted + b.replaced + (Len(b.queue) + 1)
        <4> DEFINE c == b.accepted
                   t == b.replaced
                   l == Len(queue)
                   m == Len(b.queue)
        <4>1. /\ c \in Nat /\ t \in Nat /\ l \in Nat /\ m \in Nat /\ accepted \in Nat
              /\ accepted <= c /\ c + l = accepted + t + m
          BY <1>6
        <4> HIDE DEF c, t, l, m
        <4>2. /\ c + 1 \in Nat /\ t + 1 \in Nat /\ accepted <= c + 1
              /\ (c + 1) + l = accepted + t + (m + 1)
          BY ONLY <4>1
        <4> QED BY ONLY <4>2 DEF c, t, l, m
      <3> QED BY ONLY <3>1, <3>2 DEF a
    <2> HIDE DEF a
    <2>6. /\ n.queue = r /\ n.accepted = a /\ n.replaced = b.replaced /\ BatchShape(n)
      BY ONLY <2>1 DEF BatchShape
    <2>7. BatchSound(n)
      <3>1. phase = "Running" /\ r \in Seq(QueuedEvent) /\ b.replaced \in Nat
        BY <1>0, <1>4, <2>3
      <3>2. \A k \in DOMAIN r :
              r[k].no > accepted \/ \E j \in DOMAIN queue : r[k].no = queue[j].no
        BY <2>4
      <3>3. n.queue \in Seq(QueuedEvent) /\ n.accepted \in Nat /\ n.replaced \in Nat
        BY ONLY <2>5, <2>6, <3>1
      <3>4. n.accepted + Len(queue) = accepted + n.replaced + Len(n.queue) /\ accepted <= n.accepted
        BY ONLY <2>5, <2>6
      <3>5. QueueOrdered(n.queue, n.accepted)
        BY ONLY <2>2, <2>6
      <3>6. \A k \in DOMAIN n.queue :
              n.queue[k].no > accepted \/ \E j \in DOMAIN queue : n.queue[k].no = queue[j].no
        BY ONLY <2>6, <3>2
      <3> QED BY ONLY <3>1, <3>3, <3>4, <3>5, <3>6 DEF BatchSound
    <2>8. BatchShape(n) /\ BatchSound(n)
      BY <2>6, <2>7
    <2> QED BY <2>8 DEF n
  <1>5. CASE /\ phase = "Running" /\ Bus!Victims(b.queue, e) # {}
             /\ n = [b EXCEPT !.queue = Append(Bus!RemoveAt(@, Bus!Victim(@, e)), x),
                              !.accepted = @ + 1, !.replaced = @ + 1]
    <2> DEFINE r == Append(q, x)
               a == b.accepted + 1
               p == b.replaced + 1
    <2>1. n = [queue |-> r, accepted |-> a, replaced |-> p, open |-> b.open]
      <3>1. n = [b EXCEPT !.queue = r, !.accepted = a, !.replaced = p]
        BY <1>5
      <3> HIDE DEF n, r, a, p
      <3> QED BY ONLY <1>2, <3>1
    <2>2. v \in 1..Len(b.queue)
      BY <1>0, <1>5, VictimIn
    <2> HIDE DEF v
    <2>3. /\ q \in Seq(QueuedEvent) /\ Len(q) = Len(b.queue) - 1
          /\ QueueOrdered(q, b.accepted)
          /\ \A k \in DOMAIN q : \E j \in DOMAIN b.queue : q[k] = b.queue[j]
      BY <1>0, <2>2, RemoveAtFacts, OrderedRemove
    <2> HIDE DEF q
    <2>4. QueueOrdered(r, a)
      BY <1>0, <1>1, <2>3, OrderedAppend
    <2>5. /\ r \in Seq(QueuedEvent) /\ Len(r) = Len(q) + 1
          /\ \A k \in 1..Len(q) : r[k] = q[k]
          /\ r[Len(q) + 1] = x
      BY <1>1, <2>3, Appended
    <2> HIDE DEF n, r, x
    <2>6. ASSUME NEW k \in DOMAIN r
          PROVE  r[k].no > accepted \/ \E j \in DOMAIN queue : r[k].no = queue[j].no
      <3>1. k \in DOMAIN q \/ k = Len(q) + 1
        BY <2>3, <2>5
      <3>2. CASE k \in DOMAIN q
        <4>1. PICK j \in DOMAIN b.queue : q[k] = b.queue[j]
          BY <2>3, <3>2
        <4>2. k \in 1..Len(q)
          BY <2>3, <3>2
        <4>3. r[k] = b.queue[j]
          BY <2>5, <4>1, <4>2
        <4> QED BY <1>0, <4>3
      <3>3. CASE k = Len(q) + 1
        BY <1>0, <1>1, <2>5, <3>3
      <3> QED BY <3>1, <3>2, <3>3
    <2>7. a \in Nat /\ p \in Nat /\ accepted <= a /\ a + Len(queue) = accepted + p + Len(r)
      <3>1. Len(r) = Len(b.queue)
        <4>1. Len(q) = Len(b.queue) - 1 /\ Len(r) = Len(q) + 1
          BY <2>3, <2>5
        <4> QED BY <1>6, <4>1
      <3>2. /\ b.accepted + 1 \in Nat /\ b.replaced + 1 \in Nat /\ accepted <= b.accepted + 1
            /\ (b.accepted + 1) + Len(queue) = accepted + (b.replaced + 1) + Len(b.queue)
        <4> DEFINE c == b.accepted
                   t == b.replaced
                   l == Len(queue)
                   m == Len(b.queue)
        <4>1. /\ c \in Nat /\ t \in Nat /\ l \in Nat /\ m \in Nat /\ accepted \in Nat
              /\ accepted <= c /\ c + l = accepted + t + m
          BY <1>6
        <4> HIDE DEF c, t, l, m
        <4>2. /\ c + 1 \in Nat /\ t + 1 \in Nat /\ accepted <= c + 1
              /\ (c + 1) + l = accepted + (t + 1) + m
          BY ONLY <4>1
        <4> QED BY ONLY <4>2 DEF c, t, l, m
      <3> QED BY ONLY <3>1, <3>2 DEF a, p
    <2> HIDE DEF a, p
    <2>8. /\ n.queue = r /\ n.accepted = a /\ n.replaced = p /\ BatchShape(n)
      BY ONLY <2>1 DEF BatchShape
    <2>9. BatchSound(n)
      <3>1. phase = "Running" /\ r \in Seq(QueuedEvent)
        BY <1>5, <2>5
      <3>2. \A k \in DOMAIN r :
              r[k].no > accepted \/ \E j \in DOMAIN queue : r[k].no = queue[j].no
        BY <2>6
      <3>3. n.queue \in Seq(QueuedEvent) /\ n.accepted \in Nat /\ n.replaced \in Nat
        BY ONLY <2>7, <2>8, <3>1
      <3>4. n.accepted + Len(queue) = accepted + n.replaced + Len(n.queue) /\ accepted <= n.accepted
        BY ONLY <2>7, <2>8
      <3>5. QueueOrdered(n.queue, n.accepted)
        BY ONLY <2>4, <2>8
      <3>6. \A k \in DOMAIN n.queue :
              n.queue[k].no > accepted \/ \E j \in DOMAIN queue : n.queue[k].no = queue[j].no
        BY ONLY <2>8, <3>2
      <3> QED BY ONLY <3>1, <3>3, <3>4, <3>5, <3>6 DEF BatchSound
    <2>10. BatchShape(n) /\ BatchSound(n)
      BY <2>8, <2>9
    <2> QED BY <2>10 DEF n
  <1> QED BY <1>3, <1>4, <1>5 DEF Bus!Enqueue

BatchStart == [queue |-> queue, accepted |-> accepted, replaced |-> 0, open |-> TRUE]

\* The batch after each of the first m events.
Batches(es, f, m) ==
  f = [n \in 0..m |-> IF n = 0 THEN BatchStart ELSE Bus!Enqueue(f[n - 1], es[n])]

LEMMA BatchesExist == ASSUME NEW es, NEW m \in Nat PROVE \E f : Batches(es, f, m)
  <1> DEFINE Bad == {k \in Nat : ~ \E f : Batches(es, f, k)}
  <1> SUFFICES ASSUME Bad # {} PROVE FALSE
    OBVIOUS
  <1>1. PICK k \in Bad : \A j \in Bad : k <= j
    <2>1. Bad \subseteq Nat
      OBVIOUS
    <2> HIDE DEF Bad
    <2> QED BY ONLY <2>1, Bad # {}, LeastNumber
  <1>2. k \in Nat /\ ~ \E f : Batches(es, f, k)
    OBVIOUS
  <1>3. CASE k = 0
    <2> DEFINE f == [n \in 0..0 |-> BatchStart]
    <2>1. f = [n \in 0..0 |-> IF n = 0 THEN BatchStart ELSE Bus!Enqueue(f[n - 1], es[n])]
      OBVIOUS
    <2> QED BY <1>2, <1>3, <2>1 DEF Batches
  <1>4. CASE k # 0
    <2>1. k - 1 \in Nat /\ k - 1 \notin Bad
      BY <1>1, <1>2, <1>4
    <2>2. PICK g : Batches(es, g, k - 1)
      BY <2>1
    <2> DEFINE f == [n \in 0..k |-> IF n = 0 THEN BatchStart ELSE Bus!Enqueue(g[n - 1], es[n])]
    <2>3. \A n \in 0..(k - 1) : f[n] = g[n]
      <3>1. \A n \in 0..(k - 1) : n \in 0..k
        BY <1>2
      <3> QED BY <2>2, <3>1 DEF Batches
    <2>4. \A n \in 0..k : n # 0 => f[n - 1] = g[n - 1]
      <3>1. \A n \in 0..k : n # 0 => n - 1 \in 0..(k - 1)
        BY <1>2
      <3> QED BY <2>3, <3>1
    <2>5. f = [n \in 0..k |-> IF n = 0 THEN BatchStart ELSE Bus!Enqueue(g[n - 1], es[n])]
      OBVIOUS
    <2> HIDE DEF f
    <2>6. Batches(es, f, k)
      BY <2>4, <2>5 DEF Batches
    <2> QED BY <1>2, <2>6
  <1> QED BY <1>3, <1>4

\* What publish_many leaves is sound.
LEMMA BatchedSound ==
  ASSUME BusInvariant, NEW es \in Seq(Bus!Event)
  PROVE  BatchSound(Bus!Batched(es))
  <1> DEFINE f == CHOOSE g : Batches(es, g, Len(es))
             Good(k) == BatchShape(f[k]) /\ BatchSound(f[k])
             Bad == {k \in 0..Len(es) : ~Good(k)}
  <1>0. Len(es) \in Nat
    OBVIOUS
  <1>1. Batches(es, f, Len(es))
    BY <1>0, BatchesExist
  <1>2. Bus!Batched(es) = f[Len(es)]
    BY DEF Bus!Batched, Batches, BatchStart
  <1> HIDE DEF f
  <1>3. f[0] = BatchStart
    BY <1>0, <1>1 DEF Batches
  <1>4. \A k \in 1..Len(es) : f[k] = Bus!Enqueue(f[k - 1], es[k])
    BY <1>0, <1>1 DEF Batches
  <1>5. Good(0)
    <2>1. queue \in Seq(QueuedEvent) /\ accepted \in Nat /\ QueueOrdered(queue, accepted)
      BY DEF BusInvariant, BusTyped, BusNumbers
    <2>2. Len(queue) \in Nat
      BY <2>1
    <2> QED BY <1>3, <2>1, <2>2 DEF BatchStart, BatchShape, BatchSound
  <1>6. Bad = {}
    <2> SUFFICES ASSUME Bad # {} PROVE FALSE
      OBVIOUS
    <2>1. PICK k \in Bad : \A j \in Bad : k <= j
      <3>1. Bad \subseteq Nat
        BY <1>0
      <3> HIDE DEF Bad
      <3> QED BY ONLY <3>1, Bad # {}, LeastNumber
    <2>2. k \in 0..Len(es) /\ ~Good(k) /\ k # 0
      BY <1>5, <2>1
    <2> HIDE DEF Good
    <2>3. k - 1 \in 0..Len(es) /\ Good(k - 1) /\ k \in 1..Len(es)
      BY <1>0, <2>1, <2>2
    <2>4. es[k] \in Bus!Event
      BY <2>3, ElementOfSeq
    <2>5. Good(k)
      BY <1>4, <2>3, <2>4, EnqueueSound DEF Good, BusInvariant
    <2> QED BY <2>2, <2>5
  <1>7. Good(Len(es))
    BY <1>0, <1>6
  <1> QED BY <1>2, <1>7

-----------------------------------------------------------------------------
(* The event bus: its steps *)

LEMMA BusCardinality == ASSUME NEW S PROVE Bus!Cardinality(S) = Cardinality(S)
  BY DEF Bus!Cardinality, Cardinality

LEMMA DeliveryFacts ==
  ASSUME BusTyped, dispatch # None
  PROVE  /\ dispatch \in Delivery /\ dispatch.event \in QueuedEvent /\ dispatch.event.no \in Nat
         /\ dispatch.todo \in [Todo -> Handler] /\ Todo \subseteq Ids
         /\ Todo = DOMAIN dispatch.todo
  <1>1. dispatch \in Delivery
    BY DEF BusTyped
  <1>2. dispatch.event \in QueuedEvent /\ dispatch.todo \in UNION {[S -> Handler] : S \in SUBSET Ids}
    BY <1>1 DEF Delivery
  <1>3. dispatch.event.no \in Nat
    BY <1>2 DEF QueuedEvent
  <1>4. Todo = DOMAIN dispatch.todo
    BY DEF Todo
  <1>5. dispatch.todo \in [DOMAIN dispatch.todo -> Handler] /\ DOMAIN dispatch.todo \subseteq Ids
    BY <1>2
  <1> QED BY <1>1, <1>2, <1>3, <1>4, <1>5

LEMMA ExpectedTyped ==
  ASSUME BusTyped, NEW i \in Ids
  PROVE  Expected(i) \in Seq(Nat) /\ inbox[i] \in Seq(Nat)
  <1>1. inbox[i] \in Seq(Nat)
    BY DEF BusTyped
  <1>2. CASE dispatch = None
    BY <1>1, <1>2 DEF Expected, Todo
  <1>3. CASE dispatch # None
    BY <1>1, <1>3, DeliveryFacts DEF Expected
  <1> QED BY <1>1, <1>2, <1>3

\* Some of the subscriptions that are live, none of them changed.
Fewer(h) ==
  /\ h \in [DOMAIN h -> Handler]
  /\ DOMAIN h \subseteq DOMAIN handlers
  /\ \A i \in DOMAIN h : h[i] = handlers[i]

LEMMA NoHandlers == Fewer(<<>>) /\ DOMAIN <<>> = {}
  <1>1. DOMAIN <<>> = {} /\ <<>> \in Seq(Handler)
    OBVIOUS
  <1>2. <<>> \in [DOMAIN <<>> -> Handler]
    BY <1>1
  <1> QED BY <1>1, <1>2 DEF Fewer

LEMMA SameHandlers == BusTyped => Fewer(handlers)
  BY DEF BusTyped, Fewer

\* Fewer subscriptions keep the promises made to those that stay.
LEMMA FewerHandlers ==
  ASSUME BusTyped, BusSubscriptions, Fewer(handlers'), UNCHANGED <<usedIds, inbox, dispatch>>
  PROVE  /\ BusSubscriptions'
         /\ handlers' \in [DOMAIN handlers' -> Handler] /\ DOMAIN handlers' \subseteq usedIds
  <1>1. /\ handlers' \in [DOMAIN handlers' -> Handler] /\ DOMAIN handlers' \subseteq DOMAIN handlers
        /\ \A i \in DOMAIN handlers' : handlers'[i] = handlers[i]
    BY DEF Fewer
  <1>2. Todo' = Todo /\ \A i : Expected(i)' = Expected(i)
    BY DEF Expected, Todo
  <1>3. DOMAIN handlers' \subseteq usedIds
    BY <1>1 DEF BusTyped
  <1>4. BusSubscriptions'
    BY <1>1, <1>2 DEF BusSubscriptions
  <1> QED BY <1>1, <1>3, <1>4

\* A step that only moves the stack, the phase or ends subscriptions.
LEMMA StackMoves ==
  ASSUME BusInvariant, Fewer(handlers'), driver' \in {"one", "drain", "close", None},
         UNCHANGED <<queue, usedIds, dispatch, dropped, diag, accepted, inbox>>,
         BusPhases'
  PROVE  BusInvariant'
  <1>1. BusTyped' /\ BusSubscriptions'
    <2>1. /\ BusSubscriptions'
          /\ handlers' \in [DOMAIN handlers' -> Handler] /\ DOMAIN handlers' \subseteq usedIds
      BY FewerHandlers DEF BusInvariant
    <2> QED BY <2>1 DEF BusInvariant, BusTyped
  <1>2. Todo' = Todo
    BY DEF Todo
  <1>3. BusNumbers'
    BY <1>2 DEF BusInvariant, BusNumbers, QueueOrdered, Behind
  <1>4. BusCount'
    BY DEF BusInvariant, BusCount
  <1> QED BY <1>1, <1>3, <1>4 DEF BusInvariant

LEMMA BusUnsubscribes ==
  ASSUME BusInvariant, NEW id, Bus!Unsubscribe(id) PROVE BusInvariant'
  <1>1. Fewer(handlers')
    BY DEF Bus!Unsubscribe, Bus!Without, Fewer, BusInvariant, BusTyped
  <1>2. BusPhases' /\ driver' \in {"one", "drain", "close", None}
    BY DEF Bus!Unsubscribe, BusInvariant, BusPhases, BusTyped
  <1> QED BY <1>1, <1>2, StackMoves DEF Bus!Unsubscribe

LEMMA BusEndsDrain == ASSUME BusInvariant, Bus!EndDrain PROVE BusInvariant'
  <1>1. Fewer(handlers')
    BY SameHandlers DEF Bus!EndDrain, BusInvariant
  <1>2. BusPhases' /\ driver' \in {"one", "drain", "close", None}
    BY DEF Bus!EndDrain, BusInvariant, BusPhases
  <1> QED BY <1>1, <1>2, StackMoves DEF Bus!EndDrain

LEMMA BusClosing ==
  ASSUME BusInvariant, Bus!RequestClose \/ Bus!Close PROVE BusInvariant'
  <1>1. Fewer(handlers')
    BY SameHandlers DEF Bus!RequestClose, Bus!Close, BusInvariant
  <1>2. CASE Bus!RequestClose
    <2>1. BusPhases' /\ driver' \in {"one", "drain", "close", None}
      BY <1>2 DEF Bus!RequestClose, BusInvariant, BusPhases, BusTyped
    <2> QED BY <1>1, <1>2, <2>1, StackMoves DEF Bus!RequestClose
  <1>3. CASE Bus!Close
    <2>1. driver' = "close" /\ ~dropped
      BY <1>3 DEF Bus!Close, Bus!OwnerFree
    <2>2. BusPhases'
      BY <1>3, <2>1, KernelAssumption DEF Bus!Close, BusInvariant, BusPhases, KernelAssumption
    <2> QED BY <1>1, <1>3, <2>1, <2>2, StackMoves DEF Bus!Close
  <1> QED BY <1>2, <1>3

LEMMA BusEndsClose == ASSUME BusInvariant, Bus!EndClose PROVE BusInvariant'
  <1>1. Fewer(handlers')
    BY SameHandlers, NoHandlers DEF Bus!EndClose, BusInvariant
  <1>2. driver # None
    BY KernelAssumption DEF Bus!EndClose, KernelAssumption
  <1>3. BusPhases'
    BY <1>2 DEF Bus!EndClose, Bus!Finished, BusInvariant, BusPhases
  <1> QED BY <1>1, <1>3, StackMoves DEF Bus!EndClose

\* A sound batch becomes the queue.
LEMMA BatchBooked ==
  ASSUME BusInvariant, NEW b, BatchSound(b), queue' = b.queue, accepted' = b.accepted,
         diag' = [dispatches |-> diag.dispatches, replacements |-> diag.replacements + b.replaced,
                  abandoned |-> diag.abandoned],
         UNCHANGED <<handlers, usedIds, phase, dispatch, driver, dropped, inbox>>
  PROVE  BusInvariant'
  <1>1. /\ b.queue \in Seq(QueuedEvent) /\ b.accepted \in Nat /\ b.replaced \in Nat
        /\ accepted <= b.accepted /\ accepted \in Nat
    BY DEF BatchSound, BusInvariant, BusTyped
  <1>2. /\ diag'.dispatches = diag.dispatches /\ diag'.abandoned = diag.abandoned
        /\ diag'.replacements = diag.replacements + b.replaced
    OBVIOUS
  <1>3. diag.dispatches \in Nat /\ diag.replacements \in Nat /\ diag.abandoned \in Nat
    BY DEF BusInvariant, BusTyped
  <1>4. BusTyped'
    <2>1. /\ diag'.dispatches \in Nat /\ diag'.replacements \in Nat /\ diag'.abandoned \in Nat
          /\ diag' = [dispatches |-> diag'.dispatches, replacements |-> diag'.replacements,
                      abandoned |-> diag'.abandoned]
      BY <1>1, <1>2, <1>3
    <2> QED BY <1>1, <2>1 DEF BusInvariant, BusTyped
  <1>5. BusPhases'
    BY <1>2 DEF BusInvariant, BusPhases, BatchSound
  <1>6. Todo' = Todo /\ \A i : Expected(i)' = Expected(i)
    BY DEF Expected, Todo
  <1>7. BusSubscriptions'
    BY <1>6 DEF BusInvariant, BusSubscriptions
  <1>8. ASSUME NEW n \in Nat, Behind(n, queue, accepted) PROVE Behind(n, queue', accepted')
    <2>1. n <= b.accepted
      BY <1>1, <1>8 DEF Behind
    <2>2. ASSUME NEW k \in DOMAIN b.queue PROVE n < b.queue[k].no
      <3>1. b.queue[k] \in QueuedEvent
        BY <1>1, ElementOfSeq
      <3>2. b.queue[k].no \in Nat
        BY <3>1 DEF QueuedEvent
      <3>3. CASE b.queue[k].no > accepted
        BY <1>1, <1>8, <3>2, <3>3 DEF Behind
      <3>4. CASE \E j \in DOMAIN queue : b.queue[k].no = queue[j].no
        BY <1>8, <3>4 DEF Behind
      <3> QED BY <3>3, <3>4 DEF BatchSound
    <2> QED BY <2>1, <2>2 DEF Behind
  <1>9. BusNumbers'
    <2>1. QueueOrdered(queue, accepted)'
      BY DEF BatchSound, QueueOrdered
    <2>2. \A i \in Ids : \A k \in DOMAIN inbox[i] : Behind(inbox[i][k], queue', accepted')
      <3> SUFFICES ASSUME NEW i \in Ids, NEW k \in DOMAIN inbox[i]
                   PROVE  Behind(inbox[i][k], queue', accepted')
        OBVIOUS
      <3>1. inbox[i] \in Seq(Nat)
        BY DEF BusInvariant, BusTyped
      <3>2. inbox[i][k] \in Nat
        BY <3>1, ElementOfSeq
      <3> QED BY <1>8, <3>2 DEF BusInvariant, BusNumbers
    <2>3. dispatch # None => Behind(dispatch.event.no, queue', accepted')
      BY <1>8, DeliveryFacts DEF BusInvariant, BusNumbers
    <2> QED BY <1>6, <2>1, <2>2, <2>3 DEF BusInvariant, BusNumbers, Behind
  <1>10. BusCount'
    <2> DEFINE l == Len(queue)
               m == Len(b.queue)
               c == b.accepted
               t == b.replaced
               d == diag.dispatches
               r == diag.replacements
               o == diag.abandoned
               x == IF dispatch = None THEN 0 ELSE 1
    <2>1. /\ l \in Nat /\ m \in Nat /\ c \in Nat /\ t \in Nat /\ d \in Nat /\ r \in Nat /\ o \in Nat
          /\ x \in Nat /\ accepted \in Nat
      BY <1>1, <1>3 DEF BusInvariant, BusTyped
    <2>2. c + l = accepted + t + m /\ accepted = d + r + o + l + x
      BY DEF BatchSound, BusInvariant, BusCount
    <2> HIDE DEF l, m, c, t, d, r, o, x
    <2>3. c = d + (r + t) + o + m + x
      BY ONLY <2>1, <2>2
    <2>4. accepted' = diag'.dispatches + diag'.replacements + diag'.abandoned + Len(queue')
                        + (IF dispatch = None THEN 0 ELSE 1)
      BY <1>2, <2>3 DEF m, c, t, d, r, o, x
    <2> QED BY <2>4 DEF BusCount
  <1> QED BY <1>4, <1>5, <1>7, <1>9, <1>10 DEF BusInvariant

LEMMA BatchTyped == ASSUME NEW es \in Bus!Batch PROVE es \in Seq(Bus!Event) /\ Len(es) \in Nat
  <1>1. PICK n \in 1..MaxBatch : es \in [1..n -> Bus!Event]
    BY DEF Bus!Batch
  <1>2. n \in Nat
    BY KernelAssumption DEF KernelAssumption
  <1> QED BY <1>1, <1>2

LEMMA BusPublishes ==
  ASSUME BusInvariant, NEW es \in Bus!Batch, Bus!PublishMany(es) PROVE BusInvariant'
  <1> DEFINE b == Bus!Batched(es)
  <1>1. BatchSound(b)
    BY BatchTyped, BatchedSound
  <1>2. /\ queue' = b.queue /\ accepted' = b.accepted
        /\ diag' = [diag EXCEPT !.replacements = @ + b.replaced]
        /\ UNCHANGED <<handlers, usedIds, phase, dispatch, driver, dropped, inbox>>
    BY DEF Bus!PublishMany
  <1> HIDE DEF b
  <1>3. diag = [dispatches |-> diag.dispatches, replacements |-> diag.replacements,
                abandoned |-> diag.abandoned]
    BY DEF BusInvariant, BusTyped
  <1>4. diag' = [dispatches |-> diag.dispatches, replacements |-> diag.replacements + b.replaced,
                 abandoned |-> diag.abandoned]
    BY ONLY <1>2, <1>3
  <1> QED BY ONLY BusInvariant, <1>1, <1>2, <1>4, BatchBooked

LEMMA BusPublishesAtomically ==
  ASSUME BusInvariant, NEW es \in Bus!Batch, Bus!PublishManyAtomic(es) PROVE BusInvariant'
  <1> DEFINE s == [i \in DOMAIN es |-> Bus!Numbered(es[i], accepted + i)]
             q == queue \o s
             b == [queue |-> q, accepted |-> accepted + Len(es), replaced |-> 0, open |-> TRUE]
  <1>0. es \in Seq(Bus!Event) /\ Len(es) \in Nat /\ DOMAIN es = 1..Len(es)
    BY BatchTyped
  <1>1. /\ queue \in Seq(QueuedEvent) /\ accepted \in Nat /\ Len(queue) \in Nat
        /\ QueueOrdered(queue, accepted) /\ DOMAIN queue = 1..Len(queue)
    BY DEF BusInvariant, BusTyped, BusNumbers
  <1>2. s \in Seq(QueuedEvent) /\ Len(s) = Len(es) /\ DOMAIN s = 1..Len(es)
        /\ \A i \in 1..Len(es) : s[i].no = accepted + i
    <2>1. \A i \in 1..Len(es) : Bus!Numbered(es[i], accepted + i) \in QueuedEvent
      <3>1. \A i \in 1..Len(es) : es[i] \in Bus!Event
        BY <1>0, ElementOfSeq
      <3> QED BY <1>1, <3>1 DEF Bus!Numbered, QueuedEvent, Bus!Event
    <2>2. s \in [1..Len(es) -> QueuedEvent]
      BY <1>0, <2>1
    <2>3. \A i \in 1..Len(es) : s[i].no = accepted + i
      BY <1>0 DEF Bus!Numbered
    <2> HIDE DEF s
    <2> QED BY <1>0, <2>2, <2>3
  <1> HIDE DEF s
  <1>3. /\ q \in Seq(QueuedEvent) /\ Len(q) = Len(queue) + Len(es)
        /\ \A k \in 1..Len(queue) : q[k] = queue[k]
        /\ \A k \in 1..Len(es) : q[Len(queue) + k] = s[k]
    <2>1. q \in Seq(QueuedEvent) /\ Len(q) = Len(queue) + Len(s)
      BY <1>1, <1>2, ConcatProperties
    <2>2. \A k \in 1..(Len(queue) + Len(s)) :
            q[k] = IF k <= Len(queue) THEN queue[k] ELSE s[k - Len(queue)]
      BY <1>1, <1>2, ConcatProperties
    <2>3. \A k \in 1..Len(queue) : k \in 1..(Len(queue) + Len(s)) /\ k <= Len(queue)
      BY <1>0, <1>1, <1>2
    <2>4. ASSUME NEW k \in 1..Len(es) PROVE q[Len(queue) + k] = s[k]
      <3>1. /\ Len(queue) + k \in 1..(Len(queue) + Len(s)) /\ ~(Len(queue) + k <= Len(queue))
            /\ (Len(queue) + k) - Len(queue) = k
        BY <1>0, <1>1, <1>2
      <3> QED BY <2>2, <3>1
    <2> QED BY <1>2, <2>1, <2>2, <2>3, <2>4
  <1> HIDE DEF q
  <1>4. DOMAIN q = 1..(Len(queue) + Len(es))
    BY <1>3
  <1>5. ASSUME NEW k \in DOMAIN q
        PROVE  \/ k \in DOMAIN queue /\ q[k].no = queue[k].no
               \/ k > Len(queue) /\ q[k].no = accepted + (k - Len(queue))
    <2>1. CASE k <= Len(queue)
      BY <1>0, <1>1, <1>3, <1>4, <2>1
    <2>2. CASE k > Len(queue)
      <3>1. k - Len(queue) \in 1..Len(es) /\ Len(queue) + (k - Len(queue)) = k
        BY <1>0, <1>1, <1>4, <2>2
      <3> QED BY <1>2, <1>3, <2>2, <3>1
    <2> QED BY <1>0, <1>1, <1>4, <2>1, <2>2
  <1>6. \A k \in DOMAIN queue : queue[k].no \in Nat /\ queue[k].no <= accepted
    <2>1. \A k \in DOMAIN queue : queue[k] \in QueuedEvent
      BY <1>1, ElementOfSeq
    <2> QED BY <1>1, <2>1 DEF QueuedEvent, QueueOrdered
  <1>7. QueueOrdered(q, accepted + Len(es))
    <2>1. ASSUME NEW k \in DOMAIN q PROVE q[k].no <= accepted + Len(es)
      BY <1>0, <1>1, <1>4, <1>5, <1>6
    <2>2. ASSUME NEW j \in DOMAIN q, NEW k \in DOMAIN q, j < k PROVE q[j].no < q[k].no
      <3>1. CASE k \in DOMAIN queue
        BY <1>0, <1>1, <1>4, <1>5, <2>2, <3>1 DEF QueueOrdered
      <3>2. CASE k > Len(queue)
        BY <1>0, <1>1, <1>4, <1>5, <1>6, <2>2, <3>2
      <3> QED BY <1>5, <3>1, <3>2
    <2> QED BY <2>1, <2>2 DEF QueueOrdered
  <1>8. BatchSound(b)
    <2>1. \A k \in DOMAIN q : q[k].no > accepted \/ \E j \in DOMAIN queue : q[k].no = queue[j].no
      BY <1>0, <1>1, <1>4, <1>5
    <2>2. accepted + Len(es) \in Nat /\ accepted <= accepted + Len(es)
          /\ (accepted + Len(es)) + Len(queue) = accepted + 0 + Len(q)
      BY <1>0, <1>1, <1>3
    <2>3. phase = "Running"
      BY DEF Bus!PublishManyAtomic
    <2> QED BY <1>3, <1>7, <2>1, <2>2, <2>3 DEF BatchSound
  <1>9. /\ queue' = b.queue /\ accepted' = b.accepted /\ b.replaced = 0 /\ diag' = diag
        /\ UNCHANGED <<handlers, usedIds, phase, dispatch, driver, dropped, inbox>>
    BY DEF Bus!PublishManyAtomic, q, s
  <1> HIDE DEF b
  <1>10. diag' = [dispatches |-> diag.dispatches, replacements |-> diag.replacements + b.replaced,
                  abandoned |-> diag.abandoned]
    <2>1. /\ diag = [dispatches |-> diag.dispatches, replacements |-> diag.replacements,
                     abandoned |-> diag.abandoned]
          /\ diag.replacements \in Nat
      BY DEF BusInvariant, BusTyped
    <2>2. diag.replacements + b.replaced = diag.replacements
      BY <1>9, <2>1
    <2> QED BY ONLY <1>9, <2>1, <2>2
  <1> QED BY ONLY BusInvariant, <1>8, <1>9, <1>10, BatchBooked

LEMMA BusRegisters ==
  ASSUME BusInvariant, NEW id \in Ids, NEW t \in Types, NEW p \in Priorities,
         Bus!Register(id, t, p)
  PROVE  BusInvariant'
  <1> DEFINE n == Cardinality(usedIds)
  <1>1. /\ id \notin usedIds /\ usedIds' = usedIds \cup {id}
        /\ handlers' = [i \in DOMAIN handlers \cup {id} |->
             IF i = id THEN [type |-> t, priority |-> p, sequence |-> n + 1] ELSE handlers[i]]
        /\ UNCHANGED <<queue, phase, dispatch, driver, dropped, diag, accepted, inbox>>
    BY BusCardinality DEF Bus!Register
  <1>2. /\ n \in Nat /\ IsFiniteSet(usedIds') /\ Cardinality(usedIds') = n + 1
    BY <1>1, FS_AddElement, FS_CardinalityType DEF BusInvariant, BusTyped
  <1> HIDE DEF n
  <1>3. /\ DOMAIN handlers' = DOMAIN handlers \cup {id} /\ id \notin DOMAIN handlers
        /\ handlers'[id] = [type |-> t, priority |-> p, sequence |-> n + 1]
        /\ \A i \in DOMAIN handlers : handlers'[i] = handlers[i]
    BY <1>1 DEF BusInvariant, BusTyped
  <1>4. BusTyped'
    <2>1. [type |-> t, priority |-> p, sequence |-> n + 1] \in Handler
      BY <1>2 DEF Handler
    <2>2. handlers' \in [DOMAIN handlers' -> Handler]
      BY <1>1, <2>1 DEF BusInvariant, BusTyped
    <2>3. DOMAIN handlers' \subseteq usedIds' /\ usedIds' \subseteq Ids
      BY <1>1, <1>3 DEF BusInvariant, BusTyped
    <2> QED BY <1>1, <1>2, <2>2, <2>3 DEF BusInvariant, BusTyped
  <1>5. BusPhases' /\ BusNumbers' /\ BusCount'
    BY <1>1 DEF BusInvariant, BusPhases, BusNumbers, BusCount, QueueOrdered, Behind, Todo
  <1>6. Todo' = Todo /\ \A i : Expected(i)' = Expected(i)
    BY <1>1 DEF Expected, Todo
  <1>7. BusSubscriptions'
    <2>1. Todo \subseteq usedIds' /\ \A i \in Ids \ usedIds' : inbox[i] = <<>>
      BY <1>1 DEF BusInvariant, BusSubscriptions
    <2>2. /\ \A i \in DOMAIN handlers : handlers[i].sequence <= n
          /\ \A i \in DOMAIN handlers : handlers[i].sequence \in Nat
      BY DEF BusInvariant, BusSubscriptions, BusTyped, Handler, n
    <2>3. handlers'[id].sequence = n + 1
      BY <1>3
    <2>4. \A i \in DOMAIN handlers' : handlers'[i].sequence <= Cardinality(usedIds')
      BY <1>2, <1>3, <2>2, <2>3
    <2>5. ASSUME NEW i \in DOMAIN handlers', NEW j \in DOMAIN handlers',
                 handlers'[i].type = handlers'[j].type,
                 handlers'[i].sequence < handlers'[j].sequence
          PROVE  Ends(Expected(j), Expected(i))
      <3>1. CASE i \in DOMAIN handlers /\ j \in DOMAIN handlers
        BY <1>3, <2>5, <3>1 DEF BusInvariant, BusSubscriptions
      <3>2. CASE i \in DOMAIN handlers /\ j = id
        <4>1. Expected(j) = <<>>
          BY <1>1, <3>2 DEF Expected, BusInvariant, BusSubscriptions
        <4>2. i \in Ids
          BY <3>2 DEF BusInvariant, BusTyped
        <4>3. Expected(i) \in Seq(Nat)
          BY <4>2, ExpectedTyped DEF BusInvariant
        <4>4. Len(Expected(i)) \in Nat /\ Len(<<>>) = 0
          BY <4>3
        <4> QED BY <4>1, <4>4 DEF Ends
      <3>3. i # id
        <4>1. i = id => FALSE
          BY <1>2, <1>3, <2>2, <2>3, <2>5
        <4> QED BY <4>1
      <3> QED BY <1>3, <3>1, <3>2, <3>3
    <2>6. \A i, j \in DOMAIN handlers' :
            handlers'[i].type = handlers'[j].type /\ handlers'[i].sequence < handlers'[j].sequence
              => Ends(Expected(j)', Expected(i)')
      BY <1>6, <2>5
    <2> QED BY <1>1, <1>6, <2>1, <2>4, <2>6 DEF BusSubscriptions
  <1> QED BY <1>4, <1>5, <1>7 DEF BusInvariant

LEMMA BusTakes ==
  ASSUME BusInvariant, NEW call \in {"one", "drain", "close"}, Bus!Take(call), ~dropped
  PROVE  BusInvariant'
  <1> DEFINE e == Head(queue)
             h == Bus!Called(e.type)
             q == Tail(queue)
  <1>0. /\ dispatch = None /\ queue # <<>> /\ driver' = call
        /\ dispatch' = [event |-> e, todo |-> h] /\ queue' = q
        /\ UNCHANGED <<handlers, usedIds, phase, dropped, diag, accepted, inbox>>
    BY DEF Bus!Take
  <1>1. /\ queue \in Seq(QueuedEvent) /\ accepted \in Nat /\ QueueOrdered(queue, accepted)
        /\ DOMAIN queue = 1..Len(queue) /\ Len(queue) \in Nat
    BY DEF BusInvariant, BusTyped, BusNumbers
  <1>2. /\ e \in QueuedEvent /\ e = queue[1] /\ 1 \in DOMAIN queue
        /\ q \in Seq(QueuedEvent) /\ Len(q) = Len(queue) - 1 /\ Len(q) \in Nat
        /\ \A k \in 1..Len(q) : q[k] = queue[k + 1]
    BY <1>0, <1>1, HeadTailProperties, EmptySeq
  <1>3. /\ DOMAIN h = {j \in DOMAIN handlers : handlers[j].type = e.type}
        /\ \A i \in DOMAIN h : h[i] = handlers[i]
        /\ h \in [DOMAIN h -> Handler] /\ DOMAIN h \subseteq Ids
    BY DEF Bus!Called, BusInvariant, BusTyped
  <1> HIDE DEF e, h, q
  <1>4. /\ dispatch' \in Delivery /\ dispatch' # None
        /\ dispatch'.event = e /\ dispatch'.todo = h
    <2>1. h \in UNION {[S -> Handler] : S \in SUBSET Ids}
      BY <1>3
    <2>2. dispatch' \in Delivery
      BY <1>0, <1>2, <2>1 DEF Delivery
    <2> QED BY <1>0, <2>2, KernelAssumption DEF KernelAssumption
  <1>5. Todo' = DOMAIN h /\ Todo = {}
    BY <1>0, <1>4 DEF Todo
  <1>6. BusTyped'
    BY <1>0, <1>2, <1>4 DEF BusInvariant, BusTyped
  <1>7. BusPhases'
    BY <1>0, <1>4, KernelAssumption DEF BusInvariant, BusPhases, KernelAssumption
  <1>8. \A k \in DOMAIN q : k \in 1..Len(q) /\ k + 1 \in DOMAIN queue /\ 1 < k + 1
    BY <1>1, <1>2
  <1>9. ASSUME NEW n, Behind(n, queue, accepted) PROVE Behind(n, q, accepted)
    BY <1>2, <1>8, <1>9 DEF Behind
  <1>10. Behind(e.no, q, accepted)
    BY <1>1, <1>2, <1>8 DEF Behind, QueueOrdered
  <1>11. BusNumbers'
    <2>1. QueueOrdered(q, accepted)
      <3>1. \A j, k \in DOMAIN q : j < k => j + 1 < k + 1
        BY <1>8
      <3> QED BY <1>1, <1>2, <1>8, <3>1 DEF QueueOrdered
    <2>2. \A i \in Ids : \A k \in DOMAIN inbox[i] : Behind(inbox[i][k], q, accepted)
      BY <1>9 DEF BusInvariant, BusNumbers
    <2>3. \A i \in DOMAIN h : \A k \in DOMAIN inbox[i] : inbox[i][k] < e.no
      BY <1>2, <1>3 DEF BusInvariant, BusNumbers, Behind
    <2>4. \A i \in Ids : \A m, n \in DOMAIN inbox[i] : m < n => inbox[i][m] < inbox[i][n]
      BY DEF BusInvariant, BusNumbers
    <2> QED BY <1>0, <1>4, <1>5, <1>10, <2>1, <2>2, <2>3, <2>4
            DEF BusNumbers, QueueOrdered, Behind
  <1>12. BusSubscriptions'
    <2>1. \A i : Expected(i) = inbox[i]
      BY <1>5 DEF Expected
    <2>2. \A i : Expected(i)' = IF i \in DOMAIN h THEN Append(inbox[i], e.no) ELSE inbox[i]
      BY <1>0, <1>4, <1>5 DEF Expected
    <2>3. ASSUME NEW i \in DOMAIN handlers, NEW j \in DOMAIN handlers,
                 handlers[i].type = handlers[j].type,
                 handlers[i].sequence < handlers[j].sequence
          PROVE  Ends(Expected(j)', Expected(i)')
      <3>1. Ends(inbox[j], inbox[i])
        BY <2>1, <2>3 DEF BusInvariant, BusSubscriptions
      <3>2. inbox[i] \in Seq(Nat) /\ inbox[j] \in Seq(Nat) /\ e.no \in Nat
        BY <1>2 DEF BusInvariant, BusTyped, QueuedEvent
      <3>3. i \in DOMAIN h <=> j \in DOMAIN h
        BY <1>3, <2>3
      <3>4. Ends(Append(inbox[j], e.no), Append(inbox[i], e.no))
        BY ONLY <3>1, <3>2, EndsAppend
      <3> QED BY <2>2, <3>1, <3>3, <3>4
    <2>4. DOMAIN h \subseteq usedIds
      BY <1>3 DEF BusInvariant, BusTyped
    <2> QED BY <1>0, <1>5, <2>3, <2>4 DEF BusInvariant, BusSubscriptions, Ends
  <1>13. BusCount'
    <2> DEFINE l == Len(queue)
               m == Len(q)
               d == diag.dispatches
               r == diag.replacements
               o == diag.abandoned
    <2>1. /\ l \in Nat /\ m \in Nat /\ d \in Nat /\ r \in Nat /\ o \in Nat /\ accepted \in Nat
          /\ m = l - 1
      BY <1>1, <1>2 DEF BusInvariant, BusTyped
    <2>2. accepted = d + r + o + l + 0
      BY <1>0 DEF BusInvariant, BusCount
    <2> HIDE DEF l, m, d, r, o
    <2>3. accepted = d + r + o + m + 1
      BY ONLY <2>1, <2>2
    <2>4. accepted' = diag'.dispatches + diag'.replacements + diag'.abandoned + Len(queue') + 1
      BY <1>0, <2>3 DEF m, d, r, o
    <2> QED BY <1>4, <2>4 DEF BusCount
  <1> QED BY <1>6, <1>7, <1>11, <1>12, <1>13 DEF BusInvariant

LEMMA BusReturns == ASSUME BusInvariant, NEW id, Bus!Return(id) PROVE BusInvariant'
  <1> DEFINE n == dispatch.event.no
             h == Bus!Without(dispatch.todo, {id})
             s == Append(inbox[id], n)
  <1>0. /\ dispatch # None /\ id \in DOMAIN dispatch.todo
        /\ dispatch' = [dispatch EXCEPT !.todo = h]
        /\ inbox' = [inbox EXCEPT ![id] = s]
        /\ UNCHANGED <<queue, handlers, usedIds, phase, driver, dropped, diag, accepted>>
    BY DEF Bus!Return, Bus!Running, Bus!InCallback
  <1>1. /\ dispatch \in Delivery /\ dispatch.event \in QueuedEvent /\ n \in Nat
        /\ dispatch.todo \in [Todo -> Handler] /\ Todo \subseteq Ids
        /\ Todo = DOMAIN dispatch.todo
    BY <1>0, DeliveryFacts DEF BusInvariant
  <1>2. id \in Ids /\ id \in Todo /\ inbox[id] \in Seq(Nat) /\ inbox \in [Ids -> Seq(Nat)]
    BY <1>0, <1>1 DEF BusInvariant, BusTyped
  <1>3. /\ s \in Seq(Nat) /\ Len(s) = Len(inbox[id]) + 1 /\ Len(inbox[id]) \in Nat
        /\ \A k \in 1..Len(inbox[id]) : s[k] = inbox[id][k]
        /\ s[Len(inbox[id]) + 1] = n
    BY <1>1, <1>2, Appended
  <1>4. h \in [Todo \ {id} -> Handler] /\ DOMAIN h = Todo \ {id}
    BY <1>1 DEF Bus!Without
  <1> HIDE DEF s, h
  <1>5. /\ dispatch' \in Delivery /\ dispatch' # None
        /\ dispatch'.event = dispatch.event /\ dispatch'.todo = h
    <2>1. h \in UNION {[S -> Handler] : S \in SUBSET Ids}
      BY <1>1, <1>4
    <2>2. dispatch' \in Delivery /\ dispatch'.event = dispatch.event /\ dispatch'.todo = h
      BY <1>0, <1>1, <2>1 DEF Delivery
    <2> QED BY <2>2, KernelAssumption DEF KernelAssumption
  <1>6. Todo' = Todo \ {id}
    BY <1>4, <1>5 DEF Todo
  <1>7. /\ inbox' \in [Ids -> Seq(Nat)] /\ inbox'[id] = s
        /\ \A i \in Ids : i # id => inbox'[i] = inbox[i]
    BY <1>0, <1>2, <1>3
  <1>8. BusTyped'
    BY <1>0, <1>5, <1>7 DEF BusInvariant, BusTyped
  <1>9. BusPhases' /\ BusCount'
    BY <1>0, <1>5 DEF BusInvariant, BusPhases, BusCount
  <1>10. DOMAIN s = 1..(Len(inbox[id]) + 1) /\ DOMAIN inbox[id] = 1..Len(inbox[id])
    BY <1>2, <1>3
  <1>11. ASSUME NEW k \in DOMAIN s
         PROVE  \/ k \in DOMAIN inbox[id] /\ s[k] = inbox[id][k]
                \/ k = Len(inbox[id]) + 1 /\ s[k] = n
    <2>1. k \in 1..Len(inbox[id]) \/ k = Len(inbox[id]) + 1
      <3> DEFINE m == Len(inbox[id])
      <3>1. m \in Nat /\ k \in 1..(m + 1)
        BY <1>3, <1>10
      <3> HIDE DEF m
      <3>2. k \in 1..m \/ k = m + 1
        BY ONLY <3>1
      <3> QED BY ONLY <3>2 DEF m
    <2> QED BY ONLY <1>3, <1>10, <2>1
  <1>12. BusNumbers'
    <2>1. \A i \in Ids : \A k \in DOMAIN inbox'[i] : Behind(inbox'[i][k], queue, accepted)
      <3>1. Behind(n, queue, accepted)
        BY <1>0 DEF BusInvariant, BusNumbers
      <3>2. \A k \in DOMAIN s : Behind(s[k], queue, accepted)
        BY <1>2, <1>11, <3>1 DEF BusInvariant, BusNumbers
      <3> QED BY <1>7, <3>2 DEF BusInvariant, BusNumbers
    <2>2. \A i \in Todo' : \A k \in DOMAIN inbox'[i] : inbox'[i][k] < n
      BY <1>1, <1>6, <1>7 DEF BusInvariant, BusNumbers
    <2>3. \A j, k \in DOMAIN s : j < k => s[j] < s[k]
      <3> SUFFICES ASSUME NEW j \in DOMAIN s, NEW k \in DOMAIN s, j < k PROVE s[j] < s[k]
        OBVIOUS
      <3>1. j \in DOMAIN inbox[id]
        BY <1>3, <1>10
      <3>2. s[j] = inbox[id][j]
        BY <1>3, <1>10, <3>1
      <3>3. CASE k \in DOMAIN inbox[id]
        BY <1>2, <1>3, <1>10, <3>1, <3>2, <3>3 DEF BusInvariant, BusNumbers
      <3>4. CASE k = Len(inbox[id]) + 1
        BY <1>2, <1>3, <3>1, <3>2, <3>4 DEF BusInvariant, BusNumbers
      <3> QED BY <1>11, <3>3, <3>4
    <2>4. \A i \in Ids : \A j, k \in DOMAIN inbox'[i] : j < k => inbox'[i][j] < inbox'[i][k]
      BY <1>7, <2>3 DEF BusInvariant, BusNumbers
    <2>5. QueueOrdered(queue, accepted) /\ Behind(n, queue, accepted)
      BY <1>0 DEF BusInvariant, BusNumbers
    <2> HIDE DEF n
    <2>6. n = dispatch'.event.no
      BY <1>5 DEF n
    <2> QED BY <1>0, <1>5, <2>1, <2>2, <2>4, <2>5, <2>6 DEF BusNumbers, QueueOrdered, Behind
  <1>13. BusSubscriptions'
    <2>1. ASSUME NEW i \in Ids PROVE Expected(i)' = Expected(i)
      <3>1. CASE i = id
        <4>1. Expected(i) = s /\ Expected(i)' = inbox'[i]
          BY <1>2, <1>6, <3>1 DEF Expected, s
        <4> QED BY <1>7, <3>1, <4>1
      <3>2. CASE i # id
        BY <1>5, <1>6, <1>7, <3>2 DEF Expected
      <3> QED BY <3>1, <3>2
    <2>2. DOMAIN handlers \subseteq Ids /\ id \in usedIds
      BY <1>2 DEF BusInvariant, BusTyped, BusSubscriptions
    <2>3. \A i \in Ids \ usedIds : inbox'[i] = <<>>
      BY <1>7, <2>2 DEF BusInvariant, BusSubscriptions
    <2>4. \A i, j \in DOMAIN handlers :
            handlers[i].type = handlers[j].type /\ handlers[i].sequence < handlers[j].sequence
              => Ends(Expected(j)', Expected(i)')
      BY <2>1, <2>2 DEF BusInvariant, BusSubscriptions
    <2>5. Todo' \subseteq usedIds
      BY <1>6 DEF BusInvariant, BusSubscriptions
    <2> QED BY <1>0, <2>3, <2>4, <2>5 DEF BusInvariant, BusSubscriptions, Ends
  <1> QED BY <1>8, <1>9, <1>12, <1>13 DEF BusInvariant

LEMMA BusEndsDispatch ==
  ASSUME BusInvariant, NEW unwinds \in BOOLEAN, Bus!EndDispatch(unwinds) PROVE BusInvariant'
  <1>0. /\ dispatch # None /\ DOMAIN dispatch.todo = {} /\ dispatch' = None
        /\ diag' = [diag EXCEPT !.dispatches = @ + 1]
        /\ UNCHANGED <<queue, usedIds, dropped, accepted, inbox>>
    BY DEF Bus!EndDispatch
  <1>1. Todo = {} /\ Todo' = {}
    BY <1>0 DEF Todo
  <1>2. /\ diag = [dispatches |-> diag.dispatches, replacements |-> diag.replacements,
                   abandoned |-> diag.abandoned]
        /\ diag.dispatches \in Nat /\ diag.replacements \in Nat /\ diag.abandoned \in Nat
    BY DEF BusInvariant, BusTyped
  <1>3. diag' = [dispatches |-> diag.dispatches + 1, replacements |-> diag.replacements,
                 abandoned |-> diag.abandoned]
    BY ONLY <1>0, <1>2
  <1>4. /\ diag'.dispatches = diag.dispatches + 1 /\ diag'.replacements = diag.replacements
        /\ diag'.abandoned = diag.abandoned
    BY ONLY <1>3
  <1>5. Fewer(handlers')
    BY SameHandlers, NoHandlers DEF Bus!EndDispatch, BusInvariant
  <1>6. /\ handlers' \in [DOMAIN handlers' -> Handler] /\ DOMAIN handlers' \subseteq DOMAIN handlers
        /\ \A i \in DOMAIN handlers' : handlers'[i] = handlers[i]
    BY <1>5 DEF Fewer
  <1>7. BusTyped'
    <2>1. /\ diag'.dispatches \in Nat /\ diag'.replacements \in Nat /\ diag'.abandoned \in Nat
          /\ diag' = [dispatches |-> diag'.dispatches, replacements |-> diag'.replacements,
                      abandoned |-> diag'.abandoned]
      BY <1>2, <1>3, <1>4
    <2>2. driver' \in {"one", "drain", "close", None}
      BY DEF Bus!EndDispatch, BusInvariant, BusTyped
    <2>3. DOMAIN handlers' \subseteq usedIds
      BY <1>6 DEF BusInvariant, BusTyped
    <2> QED BY <1>0, <1>6, <2>1, <2>2, <2>3 DEF BusInvariant, BusTyped
  <1>8. BusPhases'
    <2>1. ~dropped /\ diag'.abandoned = 0
      BY <1>0, <1>4 DEF BusInvariant, BusPhases
    <2>2. phase' = "Closed" => queue = <<>>
      BY <1>0 DEF Bus!EndDispatch, Bus!Finished, BusInvariant, BusPhases
    <2> QED BY <1>0, <2>1, <2>2 DEF BusPhases
  <1>9. BusNumbers'
    BY <1>0, <1>1 DEF BusInvariant, BusNumbers, QueueOrdered, Behind
  <1>10. BusSubscriptions'
    <2>1. \A i : Expected(i)' = Expected(i)
      BY <1>0, <1>1 DEF Expected
    <2> QED BY <1>0, <1>1, <1>6, <2>1 DEF BusInvariant, BusSubscriptions
  <1>11. BusCount'
    <2> DEFINE l == Len(queue)
               d == diag.dispatches
               r == diag.replacements
               o == diag.abandoned
    <2>1. /\ l \in Nat /\ d \in Nat /\ r \in Nat /\ o \in Nat /\ accepted \in Nat
      BY <1>2 DEF BusInvariant, BusTyped
    <2>2. accepted = d + r + o + l + 1
      BY <1>0 DEF BusInvariant, BusCount
    <2> HIDE DEF l, d, r, o
    <2>3. accepted = (d + 1) + r + o + l + 0
      BY ONLY <2>1, <2>2
    <2>4. accepted' = diag'.dispatches + diag'.replacements + diag'.abandoned + Len(queue') + 0
      BY <1>0, <1>4, <2>3 DEF l, d, r, o
    <2> QED BY <1>0, <2>4 DEF BusCount
  <1> QED BY <1>7, <1>8, <1>9, <1>10, <1>11 DEF BusInvariant

LEMMA BusDrops == ASSUME BusInvariant, Bus!Drop PROVE BusInvariant'
  <1>0. /\ driver = None /\ ~dropped /\ dropped' = TRUE /\ handlers' = <<>> /\ queue' = <<>>
        /\ diag' = [diag EXCEPT !.abandoned = @ + Len(queue)]
        /\ UNCHANGED <<usedIds, dispatch, driver, accepted, inbox>>
    BY DEF Bus!Drop, Bus!OwnerFree
  <1>1. dispatch = None /\ diag.abandoned = 0 /\ dispatch' = None
    BY <1>0 DEF BusInvariant, BusPhases
  <1>2. /\ diag = [dispatches |-> diag.dispatches, replacements |-> diag.replacements,
                   abandoned |-> diag.abandoned]
        /\ diag.dispatches \in Nat /\ diag.replacements \in Nat /\ diag.abandoned \in Nat
        /\ Len(queue) \in Nat
    BY DEF BusInvariant, BusTyped
  <1>3. diag' = [dispatches |-> diag.dispatches, replacements |-> diag.replacements,
                 abandoned |-> diag.abandoned + Len(queue)]
    BY ONLY <1>0, <1>2
  <1>4. /\ diag'.dispatches = diag.dispatches /\ diag'.replacements = diag.replacements
        /\ diag'.abandoned = diag.abandoned + Len(queue)
    BY ONLY <1>3
  <1>5. Fewer(handlers')
    BY <1>0, NoHandlers
  <1>6. BusSubscriptions' /\ handlers' \in [DOMAIN handlers' -> Handler]
        /\ DOMAIN handlers' \subseteq usedIds
    BY <1>0, <1>5, FewerHandlers DEF BusInvariant
  <1>7. queue' \in Seq(QueuedEvent) /\ DOMAIN queue' = {} /\ Len(queue') = 0
    BY <1>0
  <1>8. BusTyped'
    <2>1. /\ diag'.dispatches \in Nat /\ diag'.replacements \in Nat /\ diag'.abandoned \in Nat
          /\ diag' = [dispatches |-> diag'.dispatches, replacements |-> diag'.replacements,
                      abandoned |-> diag'.abandoned]
      BY <1>2, <1>3, <1>4
    <2> QED BY <1>0, <1>6, <1>7, <2>1 DEF BusInvariant, BusTyped
  <1>9. BusPhases'
    <2>1. phase' = "Closed" => diag'.abandoned = 0
      <3>1. phase' = "Closed" => queue = <<>>
        BY DEF Bus!Drop
      <3>2. Len(<<>>) = 0
        OBVIOUS
      <3> QED BY <1>1, <1>4, <3>1, <3>2
    <2> QED BY <1>0, <1>1, <2>1 DEF BusPhases
  <1>10. BusNumbers'
    <2>1. Todo = {} /\ Todo' = {}
      BY <1>1 DEF Todo
    <2> QED BY <1>0, <1>1, <1>7, <2>1 DEF BusInvariant, BusNumbers, QueueOrdered, Behind
  <1>11. BusCount'
    <2> DEFINE l == Len(queue)
               d == diag.dispatches
               r == diag.replacements
               o == diag.abandoned
    <2>1. /\ l \in Nat /\ d \in Nat /\ r \in Nat /\ o \in Nat /\ accepted \in Nat
      BY <1>2 DEF BusInvariant, BusTyped
    <2>2. accepted = d + r + o + l + 0
      BY <1>1 DEF BusInvariant, BusCount
    <2> HIDE DEF l, d, r, o
    <2>3. accepted = d + r + (o + l) + 0 + 0
      BY ONLY <2>1, <2>2
    <2>4. accepted' = diag'.dispatches + diag'.replacements + diag'.abandoned + Len(queue') + 0
      BY <1>0, <1>4, <1>7, <2>3 DEF l, d, r, o
    <2> QED BY <1>1, <2>4 DEF BusCount
  <1> QED BY <1>6, <1>8, <1>9, <1>10, <1>11 DEF BusInvariant

LEMMA BusInit == Bus!Init => BusInvariant
  <1> SUFFICES ASSUME Bus!Init PROVE BusInvariant
    OBVIOUS
  <1>0. /\ queue = <<>> /\ handlers = <<>> /\ usedIds = {} /\ phase = "Running"
        /\ dispatch = None /\ driver = None /\ dropped = FALSE /\ accepted = 0
        /\ diag = [dispatches |-> 0, replacements |-> 0, abandoned |-> 0]
        /\ inbox = [i \in Ids |-> <<>>]
    BY DEF Bus!Init
  <1>1. queue \in Seq(QueuedEvent) /\ DOMAIN queue = {} /\ Len(queue) = 0
    BY <1>0
  <1>2. handlers \in [DOMAIN handlers -> Handler] /\ DOMAIN handlers = {}
    BY <1>0, NoHandlers DEF Fewer
  <1>3. inbox \in [Ids -> Seq(Nat)] /\ \A i \in Ids : inbox[i] = <<>> /\ DOMAIN inbox[i] = {}
    BY <1>0
  <1>4. Todo = {}
    BY <1>0 DEF Todo
  <1>5. BusTyped
    BY <1>0, <1>1, <1>2, <1>3, FS_EmptySet DEF BusTyped
  <1>6. BusPhases /\ BusNumbers
    BY <1>0, <1>1, <1>3, <1>4 DEF BusPhases, BusNumbers, QueueOrdered, Behind
  <1>7. BusSubscriptions
    BY <1>2, <1>3, <1>4 DEF BusSubscriptions
  <1>8. BusCount
    BY <1>0, <1>1 DEF BusCount
  <1> QED BY <1>5, <1>6, <1>7, <1>8 DEF BusInvariant

LEMMA BusNext == ASSUME BusInvariant, [Bus!Next]_busVars PROVE BusInvariant'
  <1>1. ASSUME NEW es \in Bus!Batch, Bus!PublishMany(es) \/ Bus!PublishManyAtomic(es)
        PROVE  BusInvariant'
    BY <1>1, BusPublishes, BusPublishesAtomically
  <1>2. ASSUME NEW id \in Ids, NEW t \in Types, NEW p \in Priorities, Bus!Register(id, t, p)
        PROVE  BusInvariant'
    BY <1>2, BusRegisters
  <1>3. ASSUME NEW id \in Ids, Bus!Unsubscribe(id) \/ Bus!Return(id) PROVE BusInvariant'
    BY <1>3, BusUnsubscribes, BusReturns
  <1>4. ASSUME NEW call \in {"one", "drain"}, Bus!Call(call) PROVE BusInvariant'
    BY <1>4, BusTakes DEF Bus!Call, Bus!OwnerFree
  <1>5. CASE Bus!Continue
    <2>1. driver \in {"one", "drain", "close"} /\ ~dropped /\ Bus!Take(driver)
      BY <1>5, KernelAssumption DEF Bus!Continue, BusInvariant, BusPhases, KernelAssumption
    <2> QED BY <2>1, BusTakes
  <1>6. ASSUME NEW unwinds \in BOOLEAN, Bus!EndDispatch(unwinds) PROVE BusInvariant'
    BY <1>6, BusEndsDispatch
  <1>7. CASE Bus!EndDrain
    BY <1>7, BusEndsDrain
  <1>8. CASE Bus!RequestClose \/ Bus!Close
    BY <1>8, BusClosing
  <1>9. CASE Bus!EndClose
    BY <1>9, BusEndsClose
  <1>10. CASE Bus!Drop
    BY <1>10, BusDrops
  <1>11. CASE UNCHANGED busVars
    <2>1. Todo' = Todo /\ \A i : Expected(i)' = Expected(i)
      BY <1>11 DEF busVars, Expected, Todo
    <2> QED BY <1>11, <2>1
            DEF busVars, BusInvariant, BusTyped, BusPhases, BusNumbers, BusSubscriptions,
                BusCount, QueueOrdered, Behind
  <1> QED BY <1>1, <1>2, <1>3, <1>4, <1>5, <1>6, <1>7, <1>8, <1>9, <1>10, <1>11 DEF Bus!Next

LEMMA BusSettles == BusInvariant => AcceptedIsSettled
  <1> SUFFICES ASSUME BusInvariant PROVE AcceptedIsSettled
    OBVIOUS
  <1> DEFINE d == diag.dispatches
             r == diag.replacements
             o == diag.abandoned
             l == Len(queue)
             x == IF dispatch = None THEN 0 ELSE 1
  <1>1. d \in Nat /\ r \in Nat /\ o \in Nat /\ l \in Nat /\ x \in Nat /\ accepted \in Nat
    BY DEF BusInvariant, BusTyped
  <1>2. accepted = d + r + o + l + x
    BY DEF BusInvariant, BusCount
  <1>3. phase = "Closed" => o = 0 /\ l = 0 /\ x = 0
    <2>1. Len(<<>>) = 0
      OBVIOUS
    <2> QED BY <2>1 DEF BusInvariant, BusPhases
  <1>4. phase = "Closed" => accepted = d + r
    <2> HIDE DEF d, r, o, l, x
    <2> QED BY ONLY <1>1, <1>2, <1>3
  <1> QED BY <1>2, <1>4 DEF AcceptedIsSettled, Bus!AcceptedIsSettled, Bus!Settled

LEMMA BusOrders == BusInvariant => SeenInOrder
  <1> SUFFICES ASSUME BusInvariant PROVE SeenInOrder
    OBVIOUS
  <1>1. \A i \in Ids : \A m, n \in DOMAIN inbox[i] : m < n => inbox[i][m] < inbox[i][n]
    BY DEF BusInvariant, BusNumbers
  <1>2. ASSUME dispatch = None, NEW i \in DOMAIN handlers, NEW j \in DOMAIN handlers,
               handlers[i].type = handlers[j].type,
               handlers[i].sequence < handlers[j].sequence
        PROVE  Bus!IsSuffix(inbox[j], inbox[i])
    <2>1. Expected(i) = inbox[i] /\ Expected(j) = inbox[j]
      BY <1>2 DEF Expected, Todo
    <2>2. Ends(inbox[j], inbox[i])
      BY <1>2, <2>1 DEF BusInvariant, BusSubscriptions
    <2>3. inbox[i] \in Seq(Nat) /\ inbox[j] \in Seq(Nat)
      BY DEF BusInvariant, BusTyped
    <2> QED BY ONLY <2>2, <2>3, SuffixEnds
  <1> QED BY <1>1, <1>2 DEF SeenInOrder, Bus!SeenInOrder

\* A step of the Runtime's parts is a step of the bus or leaves it alone.
LEMMA BusMoves == [KernelNext]_kernelVars => [Bus!Next]_busVars
  BY DEF KernelNext, kernelVars, Others

\* Whatever callbacks publish, subscribe, cancel or close while events are
\* dispatched, the bus keeps its accounting: queued events are numbered in the
\* order they were accepted, everything handed to a subscription came before what
\* is queued, of two subscriptions to a type the older will have seen what the
\* younger one has when the dispatch under way ends, and each accepted event is in
\* exactly one place (src/crates/event/src/bus.rs, enqueue, dispatch_one, close).
THEOREM BusSound == KernelSpec => []BusInvariant
  <1>1. KernelInit => BusInvariant
    BY BusInit DEF KernelInit
  <1>2. BusInvariant /\ [KernelNext]_kernelVars => BusInvariant'
    BY BusMoves, BusNext
  <1> QED BY <1>1, <1>2, PTL DEF KernelSpec

\* No accepted event is lost or counted twice, under either queue policy, any
\* capacity and any number of handlers, and a bus that closed has dispatched or
\* replaced every one of them (src/crates/event/src/bus.rs, finish_closing, drop).
THEOREM EventsSettled == KernelSpec => []AcceptedIsSettled
  BY BusSound, BusSettles, PTL

\* Each subscription sees its events once and in the order they were accepted,
\* and an older subscription to a type misses nothing a younger one saw: neither
\* replacement in a full queue nor a handler that cancels another in the middle
\* of a dispatch reorders or takes an event (src/crates/event/src/bus.rs,
\* dispatch_one).
THEOREM EventsInOrder == KernelSpec => []SeenInOrder
  BY BusSound, BusOrders, PTL

-----------------------------------------------------------------------------
(* The position: the inductive invariant *)

PositionFields ==
  {"total", "updated", "books", "scale", "reservations", "restrictions", "broker", "stale",
   "watermark", "receipts", "now"}

Holding == [qty : Int, settled : Int]

AtVenue == {"SENT_TO_BROKER", "BROKER_ACKNOWLEDGED", "RELEASE_PENDING"}

SellHold ==
  [cluster : Clusters, quantity : Int, remaining : Int, consumed : Int, released : Int,
   stage : AtVenue \cup {"LOCAL_ONLY", "RELEASED"}, acknowledged : BOOLEAN]

\* A hold is freed as a whole or not at all.
HoldSound(r) ==
  r \in SellHold /\ IF r.stage = "RELEASED" THEN r.remaining = 0 ELSE r.released = 0

IsPosition(p) ==
  /\ DOMAIN p = PositionFields
  /\ p.total \in Holding
  /\ p.books \in [Clusters \cup {Unallocated} -> Holding]
  /\ p.scale \in [Clusters \cup {Unallocated} -> Int]
  /\ IsFiniteSet(DOMAIN p.reservations)
  /\ p.reservations \in [DOMAIN p.reservations -> SellHold]
  /\ \A o \in DOMAIN p.reservations : HoldSound(p.reservations[o])
  /\ p.watermark # None => p.watermark[1] \in Nat
  /\ p.now \in Nat
  /\ <<"trade", None>> \notin p.receipts /\ <<"venue_trade", None>> \notin p.receipts

\* The orders the venue may still fill have left, and are not released.
LiveSound(p, orders) ==
  \A o \in orders : o \in DOMAIN p.reservations /\ p.reservations[o].stage \in AtVenue

PositionInvariant ==
  IsPosition(position) /\ PositionPart!Valid(position) /\ LiveSound(position, live)

-----------------------------------------------------------------------------
(* The position: what each operation does *)

LEMMA HoldReplaced ==
  ASSUME NEW p, IsPosition(p), NEW o, NEW r, HoldSound(r),
         NEW n, n = [p EXCEPT !.reservations = PositionPart!With(p.reservations, o, r)]
  PROVE  /\ IsPosition(n) /\ n.watermark = p.watermark
         /\ n.reservations = PositionPart!With(p.reservations, o, r)
  <1> DEFINE f == PositionPart!With(p.reservations, o, r)
  <1>1. /\ DOMAIN f = DOMAIN p.reservations \cup {o} /\ f[o] = r
        /\ \A i \in DOMAIN p.reservations : i # o => f[i] = p.reservations[i]
    BY DEF PositionPart!With
  <1>2. \A i \in DOMAIN f : HoldSound(f[i])
    BY <1>1 DEF IsPosition
  <1>3. f \in [DOMAIN f -> SellHold]
    BY <1>2 DEF HoldSound, PositionPart!With
  <1>4. IsFiniteSet(DOMAIN f)
    BY <1>1, FS_AddElement DEF IsPosition
  <1> HIDE DEF f
  <1>5. /\ DOMAIN n = DOMAIN p /\ n.reservations = f
        /\ n.total = p.total /\ n.books = p.books /\ n.watermark = p.watermark
        /\ n.now = p.now /\ n.receipts = p.receipts /\ n.scale = p.scale
    <2>1. n = [p EXCEPT !.reservations = f] /\ DOMAIN p = PositionFields
      BY DEF IsPosition, f
    <2> QED BY ONLY <2>1 DEF PositionFields
  <1>6. IsPosition(n)
    BY <1>2, <1>3, <1>4, <1>5 DEF IsPosition
  <1> QED BY <1>5, <1>6 DEF f

\* An order that is not live, or stays at the venue, may change its hold.
LEMMA LiveReplaced ==
  ASSUME NEW p, NEW n, NEW o, NEW r, NEW orders, LiveSound(p, orders),
         n.reservations = PositionPart!With(p.reservations, o, r),
         o \in orders => r.stage \in AtVenue
  PROVE  LiveSound(n, orders)
  BY DEF LiveSound, PositionPart!With

LEMMA PositionReserves ==
  ASSUME NEW p, IsPosition(p), LiveSound(p, live), NEW c \in PositionCommand, c.op = "RESERVE",
         PositionPart!MayReserve(p, c)
  PROVE  IsPosition(PositionPart!AfterReserve(p, c)) /\ LiveSound(PositionPart!AfterReserve(p, c), live)
  <1> DEFINE r == [cluster |-> c.cluster, quantity |-> c.quantity, remaining |-> c.quantity,
                   consumed |-> 0, released |-> 0, stage |-> "LOCAL_ONLY", acknowledged |-> FALSE]
             n == PositionPart!AfterReserve(p, c)
  <1>1. HoldSound(r)
    <2>1. c.cluster \in Clusters /\ c.quantity \in Int
      BY PositionAssumption DEF PositionAssumption
    <2> QED BY <2>1 DEF HoldSound, SellHold
  <1>2. n = [p EXCEPT !.reservations = PositionPart!With(p.reservations, c.order, r)]
    BY DEF PositionPart!AfterReserve, IsPosition
  <1>3. c.order \notin live
    BY DEF LiveSound, PositionPart!MayReserve, PositionPart!Orders
  <1> HIDE DEF r, n
  <1>4. IsPosition(n) /\ n.reservations = PositionPart!With(p.reservations, c.order, r)
    BY <1>1, <1>2, HoldReplaced
  <1>5. LiveSound(n, live)
    BY <1>3, <1>4, LiveReplaced
  <1> QED BY <1>4, <1>5 DEF n

LEMMA PositionStages ==
  ASSUME NEW p, IsPosition(p), LiveSound(p, live), NEW c, PositionPart!MayStage(p, c)
  PROVE  /\ IsPosition(PositionPart!AfterStage(p, c))
         /\ LiveSound(PositionPart!AfterStage(p, c), live)
         /\ c.stage = "SENT_TO_BROKER" =>
              LiveSound(PositionPart!AfterStage(p, c), live \cup {c.order})
  <1> DEFINE o == c.order
             r == p.reservations[o]
             s == PositionPart!Staged(r, c)
             n == PositionPart!AfterStage(p, c)
  <1>1. HoldSound(r) /\ o \in DOMAIN p.reservations
    BY DEF PositionPart!MayStage, PositionPart!Open, PositionPart!Orders, IsPosition
  <1>2. \/ PositionPart!LateAck(r, c)
        \/ r.stage = "LOCAL_ONLY" /\ c.stage = "SENT_TO_BROKER"
        \/ r.stage = "SENT_TO_BROKER" /\ c.stage = "BROKER_ACKNOWLEDGED"
    BY DEF PositionPart!MayStage
  <1> HIDE DEF r
  <1>3. HoldSound(s) /\ s.stage \in AtVenue
    <2>1. DOMAIN r = {"cluster", "quantity", "remaining", "consumed", "released", "stage",
                      "acknowledged"}
      BY <1>1 DEF HoldSound, SellHold
    <2> QED BY <1>1, <1>2, <2>1
            DEF HoldSound, SellHold, PositionPart!Staged, PositionPart!LateAck, AtVenue
  <1>4. n = [p EXCEPT !.reservations = PositionPart!With(p.reservations, o, s)]
    BY DEF PositionPart!AfterStage, IsPosition, r
  <1> HIDE DEF s, n
  <1>5. IsPosition(n) /\ n.reservations = PositionPart!With(p.reservations, o, s)
    BY <1>3, <1>4, HoldReplaced
  <1>6. LiveSound(n, live)
    BY <1>3, <1>5, LiveReplaced
  <1>7. LiveSound(n, live \cup {o})
    BY <1>3, <1>5, <1>6 DEF LiveSound, PositionPart!With
  <1> QED BY <1>5, <1>6, <1>7 DEF n

LEMMA FreedSound ==
  ASSUME NEW r \in SellHold
  PROVE  HoldSound(PositionPart!Freed(r)) /\ PositionPart!Freed(r).stage = "RELEASED"
  <1>1. r.released \in Int /\ r.remaining \in Int /\ r.released + r.remaining \in Int
    BY DEF SellHold
  <1>2. PositionPart!Freed(r)
          = [r EXCEPT !.released = r.released + r.remaining, !.remaining = 0, !.stage = "RELEASED"]
    BY DEF PositionPart!Freed
  <1> DEFINE k == r.released + r.remaining
             n == PositionPart!Freed(r)
  <1>3. n = [r EXCEPT !.released = k, !.remaining = 0, !.stage = "RELEASED"] /\ k \in Int
    BY <1>1, <1>2
  <1> HIDE DEF k, n
  <1>4. /\ r = [cluster |-> r.cluster, quantity |-> r.quantity, remaining |-> r.remaining,
               consumed |-> r.consumed, released |-> r.released, stage |-> r.stage,
               acknowledged |-> r.acknowledged]
        /\ r.cluster \in Clusters /\ r.quantity \in Int /\ r.consumed \in Int
        /\ r.acknowledged \in BOOLEAN
    BY DEF SellHold
  <1>5. n = [cluster |-> r.cluster, quantity |-> r.quantity, remaining |-> 0,
             consumed |-> r.consumed, released |-> k, stage |-> "RELEASED",
             acknowledged |-> r.acknowledged]
    BY ONLY <1>3, <1>4
  <1>6. n \in SellHold /\ n.stage = "RELEASED" /\ n.remaining = 0
    BY <1>3, <1>4, <1>5 DEF SellHold
  <1> QED BY <1>6 DEF HoldSound, n

LEMMA PositionReleases ==
  ASSUME NEW p, IsPosition(p), LiveSound(p, live), NEW c, PositionPart!MayRelease(p, c)
  PROVE  /\ IsPosition(PositionPart!AfterRelease(p, c))
         /\ LiveSound(PositionPart!AfterRelease(p, c),
                      IF c.confirmed THEN live \ {c.order} ELSE live)
  <1> DEFINE o == c.order
             r == p.reservations[o]
             s == PositionPart!Released(r, c)
             n == PositionPart!AfterRelease(p, c)
             l == IF c.confirmed THEN live \ {c.order} ELSE live
  <1>1. HoldSound(r) /\ o \in DOMAIN p.reservations
    BY DEF PositionPart!MayRelease, PositionPart!Open, PositionPart!Orders, IsPosition
  <1>2. o \in live => r.stage # "LOCAL_ONLY"
    BY DEF LiveSound, AtVenue
  <1>3. n = [p EXCEPT !.reservations = PositionPart!With(p.reservations, o, s)]
    BY DEF PositionPart!AfterRelease, IsPosition
  <1> HIDE DEF r
  <1>4. HoldSound(s) /\ (o \in l => s.stage \in AtVenue)
    <2>0. r \in SellHold /\ r.remaining # 0 /\ r.stage # "RELEASED" /\ r.released = 0
      BY <1>1 DEF HoldSound, PositionPart!MayRelease, PositionPart!Open, r
    <2>1. CASE PositionPart!ReleaseWaits(r, c)
      <3>1. s = [r EXCEPT !.stage = "RELEASE_PENDING"]
        BY <2>1 DEF PositionPart!Released
      <3> HIDE DEF s
      <3>2. HoldSound(s) /\ s.stage \in AtVenue
        BY <2>0, <3>1 DEF HoldSound, SellHold, AtVenue
      <3> QED BY <3>2
    <2>2. CASE ~PositionPart!ReleaseWaits(r, c)
      <3>1. s = PositionPart!Freed(r)
        BY <2>2 DEF PositionPart!Released
      <3>2. o \notin l
        BY <1>2, <2>2 DEF PositionPart!ReleaseWaits
      <3> HIDE DEF s, l
      <3> QED BY <2>0, <3>1, <3>2, FreedSound
    <2> QED BY <2>1, <2>2
  <1> HIDE DEF s, n
  <1>5. IsPosition(n) /\ n.reservations = PositionPart!With(p.reservations, o, s)
    BY <1>3, <1>4, HoldReplaced
  <1>6. LiveSound(p, l)
    BY DEF LiveSound
  <1> HIDE DEF l
  <1>7. LiveSound(n, l)
    BY <1>4, <1>5, <1>6, LiveReplaced
  <1> QED BY <1>5, <1>7 DEF n, l

\* What a fill takes is consumed; the last fill frees what is left.
LEMMA ConsumedSound ==
  ASSUME NEW r, HoldSound(r), r.stage # "RELEASED", NEW c, c.quantity \in Int
  PROVE  LET s == PositionPart!Consumed(r, c)
             k == r.remaining - c.quantity
         IN /\ HoldSound(s)
            /\ ~(c.terminal /\ k # 0) =>
                 s = [cluster |-> r.cluster, quantity |-> r.quantity, remaining |-> k,
                      consumed |-> r.consumed + c.quantity, released |-> r.released,
                      stage |-> r.stage, acknowledged |-> r.acknowledged]
  <1> DEFINE k == r.remaining - c.quantity
             m == r.consumed + c.quantity
             t == [r EXCEPT !.remaining = k, !.consumed = m]
             s == PositionPart!Consumed(r, c)
  <1>1. /\ r = [cluster |-> r.cluster, quantity |-> r.quantity, remaining |-> r.remaining,
               consumed |-> r.consumed, released |-> r.released, stage |-> r.stage,
               acknowledged |-> r.acknowledged]
        /\ r.cluster \in Clusters /\ r.quantity \in Int /\ r.remaining \in Int /\ r.consumed \in Int
        /\ r.released \in Int /\ r.acknowledged \in BOOLEAN
        /\ r.stage \in AtVenue \cup {"LOCAL_ONLY", "RELEASED"} /\ r.released = 0
    BY DEF HoldSound, SellHold
  <1>2. k \in Int /\ m \in Int
    BY <1>1
  <1>3. s = IF c.terminal /\ t.remaining # 0 THEN PositionPart!Freed(t) ELSE t
    BY DEF PositionPart!Consumed
  <1> HIDE DEF k, m, s
  <1>4a. t = [r EXCEPT !.remaining = k, !.consumed = m]
    OBVIOUS
  <1> HIDE DEF t
  <1>4. t = [cluster |-> r.cluster, quantity |-> r.quantity, remaining |-> k, consumed |-> m,
             released |-> r.released, stage |-> r.stage, acknowledged |-> r.acknowledged]
    BY ONLY <1>1, <1>4a
  <1>5. HoldSound(t) /\ t.remaining = k
    BY <1>1, <1>2, <1>4 DEF HoldSound, SellHold
  <1>6. HoldSound(s)
    BY <1>3, <1>5, FreedSound DEF HoldSound
  <1>7. ~(c.terminal /\ k # 0) => s = t
    BY <1>3, <1>5
  <1> QED BY <1>4, <1>6, <1>7 DEF k, m, s

LEMMA BookedTyped ==
  ASSUME NEW b \in Holding, NEW c, c.quantity \in Int
  PROVE  PositionPart!Booked(b, c) \in Holding
  <1>1. b.qty \in Int /\ b.settled \in Int
    BY DEF Holding
  <1>2. /\ b.qty + c.quantity \in Int /\ b.qty - c.quantity \in Int /\ b.settled - c.quantity \in Int
        /\ b.settled + (IF c.settled THEN c.quantity ELSE 0) \in Int
    BY <1>1
  <1> QED BY <1>2 DEF PositionPart!Booked, Holding

\* The fields a trade moves.
LEMMA PositionTradeFields ==
  ASSUME NEW p, IsPosition(p), NEW c, ~PositionPart!StaleTrade(p, c),
         NEW n, n = PositionPart!AfterTrade(p, c)
  PROVE  /\ DOMAIN n = PositionFields
         /\ n.total = PositionPart!Booked(p.total, c)
         /\ n.books = PositionPart!With(p.books, c.cluster,
                                        PositionPart!Booked(p.books[c.cluster], c))
         /\ n.scale = PositionPart!With(p.scale, c.cluster, PositionPart!ScaleAfter(p, c))
         /\ n.reservations = IF c.side = "BUY" THEN p.reservations
              ELSE PositionPart!With(p.reservations, c.order,
                                     PositionPart!Consumed(p.reservations[c.order], c))
         /\ n.watermark = PositionPart!Place(c)
         /\ n.now = p.now /\ n.receipts = p.receipts
  <1> DEFINE T == PositionPart!Booked(p.total, c)
             B == PositionPart!With(p.books, c.cluster, PositionPart!Booked(p.books[c.cluster], c))
             R == IF c.side = "BUY" THEN p.reservations
                  ELSE PositionPart!With(p.reservations, c.order,
                                         PositionPart!Consumed(p.reservations[c.order], c))
             W == PositionPart!Place(c)
             Z == PositionPart!With(p.scale, c.cluster, PositionPart!ScaleAfter(p, c))
             u == c.time
  <1>1. n = [p EXCEPT !.total = T, !.updated = u, !.watermark = W, !.books = B, !.scale = Z,
                      !.reservations = R]
    BY DEF PositionPart!AfterTrade
  <1>2. DOMAIN p = PositionFields
    BY DEF IsPosition
  <1> HIDE DEF T, B, R, W, Z, u
  <1>3. /\ DOMAIN n = PositionFields /\ n.total = T /\ n.books = B /\ n.reservations = R
        /\ n.watermark = W /\ n.now = p.now /\ n.receipts = p.receipts /\ n.scale = Z
    BY ONLY <1>1, <1>2 DEF PositionFields
  <1> QED BY <1>3 DEF T, B, R, W, Z

LEMMA BooksReplaced ==
  ASSUME NEW B, B \in [Clusters \cup {Unallocated} -> Holding],
         NEW w \in Clusters \cup {Unallocated}, NEW b \in Holding
  PROVE  /\ PositionPart!With(B, w, b) \in [Clusters \cup {Unallocated} -> Holding]
         /\ PositionPart!With(B, w, b)[w] = b
         /\ \A i \in Clusters \cup {Unallocated} : i # w => PositionPart!With(B, w, b)[i] = B[i]
  BY DEF PositionPart!With

\* The places of a cost stay a number, and of one that a close leaves within the bound.
LEMMA ScaleReplaced ==
  ASSUME NEW p, IsPosition(p), NEW c, c.cluster \in Clusters \cup {Unallocated}, c.places \in Int,
         NEW f, f = PositionPart!With(p.scale, c.cluster, PositionPart!ScaleAfter(p, c))
  PROVE  /\ f \in [Clusters \cup {Unallocated} -> Int]
         /\ (/\ c.side = "SELL" /\ PositionPart!Representable(p, c)
             /\ \A i \in Clusters \cup {Unallocated} : p.scale[i] <= MaxScale)
            => \A i \in Clusters \cup {Unallocated} : f[i] <= MaxScale
  <1> DEFINE w == c.cluster
             O == Clusters \cup {Unallocated}
             k == PositionPart!ScaleAfter(p, c)
  <1>1. p.scale \in [O -> Int] /\ w \in O /\ p.scale[w] \in Int
    BY DEF IsPosition
  <1>2. k \in {0, p.scale[w] + c.places, p.scale[w]}
    BY DEF PositionPart!ScaleAfter
  <1>3. /\ c.side = "SELL" /\ PositionPart!Divides(p, c) => k = p.scale[w] + c.places
        /\ c.side = "SELL" /\ ~PositionPart!Divides(p, c) => k = p.scale[w]
    BY DEF PositionPart!ScaleAfter
  <1>4. k \in Int
    BY <1>1, <1>2
  <1>5. c.side = "SELL" /\ PositionPart!Representable(p, c) /\ p.scale[w] <= MaxScale => k <= MaxScale
    BY <1>3 DEF PositionPart!Representable
  <1>6. f = PositionPart!With(p.scale, w, k)
    OBVIOUS
  <1> HIDE DEF k, w, O
  <1>7. f = [i \in O |-> IF i = w THEN k ELSE p.scale[i]]
    BY ONLY <1>1, <1>6 DEF PositionPart!With
  <1>8. f \in [O -> Int] /\ f[w] = k /\ \A i \in O : i # w => f[i] = p.scale[i]
    BY ONLY <1>1, <1>4, <1>7
  <1> QED BY <1>1, <1>5, <1>8 DEF O

LEMMA PositionTrades ==
  ASSUME NEW p, IsPosition(p), LiveSound(p, live), NEW c \in PositionCommand, c.op = "TRADE",
         PositionPart!MayTrade(p, c)
  PROVE  /\ IsPosition(PositionPart!AfterTrade(p, c))
         /\ LiveSound(PositionPart!AfterTrade(p, c),
                      IF c.side = "SELL" /\ c.terminal /\ ~PositionPart!StaleTrade(p, c)
                      THEN live \ {c.order} ELSE live)
  <1> DEFINE n == PositionPart!AfterTrade(p, c)
             o == c.order
             r == p.reservations[o]
             s == PositionPart!Consumed(r, c)
             w == c.cluster
             l == IF c.side = "SELL" /\ c.terminal /\ ~PositionPart!StaleTrade(p, c)
                  THEN live \ {c.order} ELSE live
  <1>0. /\ c.quantity \in Int /\ w \in Clusters \cup {Unallocated} /\ c.sequence \in Nat
        /\ c.trade # None /\ c.venue # None /\ c.side \in {"BUY", "SELL"} /\ c.places \in Int
    BY PositionAssumption DEF PositionAssumption
  <1>1. CASE PositionPart!StaleTrade(p, c)
    <2>1. n = [p EXCEPT !.stale = TRUE] /\ l = live
      BY <1>1 DEF PositionPart!AfterTrade
    <2>2. DOMAIN p = PositionFields
      BY DEF IsPosition
    <2> HIDE DEF n, l
    <2>3. /\ DOMAIN n = DOMAIN p /\ n.reservations = p.reservations
          /\ n.total = p.total /\ n.books = p.books /\ n.watermark = p.watermark
          /\ n.now = p.now /\ n.receipts = p.receipts /\ n.scale = p.scale
      BY ONLY <2>1, <2>2 DEF PositionFields
    <2>4. IsPosition(n) /\ LiveSound(n, l)
      BY <2>1, <2>3 DEF IsPosition, LiveSound
    <2> QED BY <2>4 DEF n, l
  <1>2. CASE ~PositionPart!StaleTrade(p, c)
    <2> DEFINE T == PositionPart!Booked(p.total, c)
               b == PositionPart!Booked(p.books[w], c)
               B == PositionPart!With(p.books, w, b)
               R == IF c.side = "BUY" THEN p.reservations
                    ELSE PositionPart!With(p.reservations, o, s)
               W == PositionPart!Place(c)
               Z == PositionPart!With(p.scale, w, PositionPart!ScaleAfter(p, c))
    <2>1. /\ DOMAIN n = PositionFields /\ n.total = T /\ n.books = B /\ n.reservations = R
          /\ n.watermark = W /\ n.now = p.now /\ n.receipts = p.receipts /\ n.scale = Z
      BY <1>2, PositionTradeFields
    <2>2. T \in Holding /\ b \in Holding
      BY <1>0, BookedTyped DEF IsPosition
    <2> HIDE DEF b
    <2>3. B \in [Clusters \cup {Unallocated} -> Holding]
      BY <1>0, <2>2, BooksReplaced DEF IsPosition
    <2>4. W[1] \in Nat
      BY <1>0 DEF PositionPart!Place
    <2>z. Z \in [Clusters \cup {Unallocated} -> Int]
      BY <1>0, ScaleReplaced
    <2> HIDE DEF n, T, B, W, Z
    <2>5. CASE c.side = "BUY"
      <3>1. n.reservations = p.reservations /\ l = live
        BY <2>1, <2>5
      <3> HIDE DEF l
      <3>2. IsPosition(n) /\ LiveSound(n, l)
        BY <2>1, <2>2, <2>3, <2>4, <2>z, <3>1 DEF IsPosition, LiveSound
      <3> QED BY <3>2 DEF n, l
    <2>6. CASE c.side = "SELL"
      <3>1. o \in DOMAIN p.reservations /\ r.remaining # 0 /\ HoldSound(r)
        BY <1>2, <2>6 DEF PositionPart!MayTrade, PositionPart!MayClose, PositionPart!Open,
                          PositionPart!Orders, IsPosition
      <3>2. r.stage # "RELEASED"
        BY <3>1 DEF HoldSound
      <3> HIDE DEF r
      <3>3. HoldSound(s) /\ (~c.terminal => s.stage = r.stage)
        BY <1>0, <3>1, <3>2, ConsumedSound
      <3> HIDE DEF s
      <3>4. n.reservations = PositionPart!With(p.reservations, o, s)
        BY <2>1, <2>6
      <3> DEFINE m == [p EXCEPT !.reservations = PositionPart!With(p.reservations, o, s)]
      <3>5. IsPosition(m) /\ m.reservations = n.reservations
        <4>1. m = [p EXCEPT !.reservations = PositionPart!With(p.reservations, o, s)]
          OBVIOUS
        <4> HIDE DEF m
        <4> QED BY <3>3, <3>4, <4>1, HoldReplaced
      <3> HIDE DEF m
      <3>6. IsPosition(n)
        <4>1. /\ IsFiniteSet(DOMAIN n.reservations)
              /\ n.reservations \in [DOMAIN n.reservations -> SellHold]
              /\ \A i \in DOMAIN n.reservations : HoldSound(n.reservations[i])
          BY <3>5 DEF IsPosition
        <4> QED BY <2>1, <2>2, <2>3, <2>4, <2>z, <4>1 DEF IsPosition
      <3>7. LiveSound(p, l)
        BY DEF LiveSound
      <3>8. o \in l => s.stage \in AtVenue
        <4>1. o \in l => o \in live /\ ~c.terminal
          BY <1>2, <2>6
        <4>2. o \in live => r.stage \in AtVenue
          BY DEF LiveSound, r
        <4> QED BY <3>3, <4>1, <4>2
      <3> HIDE DEF l
      <3>9. LiveSound(n, l)
        BY <3>4, <3>7, <3>8, LiveReplaced
      <3> QED BY <3>6, <3>9 DEF n, l
    <2> QED BY <1>0, <2>5, <2>6
  <1> QED BY <1>1, <1>2

LEMMA PositionSettles ==
  ASSUME NEW p, IsPosition(p), LiveSound(p, live), NEW c \in PositionCommand, c.op = "SETTLE"
  PROVE  IsPosition(PositionPart!AfterSettle(p, c)) /\ LiveSound(PositionPart!AfterSettle(p, c), live)
  <1> DEFINE n == PositionPart!AfterSettle(p, c)
             w == c.cluster
             b == PositionPart!Matured(p.books[w], c)
             B == PositionPart!With(p.books, w, b)
             T == PositionPart!Matured(p.total, c)
             u == c.time
  <1>0. c.quantity \in Int /\ w \in Clusters \cup {Unallocated}
    BY PositionAssumption DEF PositionAssumption
  <1>1. T \in Holding /\ b \in Holding
    <2>1. ASSUME NEW h \in Holding PROVE PositionPart!Matured(h, c) \in Holding
      <3>1. h.settled + c.quantity \in Int
        BY <1>0 DEF Holding
      <3> QED BY <3>1 DEF PositionPart!Matured, Holding
    <2> QED BY <1>0, <2>1 DEF IsPosition
  <1>2. n = [p EXCEPT !.books = B, !.total = T, !.updated = u] /\ DOMAIN p = PositionFields
    BY DEF PositionPart!AfterSettle, IsPosition
  <1> HIDE DEF b, T, u
  <1>3. B \in [Clusters \cup {Unallocated} -> Holding]
    BY <1>0, <1>1, BooksReplaced DEF IsPosition
  <1> HIDE DEF B, n
  <1>4. /\ DOMAIN n = DOMAIN p /\ n.reservations = p.reservations
        /\ n.total = T /\ n.books = B /\ n.watermark = p.watermark
        /\ n.now = p.now /\ n.receipts = p.receipts /\ n.scale = p.scale
    BY ONLY <1>2 DEF PositionFields
  <1>5. IsPosition(n) /\ LiveSound(n, live)
    BY <1>1, <1>3, <1>4 DEF IsPosition, LiveSound
  <1> QED BY <1>5 DEF n

\* The operations that touch neither shares nor holds.
LEMMA PositionKeeps ==
  ASSUME NEW p, IsPosition(p), LiveSound(p, live), NEW c,
         c.op \in {"RESTRICTION", "REMOVE_RESTRICTION", "BROKER", "TICK"}
  PROVE  IsPosition(PositionPart!Transition(p, c)) /\ LiveSound(PositionPart!Transition(p, c), live)
  <1> DEFINE n == PositionPart!Transition(p, c)
  <1>1. DOMAIN p = PositionFields
    BY DEF IsPosition
  <1>2. \/ n = p
        \/ \E x : n = [p EXCEPT !.restrictions = x]
        \/ \E x : n = [p EXCEPT !.broker = x]
    BY DEF PositionPart!Transition, PositionPart!AfterBroker
  <1> HIDE DEF n
  <1>3. /\ DOMAIN n = DOMAIN p /\ n.reservations = p.reservations
        /\ n.total = p.total /\ n.books = p.books /\ n.watermark = p.watermark
        /\ n.now = p.now /\ n.receipts = p.receipts /\ n.scale = p.scale
    BY ONLY <1>1, <1>2 DEF PositionFields
  <1>4. IsPosition(n) /\ LiveSound(n, live)
    BY <1>3 DEF IsPosition, LiveSound
  <1> QED BY <1>4 DEF n

\* The time moves and nothing else.
LEMMA PositionMoved ==
  ASSUME NEW p, IsPosition(p), NEW c, c.time \in Nat, NEW m, m = PositionPart!Moved(p, c)
  PROVE  /\ IsPosition(m)
         /\ m.reservations = p.reservations /\ m.total = p.total /\ m.books = p.books
         /\ m.watermark = p.watermark /\ m.receipts = p.receipts /\ m.scale = p.scale
  <1> DEFINE k == IF c.time > p.now THEN c.time ELSE p.now
  <1>1. m = [p EXCEPT !.now = k] /\ DOMAIN p = PositionFields /\ k \in Nat
    BY DEF PositionPart!Moved, IsPosition
  <1> HIDE DEF k
  <1>2. /\ DOMAIN m = DOMAIN p /\ m.reservations = p.reservations
        /\ m.total = p.total /\ m.books = p.books /\ m.watermark = p.watermark
        /\ m.now = k /\ m.receipts = p.receipts /\ m.scale = p.scale
    BY ONLY <1>1 DEF PositionFields
  <1> QED BY <1>1, <1>2 DEF IsPosition

LEMMA PositionTransition ==
  ASSUME NEW p, IsPosition(p), LiveSound(p, live), NEW c \in PositionCommand,
         PositionPart!Allowed(p, c), p.watermark = position.watermark
  PROVE  /\ IsPosition(PositionPart!Transition(p, c))
         /\ LiveSound(PositionPart!Transition(p, c), PositionPart!LiveAfter(c))
  <1> DEFINE n == PositionPart!Transition(p, c)
             l == PositionPart!LiveAfter(c)
  <1>1. CASE c.op = "RESERVE"
    <2>1. n = PositionPart!AfterReserve(p, c) /\ l = live /\ PositionPart!MayReserve(p, c)
      BY <1>1 DEF PositionPart!Transition, PositionPart!LiveAfter, PositionPart!Allowed
    <2> HIDE DEF n, l
    <2>2. IsPosition(n) /\ LiveSound(n, l)
      BY <1>1, <2>1, PositionReserves
    <2> QED BY <2>2 DEF n, l
  <1>2. CASE c.op = "STAGE"
    <2>1. /\ n = PositionPart!AfterStage(p, c) /\ PositionPart!MayStage(p, c)
          /\ l = IF c.stage = "SENT_TO_BROKER" THEN live \cup {c.order} ELSE live
      BY <1>2 DEF PositionPart!Transition, PositionPart!LiveAfter, PositionPart!Allowed
    <2> HIDE DEF n, l
    <2>2. IsPosition(n) /\ LiveSound(n, l)
      BY <2>1, PositionStages
    <2> QED BY <2>2 DEF n, l
  <1>3. CASE c.op = "RELEASE"
    <2>1. /\ n = PositionPart!AfterRelease(p, c) /\ PositionPart!MayRelease(p, c)
          /\ l = IF c.confirmed THEN live \ {c.order} ELSE live
      BY <1>3 DEF PositionPart!Transition, PositionPart!LiveAfter, PositionPart!Allowed
    <2> HIDE DEF n, l
    <2>2. IsPosition(n) /\ LiveSound(n, l)
      BY <2>1, PositionReleases
    <2> QED BY <2>2 DEF n, l
  <1>4. CASE c.op = "TRADE"
    <2>0. PositionPart!StaleTrade(position, c) <=> PositionPart!StaleTrade(p, c)
      BY DEF PositionPart!StaleTrade
    <2>1. /\ n = PositionPart!AfterTrade(p, c) /\ PositionPart!MayTrade(p, c)
          /\ l = IF c.side = "SELL" /\ c.terminal /\ ~PositionPart!StaleTrade(p, c)
                 THEN live \ {c.order} ELSE live
      BY <1>4, <2>0 DEF PositionPart!Transition, PositionPart!LiveAfter, PositionPart!Allowed
    <2> HIDE DEF n, l
    <2>2. IsPosition(n) /\ LiveSound(n, l)
      BY <1>4, <2>1, PositionTrades
    <2> QED BY <2>2 DEF n, l
  <1>5. CASE c.op = "SETTLE"
    <2>1. n = PositionPart!AfterSettle(p, c) /\ l = live
      BY <1>5 DEF PositionPart!Transition, PositionPart!LiveAfter
    <2> HIDE DEF n, l
    <2>2. IsPosition(n) /\ LiveSound(n, l)
      BY <1>5, <2>1, PositionSettles
    <2> QED BY <2>2 DEF n, l
  <1>6. CASE c.op \in {"RESTRICTION", "REMOVE_RESTRICTION", "BROKER", "TICK"}
    <2>1. l = live
      BY <1>6 DEF PositionPart!LiveAfter
    <2> HIDE DEF l
    <2>2. IsPosition(n) /\ LiveSound(n, l)
      BY <1>6, <2>1, PositionKeeps
    <2> QED BY <2>2 DEF l
  <1> QED BY <1>1, <1>2, <1>3, <1>4, <1>5, <1>6, PositionAssumption DEF PositionAssumption

\* What a command adds to the receipts is named: the fill to come is not among it.
LEMMA NamedReceipts ==
  ASSUME NEW c \in PositionCommand
  PROVE  /\ <<"trade", None>> \notin PositionPart!Identities(c)
         /\ <<"venue_trade", None>> \notin PositionPart!Identities(c)
  <1>1. CASE c.op = "TRADE"
    <2>1. c.trade # None /\ c.venue # None
      BY <1>1, PositionAssumption DEF PositionAssumption
    <2>2. PositionPart!Identities(c) = {<<"trade", c.trade>>, <<"venue_trade", c.venue>>}
      BY <1>1 DEF PositionPart!Identities
    <2> QED BY <2>1, <2>2
  <1>2. CASE c.op # "TRADE"
    <2>1. PositionPart!Identities(c) \in {{<<"settlement", c.source>>}, {<<"broker", c.snapshot>>}, {}}
      BY <1>2 DEF PositionPart!Identities
    <2> QED BY <2>1
  <1> QED BY <1>1, <1>2

LEMMA PositionApplies ==
  ASSUME PositionInvariant, NEW c \in PositionCommand, PositionPart!Apply(c)
  PROVE  PositionInvariant'
  <1> DEFINE m == PositionPart!Moved(position, c)
             t == PositionPart!Transition(m, c)
             n == PositionPart!Candidate(position, c)
             i == PositionPart!Identities(c)
             l == PositionPart!LiveAfter(c)
  <1>1. IsPosition(position) /\ LiveSound(position, live) /\ c.time \in Nat
    BY PositionAssumption DEF PositionInvariant, PositionAssumption
  <1>2. IsPosition(m) /\ m.reservations = position.reservations /\ m.watermark = position.watermark
    BY <1>1, PositionMoved
  <1>3. PositionPart!Allowed(m, c) /\ PositionPart!Valid(n) /\ position' = n /\ live' = l
    BY DEF PositionPart!Apply, PositionPart!Accepted
  <1>4. n = [t EXCEPT !.receipts = t.receipts \cup i]
    BY DEF PositionPart!Candidate
  <1>5. <<"trade", None>> \notin i /\ <<"venue_trade", None>> \notin i
    BY NamedReceipts
  <1> HIDE DEF n, m, i, l
  <1>6. LiveSound(m, live)
    BY <1>1, <1>2 DEF LiveSound
  <1>7. IsPosition(t) /\ LiveSound(t, l)
    BY <1>2, <1>3, <1>6, PositionTransition DEF l
  <1> HIDE DEF t
  <1>8. DOMAIN t = PositionFields
    BY <1>7 DEF IsPosition
  <1> DEFINE x == t.receipts \cup i
  <1>9. n = [t EXCEPT !.receipts = x]
    BY <1>4
  <1> HIDE DEF x
  <1>10. /\ DOMAIN n = DOMAIN t /\ n.reservations = t.reservations
         /\ n.total = t.total /\ n.books = t.books /\ n.watermark = t.watermark
         /\ n.now = t.now /\ n.receipts = x /\ n.scale = t.scale
    BY ONLY <1>8, <1>9 DEF PositionFields
  <1>11. IsPosition(n)
    BY <1>5, <1>7, <1>10 DEF IsPosition, x
  <1>12. LiveSound(n, l)
    BY <1>7, <1>10 DEF LiveSound
  <1>13. IsPosition(position)' /\ LiveSound(position, live)'
    BY <1>3, <1>11, <1>12 DEF IsPosition, LiveSound, HoldSound
  <1>14. PositionPart!Valid(position)'
    BY <1>3 DEF PositionPart!Valid
  <1> QED BY <1>13, <1>14 DEF PositionInvariant

-----------------------------------------------------------------------------
(* The position: its sums *)

HoldsOf(p, S) == [o \in S |-> p.reservations[o].remaining]

LEMMA RemainingIsSum ==
  ASSUME NEW p, NEW S, Summable(HoldsOf(p, S))
  PROVE  PositionPart!Remaining(p, S) = SumOver(HoldsOf(p, S))
  <1> DEFINE v == HoldsOf(p, S)
             h == CHOOSE g : ReservedTotals(p, g, SUBSET S)
  <1>1. PositionPart!Remaining(p, S) = h[S]
    BY DEF PositionPart!Remaining, PositionPart!MapThenSumSet, PositionPart!MapThenFoldSet,
           ReservedTotals, PickOf
  <1>2. DOMAIN v = S /\ IsFiniteSet(S)
    BY DEF HoldsOf, Summable
  <1>3. ASSUME NEW g PROVE ReservedTotals(p, g, SUBSET S) <=> Totals(v, g, SUBSET S)
    <2>1. ASSUME NEW s \in SUBSET S
          PROVE  Folded(v, g, s) = IF s = {} THEN 0
                   ELSE p.reservations[PickOf(s)].remaining + g[s \ {PickOf(s)}]
      <3>1. s # {} => PickOf(s) \in S
        BY PickIn
      <3> QED BY <3>1 DEF Folded, HoldsOf
    <2> HIDE DEF v
    <2> QED BY <2>1 DEF ReservedTotals, Totals
  <1>4. \E g : ReservedTotals(p, g, SUBSET S)
    BY <1>2, <1>3, TotalsExist
  <1>5. Totals(v, h, SUBSET S)
    BY <1>3, <1>4
  <1> HIDE DEF h
  <1> QED BY <1>1, <1>2, <1>5, SumIsTotal

LEMMA BooksSum == ASSUME NEW f PROVE PositionPart!SumOf(f) = SumOver(f)
  BY DEF PositionPart!SumOf, PositionPart!MapThenSumSet, PositionPart!MapThenFoldSet,
         SumOver, Totals, Folded, PickOf

\* A part is no larger than the sum when no part is negative.
LEMMA PartAtMostSum ==
  ASSUME NEW v, Summable(v), \A x \in DOMAIN v : v[x] >= 0, NEW x \in DOMAIN v
  PROVE  v[x] <= SumOver(v)
  <1> DEFINE u == Less(v, x)
  <1>1. Summable(u) /\ SumOver(v) = v[x] + SumOver(u)
    BY SumTakesOut
  <1>2. \A y \in DOMAIN u : u[y] >= 0
    BY DEF Less
  <1> HIDE DEF u
  <1>3. SumOver(u) \in Int /\ SumOver(u) >= 0
    BY <1>1, <1>2, SumIsInteger
  <1>4. v[x] \in Int
    BY DEF Summable
  <1> QED BY <1>1, <1>3, <1>4

LEMMA SumOfZeros ==
  ASSUME NEW S, IsFiniteSet(S), NEW v, v = [x \in S |-> 0]
  PROVE  SumOver(v) = 0
  <1> DEFINE Sub(s) == [x \in s |-> 0]
             B == {s \in SUBSET S : SumOver(Sub(s)) # 0}
  <1>3. SUFFICES ASSUME B # {} PROVE FALSE
    <2>1. S \notin B => SumOver(Sub(S)) = 0
      OBVIOUS
    <2>2. Sub(S) = v
      OBVIOUS
    <2> QED BY <2>1, <2>2
  <1>4. B \subseteq FiniteSubsetsOf(S)
    BY FS_Subset DEF FiniteSubsetsOf
  <1> HIDE DEF B
  <1>5. PICK U \in B : \A V \in B : ~(V \subseteq U /\ V # U)
    BY <1>3, <1>4, MinimalSet
  <1> USE DEF B
  <1>6. U \subseteq S /\ SumOver(Sub(U)) # 0 /\ IsFiniteSet(U)
    BY FS_Subset
  <1>7. DOMAIN Sub(U) = U /\ Summable(Sub(U))
    BY <1>6 DEF Summable
  <1>8. U # {}
    BY <1>6, <1>7, SumOfNothing
  <1>9. PICK x : x \in U
    BY <1>8
  <1>10. Less(Sub(U), x) = Sub(U \ {x}) /\ Sub(U)[x] = 0
    BY <1>9 DEF Less
  <1>11. SumOver(Sub(U \ {x})) = 0
    <2>1. U \ {x} \in SUBSET S /\ U \ {x} \subseteq U /\ U \ {x} # U
      BY <1>6, <1>9
    <2>2. U \ {x} \notin B
      BY <1>5, <2>1
    <2> QED BY <2>1, <2>2
  <1>12. SumOver(Sub(U)) = Sub(U)[x] + SumOver(Less(Sub(U), x))
    <2> HIDE DEF Sub
    <2> QED BY <1>7, <1>9, SumTakesOut
  <1>13. SumOver(Sub(U)) = 0 + 0
    BY <1>10, <1>11, <1>12
  <1> QED BY <1>6, <1>13

\* A reservation book that can be summed.
Holds(p) ==
  /\ IsFiniteSet(DOMAIN p.reservations)
  /\ \A o \in DOMAIN p.reservations : p.reservations[o].remaining \in Int

LEMMA HoldsSummable == ASSUME NEW p, IsPosition(p) PROVE Holds(p)
  BY DEF IsPosition, SellHold, Holds

LEMMA HeldIsSum ==
  ASSUME NEW p, Holds(p), NEW w
  PROVE  /\ Summable(HoldsOf(p, PositionPart!OrdersOf(p, w)))
         /\ PositionPart!Held(p, w) = SumOver(HoldsOf(p, PositionPart!OrdersOf(p, w)))
  <1> DEFINE S == PositionPart!OrdersOf(p, w)
  <1>1. IsFiniteSet(S) /\ S \subseteq DOMAIN p.reservations
    BY FS_Subset DEF Holds, PositionPart!OrdersOf, PositionPart!Orders
  <1>2. Summable(HoldsOf(p, S))
    BY <1>1 DEF Holds, Summable, HoldsOf
  <1> QED BY <1>2, RemainingIsSum DEF PositionPart!Held

\* A changed hold moves what its cluster holds, and no other.
LEMMA HeldMoves ==
  ASSUME NEW p, Holds(p), NEW o \in DOMAIN p.reservations,
         NEW s, s.cluster = p.reservations[o].cluster, s.remaining \in Int,
         NEW n, n.reservations = PositionPart!With(p.reservations, o, s), NEW w
  PROVE  /\ PositionPart!Held(p, w) \in Int
         /\ PositionPart!Held(n, w)
              = IF w = s.cluster
                THEN PositionPart!Held(p, w) - p.reservations[o].remaining + s.remaining
                ELSE PositionPart!Held(p, w)
  <1> DEFINE S == PositionPart!OrdersOf(p, w)
             u == HoldsOf(p, S)
             v == HoldsOf(n, S)
  <1>1. /\ DOMAIN n.reservations = DOMAIN p.reservations /\ n.reservations[o] = s
        /\ \A i \in DOMAIN p.reservations : i # o => n.reservations[i] = p.reservations[i]
    BY DEF PositionPart!With
  <1>2. Holds(n)
    BY <1>1 DEF Holds
  <1>3. PositionPart!OrdersOf(n, w) = S
    BY <1>1 DEF PositionPart!OrdersOf, PositionPart!Orders
  <1>4. /\ Summable(u) /\ PositionPart!Held(p, w) = SumOver(u)
        /\ Summable(v) /\ PositionPart!Held(n, w) = SumOver(v)
    BY <1>2, <1>3, HeldIsSum
  <1>5. SumOver(u) \in Int
    BY <1>4, SumIsInteger
  <1>6. o \in S <=> w = s.cluster
    BY DEF PositionPart!OrdersOf, PositionPart!Orders
  <1>7. /\ DOMAIN u = S /\ DOMAIN v = S
        /\ \A i \in S : u[i] = p.reservations[i].remaining /\ v[i] = n.reservations[i].remaining
        /\ S \subseteq DOMAIN p.reservations
    BY DEF HoldsOf, PositionPart!OrdersOf, PositionPart!Orders
  <1> HIDE DEF u, v, S
  <1>8. CASE w = s.cluster
    <2>1. o \in S /\ u[o] = p.reservations[o].remaining /\ v[o] = s.remaining
      BY <1>1, <1>6, <1>7, <1>8
    <2>2. \A i \in DOMAIN u \ {o} : v[i] = u[i]
      BY <1>1, <1>7
    <2>3. SumOver(v) = SumOver(u) - u[o] + v[o]
      BY <1>4, <1>7, <2>1, <2>2, SumMoves
    <2> QED BY <1>4, <1>5, <1>8, <2>1, <2>3
  <1>9. CASE w # s.cluster
    <2>1. \A i \in S : v[i] = u[i]
      BY <1>1, <1>6, <1>7, <1>9
    <2>2. u = [i \in S |-> u[i]] /\ v = [i \in S |-> v[i]]
      BY DEF u, v, HoldsOf
    <2>3. u = v
      BY <2>1, <2>2
    <2> QED BY <1>4, <1>5, <1>9, <2>3
  <1> QED BY <1>8, <1>9

LEMMA PositionInit == PositionPart!Init => PositionInvariant
  <1> SUFFICES ASSUME PositionPart!Init PROVE PositionInvariant
    OBVIOUS
  <1> DEFINE O == Clusters \cup {Unallocated}
             E == [qty |-> 0, settled |-> 0]
  <1>1. /\ position = [total |-> E, updated |-> None, books |-> [w \in O |-> E],
                       scale |-> [w \in O |-> 0], reservations |-> <<>>, restrictions |-> {}, broker |-> None,
                       stale |-> FALSE, watermark |-> None, receipts |-> {}, now |-> 0]
        /\ live = {}
    BY DEF PositionPart!Init, PositionPart!Empty, PositionPart!Owners
  <1>2. /\ DOMAIN position = PositionFields /\ position.total = E
        /\ position.books = [w \in O |-> E] /\ position.reservations = <<>>
        /\ position.watermark = None /\ position.receipts = {} /\ position.now = 0
        /\ position.scale = [w \in O |-> 0]
    BY <1>1 DEF PositionFields
  <1>3. DOMAIN position.reservations = {}
    BY <1>2
  <1>4. E \in Holding /\ E.qty = 0 /\ E.settled = 0
    BY DEF Holding
  <1> HIDE DEF E, O
  <1>5. position.books \in [O -> Holding] /\ \A w \in O : position.books[w] = E
    BY <1>2, <1>4
  <1>6. position.reservations \in [{} -> SellHold]
    BY <1>2
  <1>6a. position.scale \in [O -> Int] /\ \A w \in O : position.scale[w] <= MaxScale
    BY <1>2, PositionAssumption DEF PositionAssumption
  <1>7. IsPosition(position)
    BY <1>2, <1>3, <1>4, <1>5, <1>6, <1>6a, FS_EmptySet DEF IsPosition, O
  <1>8. ASSUME NEW w PROVE PositionPart!Held(position, w) = 0
    <2>1. DOMAIN HoldsOf(position, PositionPart!OrdersOf(position, w)) = {}
      BY <1>3 DEF HoldsOf, PositionPart!OrdersOf, PositionPart!Orders
    <2> QED BY <1>7, <2>1, HoldsSummable, HeldIsSum, SumOfNothing
  <1>9. IsFiniteSet(O)
    BY PositionAssumption, FS_AddElement DEF PositionAssumption, O
  <1>10. /\ PositionPart!SumOf([w \in O |-> position.books[w].qty]) = 0
         /\ PositionPart!SumOf([w \in O |-> position.books[w].settled]) = 0
    <2> DEFINE Q == [w \in O |-> position.books[w].qty]
               T == [w \in O |-> position.books[w].settled]
    <2>1. Q = [w \in O |-> 0] /\ T = [w \in O |-> 0]
      BY <1>4, <1>5
    <2> HIDE DEF Q, T
    <2>2. SumOver(Q) = 0 /\ SumOver(T) = 0
      BY <1>9, <2>1, SumOfZeros
    <2>3. PositionPart!SumOf(Q) = 0 /\ PositionPart!SumOf(T) = 0
      BY <2>2, BooksSum
    <2> QED BY <2>3 DEF Q, T
  <1>11. PositionPart!Valid(position)
    <2>1. PositionPart!Owners = O /\ PositionPart!Orders(position) = {}
      BY <1>3 DEF O, PositionPart!Owners, PositionPart!Orders
    <2> QED BY <1>2, <1>4, <1>5, <1>6a, <1>8, <1>10, <2>1 DEF PositionPart!Valid
  <1> QED BY <1>1, <1>7, <1>11 DEF PositionInvariant, LiveSound

LEMMA PositionNext ==
  ASSUME PositionInvariant, [PositionPart!Next]_positionVars PROVE PositionInvariant'
  <1>1. CASE PositionPart!Next
    BY <1>1, PositionApplies DEF PositionPart!Next
  <1>2. CASE UNCHANGED positionVars
    BY <1>2 DEF positionVars, PositionInvariant, IsPosition, LiveSound, HoldSound,
                PositionPart!Valid
  <1> QED BY <1>1, <1>2

\* A step of the Runtime's parts is a step of the position or leaves it alone.
LEMMA PositionMoves == [KernelNext]_kernelVars => [PositionPart!Next]_positionVars
  BY DEF KernelNext, kernelVars, Others

\* The position validates in every state, the orders the venue may still fill keep
\* holds that were sent and not released, and a hold is freed as a whole or not at
\* all: no order of commands, late acknowledgements and confirmations, stale trades
\* or views of the Broker breaks it (src/crates/position/src/manager.rs, apply and
\* validate; reservation.rs, advance and release).
THEOREM PositionSound == KernelSpec => []PositionInvariant
  <1>1. KernelInit => PositionInvariant
    BY PositionInit DEF KernelInit
  <1>2. PositionInvariant /\ [KernelNext]_kernelVars => PositionInvariant'
    BY PositionMoves, PositionNext
  <1> QED BY <1>1, <1>2, PTL DEF KernelSpec

-----------------------------------------------------------------------------
(* The position: what the venue still fills can be booked *)

QtyOf(p) == [w \in Clusters \cup {Unallocated} |-> p.books[w].qty]
SettledOf(p) == [w \in Clusters \cup {Unallocated} |-> p.books[w].settled]

\* The shares of a position add up.
LEMMA PositionSums ==
  ASSUME NEW p, IsPosition(p), PositionPart!Valid(p)
  PROVE  /\ Summable(QtyOf(p)) /\ Summable(SettledOf(p))
         /\ p.total.qty = SumOver(QtyOf(p)) /\ p.total.settled = SumOver(SettledOf(p))
         /\ \A w \in Clusters \cup {Unallocated} : SettledOf(p)[w] >= 0
  <1>1. IsFiniteSet(Clusters \cup {Unallocated})
    BY PositionAssumption, FS_AddElement DEF PositionAssumption
  <1>2. \A w \in Clusters \cup {Unallocated} : p.books[w].qty \in Int /\ p.books[w].settled \in Int
    BY DEF IsPosition, Holding
  <1>3. Summable(QtyOf(p)) /\ Summable(SettledOf(p))
    BY <1>1, <1>2 DEF Summable, QtyOf, SettledOf
  <1>4. /\ p.total.qty = PositionPart!SumOf(QtyOf(p))
        /\ p.total.settled = PositionPart!SumOf(SettledOf(p))
        /\ \A w \in Clusters \cup {Unallocated} : p.books[w].settled >= 0
    BY DEF PositionPart!Valid, PositionPart!Owners, QtyOf, SettledOf
  <1> QED BY <1>3, <1>4, BooksSum DEF SettledOf

\* What an order holds is settled, in its cluster and in the account.
LEMMA HoldCovered ==
  ASSUME NEW p, IsPosition(p), PositionPart!Valid(p), NEW o \in DOMAIN p.reservations,
         NEW w, w = p.reservations[o].cluster
  PROVE  /\ p.reservations[o].remaining <= p.books[w].settled
         /\ p.reservations[o].remaining <= p.total.settled
  <1> DEFINE S == PositionPart!OrdersOf(p, w)
             u == HoldsOf(p, S)
             k == p.reservations[o].remaining
             h == PositionPart!Held(p, w)
             b == p.books[w].settled
             t == p.total.settled
  <1>1. w \in Clusters /\ k \in Int
    BY DEF IsPosition, SellHold
  <1>2. Summable(u) /\ h = SumOver(u)
    BY HoldsSummable, HeldIsSum
  <1>3. /\ o \in S /\ DOMAIN u = S /\ u[o] = k
        /\ \A i \in S : u[i] >= 0
    BY DEF HoldsOf, PositionPart!OrdersOf, PositionPart!Orders, PositionPart!Valid
  <1>4. h \in Int
    BY <1>2, SumIsInteger
  <1> HIDE DEF u, S, h, k
  <1>5. k <= h
    BY <1>2, <1>3, PartAtMostSum
  <1>6. h <= b /\ b \in Int /\ t \in Int
    BY <1>1 DEF PositionPart!Valid, PositionPart!Owners, IsPosition, Holding, h
  <1>7. b <= t
    <2>1. /\ Summable(SettledOf(p)) /\ t = SumOver(SettledOf(p))
          /\ \A i \in Clusters \cup {Unallocated} : SettledOf(p)[i] >= 0
      BY PositionSums
    <2>2. DOMAIN SettledOf(p) = Clusters \cup {Unallocated} /\ SettledOf(p)[w] = b
      BY <1>1 DEF SettledOf
    <2> HIDE DEF b, t
    <2> QED BY <1>1, <2>1, <2>2, PartAtMostSum
  <1>8. k <= b /\ k <= t
    <2> HIDE DEF b, t
    <2> QED BY <1>1, <1>4, <1>5, <1>6, <1>7
  <1> QED BY <1>8 DEF k

\* Selling q shares of a hold keeps the position valid.
LEMMA SaleValidates ==
  ASSUME NEW p, IsPosition(p), PositionPart!Valid(p), NEW o \in DOMAIN p.reservations,
         NEW q \in Nat, q <= p.reservations[o].remaining,
         NEW w, w = p.reservations[o].cluster,
         NEW s, s.cluster = w, s.quantity = p.reservations[o].quantity,
         s.remaining = p.reservations[o].remaining - q,
         s.consumed = p.reservations[o].consumed + q, s.released = p.reservations[o].released,
         NEW n, n.reservations = PositionPart!With(p.reservations, o, s),
         n.total.qty = p.total.qty - q, n.total.settled = p.total.settled - q,
         NEW b \in Holding, b.qty = p.books[w].qty - q, b.settled = p.books[w].settled - q,
         n.books = PositionPart!With(p.books, w, b),
         \A i \in Clusters \cup {Unallocated} : n.scale[i] <= MaxScale
  PROVE  PositionPart!Valid(n)
  <1> DEFINE O == Clusters \cup {Unallocated}
             r == p.reservations[o]
  <1>1. /\ w \in O /\ r.remaining \in Int /\ r.consumed \in Int /\ r.released \in Int
        /\ r.quantity = r.remaining + r.consumed + r.released
    BY DEF IsPosition, SellHold, PositionPart!Valid, PositionPart!Orders
  <1>2. /\ p.books \in [O -> Holding] /\ p.total \in Holding
        /\ p.books[w].qty \in Int /\ p.books[w].settled \in Int
        /\ p.total.qty \in Int /\ p.total.settled \in Int
    BY <1>1 DEF IsPosition, Holding
  <1>3. b.qty = p.books[w].qty - q /\ b.settled = p.books[w].settled - q
    OBVIOUS
  <1>4. /\ n.books \in [O -> Holding] /\ n.books[w] = b
        /\ \A i \in O : i # w => n.books[i] = p.books[i]
    <2>1. n.books = PositionPart!With(p.books, w, b) /\ b \in Holding
      OBVIOUS
    <2>2. n.books = [i \in O |-> IF i = w THEN b ELSE p.books[i]]
      BY ONLY <1>1, <1>2, <2>1 DEF PositionPart!With
    <2> QED BY ONLY <1>1, <1>2, <2>1, <2>2
  <1>5. ASSUME NEW v
        PROVE  /\ PositionPart!Held(p, v) \in Int
               /\ PositionPart!Held(n, v) = IF v = w THEN PositionPart!Held(p, v) - q
                                            ELSE PositionPart!Held(p, v)
    <2>1. Holds(p) /\ s.remaining \in Int
      BY <1>1, HoldsSummable
    <2>2. /\ PositionPart!Held(p, v) \in Int
          /\ PositionPart!Held(n, v)
               = IF v = s.cluster THEN PositionPart!Held(p, v) - r.remaining + s.remaining
                 ELSE PositionPart!Held(p, v)
      BY <2>1, HeldMoves
    <2> QED BY <1>1, <2>2
  <1>6. ASSUME NEW v \in O
        PROVE  /\ 0 <= n.books[v].settled /\ n.books[v].settled <= n.books[v].qty
               /\ PositionPart!Held(n, v) <= n.books[v].settled
    <2>1. /\ 0 <= p.books[v].settled /\ p.books[v].settled <= p.books[v].qty
          /\ PositionPart!Held(p, v) <= p.books[v].settled
      BY DEF PositionPart!Valid, PositionPart!Owners
    <2>2. CASE v # w
      <3>1. n.books[v] = p.books[v] /\ PositionPart!Held(n, v) = PositionPart!Held(p, v)
        BY ONLY <1>4, <1>5, <2>2, v \in O
      <3> QED BY ONLY <2>1, <3>1
    <2>3. CASE v = w
      <3>1. r.remaining <= p.books[v].settled
        BY <2>3, HoldCovered
      <3>2. PositionPart!Held(n, v) = PositionPart!Held(p, v) - q /\ PositionPart!Held(p, v) \in Int
        BY <1>5, <2>3
      <3> DEFINE h == PositionPart!Held(p, v)
                 g == PositionPart!Held(n, v)
                 x == p.books[v].settled
                 y == p.books[v].qty
                 k == r.remaining
      <3>3. /\ n.books[v].settled = x - q /\ n.books[v].qty = y - q /\ g = h - q
            /\ h \in Int /\ x \in Int /\ y \in Int /\ k \in Int
            /\ q <= k /\ k <= x /\ x <= y /\ h <= x
        BY ONLY <1>1, <1>2, <1>3, <1>4, <2>1, <2>3, <3>1, <3>2, q <= k
      <3> HIDE DEF h, g, x, y, k
      <3>4. 0 <= x - q /\ x - q <= y - q /\ g <= x - q
        BY ONLY <3>3, q \in Nat
      <3> QED BY ONLY <3>3, <3>4 DEF g
    <2> QED BY ONLY <2>2, <2>3
  <1>7. /\ n.total.qty = PositionPart!SumOf(QtyOf(n))
        /\ n.total.settled = PositionPart!SumOf(SettledOf(n))
    <2>1. /\ Summable(QtyOf(p)) /\ Summable(SettledOf(p))
          /\ p.total.qty = SumOver(QtyOf(p)) /\ p.total.settled = SumOver(SettledOf(p))
      BY PositionSums
    <2>2. /\ DOMAIN QtyOf(p) = O /\ DOMAIN SettledOf(p) = O
          /\ DOMAIN QtyOf(n) = O /\ DOMAIN SettledOf(n) = O
          /\ QtyOf(n)[w] = p.books[w].qty - q /\ SettledOf(n)[w] = p.books[w].settled - q
          /\ QtyOf(p)[w] = p.books[w].qty /\ SettledOf(p)[w] = p.books[w].settled
          /\ \A i \in O \ {w} : QtyOf(n)[i] = QtyOf(p)[i] /\ SettledOf(n)[i] = SettledOf(p)[i]
      BY ONLY <1>1, <1>3, <1>4 DEF QtyOf, SettledOf
    <2>3. p.books[w].qty - q \in Int /\ p.books[w].settled - q \in Int
      BY <1>2
    <2>4. SumOver(QtyOf(n)) = SumOver(QtyOf(p)) - QtyOf(p)[w] + QtyOf(n)[w]
      <3> DEFINE u == QtyOf(p)
                 v == QtyOf(n)
      <3>1. /\ Summable(u) /\ w \in DOMAIN u /\ DOMAIN v = DOMAIN u /\ v[w] \in Int
            /\ \A i \in DOMAIN u \ {w} : v[i] = u[i]
        BY <1>1, <2>1, <2>2, <2>3
      <3> HIDE DEF u, v
      <3>2. SumOver(v) = SumOver(u) - u[w] + v[w]
        BY <3>1, SumMoves
      <3> QED BY <3>2 DEF u, v
    <2>5. SumOver(SettledOf(n)) = SumOver(SettledOf(p)) - SettledOf(p)[w] + SettledOf(n)[w]
      <3> DEFINE u == SettledOf(p)
                 v == SettledOf(n)
      <3>1. /\ Summable(u) /\ w \in DOMAIN u /\ DOMAIN v = DOMAIN u /\ v[w] \in Int
            /\ \A i \in DOMAIN u \ {w} : v[i] = u[i]
        BY <1>1, <2>1, <2>2, <2>3
      <3> HIDE DEF u, v
      <3>2. SumOver(v) = SumOver(u) - u[w] + v[w]
        BY <3>1, SumMoves
      <3> QED BY <3>2 DEF u, v
    <2>6. n.total.qty = p.total.qty - q /\ n.total.settled = p.total.settled - q
      OBVIOUS
    <2>7. n.total.qty = SumOver(QtyOf(n)) /\ n.total.settled = SumOver(SettledOf(n))
      BY <1>2, <2>1, <2>2, <2>4, <2>5, <2>6
    <2> QED BY <2>7, BooksSum
  <1>8. ASSUME NEW i \in DOMAIN n.reservations
        PROVE  /\ n.reservations[i].remaining >= 0
               /\ n.reservations[i].quantity = n.reservations[i].remaining
                    + n.reservations[i].consumed + n.reservations[i].released
    <2>1. CASE i = o
      <3>1. n.reservations[i] = s
        BY <2>1 DEF PositionPart!With
      <3> QED BY <1>1, <3>1
    <2>2. CASE i # o
      <3>1. n.reservations[i] = p.reservations[i] /\ i \in DOMAIN p.reservations
        BY <2>2 DEF PositionPart!With
      <3> QED BY <3>1 DEF PositionPart!Valid, PositionPart!Orders
    <2> QED BY <2>1, <2>2
  <1>9. \A i \in O : n.scale[i] <= MaxScale
    OBVIOUS
  <1> QED BY ONLY <1>6, <1>7, <1>8, <1>9
          DEF PositionPart!Valid, PositionPart!Owners, PositionPart!Orders, QtyOf, SettledOf

LEMMA VenueFillAccepted ==
  ASSUME PositionInvariant, position.books[Unallocated].qty = 0,
         NEW o \in live, NEW q \in 1..MaxQuantity, NEW d \in Places,
         q + position.reservations[o].consumed <= position.reservations[o].quantity,
         PositionPart!Representable(position, PositionPart!Fill(o, q, d))
  PROVE  PositionPart!Accepted(position, PositionPart!Fill(o, q, d))
  <1> DEFINE p == position
             r == p.reservations[o]
             w == r.cluster
             last == IF p.watermark = None THEN 0 ELSE p.watermark[1]
             c == PositionPart!Fill(o, q, d)
             m == PositionPart!Moved(p, c)
             t == PositionPart!AfterTrade(m, c)
             n == PositionPart!Candidate(p, c)
             s == PositionPart!Consumed(r, c)
             b == PositionPart!Booked(p.books[w], c)
  <1>1. /\ IsPosition(p) /\ PositionPart!Valid(p) /\ q \in Nat /\ q > 0
        /\ o \in DOMAIN p.reservations /\ r.stage \in AtVenue /\ HoldSound(r)
    BY PositionAssumption DEF PositionInvariant, LiveSound, IsPosition, PositionAssumption
  <1>2. /\ c.op = "TRADE" /\ c.side = "SELL" /\ c.order = o /\ c.cluster = w /\ c.quantity = q
        /\ c.terminal <=> q + r.consumed = r.quantity
        /\ c.sequence = last + 1 /\ c.time = p.now /\ c.trade = None /\ c.venue = None
        /\ c.places = d /\ PositionPart!Representable(p, c)
    BY DEF PositionPart!Fill
  <1>3. /\ r.remaining \in Int /\ r.consumed \in Int /\ r.quantity \in Int
        /\ w \in Clusters /\ w # Unallocated
        /\ r.quantity = r.remaining + r.consumed /\ q <= r.remaining
        /\ r.stage # "RELEASED"
    <2>1. r.quantity = r.remaining + r.consumed + r.released
      BY <1>1 DEF PositionPart!Valid, PositionPart!Orders
    <2>2. r.released = 0 /\ r.stage # "RELEASED"
      BY <1>1 DEF HoldSound, AtVenue
    <2>3. r.remaining \in Int /\ r.consumed \in Int /\ r.quantity \in Int /\ w \in Clusters
      BY <1>1 DEF HoldSound, SellHold
    <2> QED BY <1>1, <2>1, <2>2, <2>3, KernelAssumption DEF KernelAssumption
  <1>4. c.terminal <=> q = r.remaining
    BY <1>1, <1>2, <1>3
  <1> HIDE DEF c
  <1>5. /\ IsPosition(m) /\ m.reservations = p.reservations /\ m.total = p.total
        /\ m.books = p.books /\ m.watermark = p.watermark /\ m.receipts = p.receipts
        /\ m.scale = p.scale
    <2>1. c.time \in Nat
      BY <1>1, <1>2 DEF IsPosition
    <2> QED BY <1>1, <2>1, PositionMoved
  <1> HIDE DEF m
  <1>6. ~PositionPart!StaleTrade(m, c)
    <2>1. p.watermark # None => p.watermark[1] \in Nat /\ c.sequence = p.watermark[1] + 1
      BY <1>1, <1>2 DEF IsPosition
    <2>2. PositionPart!Place(c)[1] = c.sequence
      BY DEF PositionPart!Place
    <2> QED BY <1>5, <2>1, <2>2 DEF PositionPart!StaleTrade, PositionPart!AtMost
  <1>7. PositionPart!Allowed(m, c)
    <2>1. q <= p.books[w].settled /\ q <= p.total.settled
      <3>1. r.remaining <= p.books[w].settled /\ r.remaining <= p.total.settled
        BY <1>1, HoldCovered
      <3>2. p.books[w].settled \in Int /\ p.total.settled \in Int
        BY <1>1, <1>3 DEF IsPosition, Holding
      <3> QED BY <1>1, <1>3, <3>1, <3>2
    <2>r. PositionPart!Representable(m, c)
      BY <1>2, <1>5 DEF PositionPart!Representable, PositionPart!Divides
    <2>2. PositionPart!MayClose(m, c)
      BY <1>1, <1>2, <1>3, <1>4, <1>5, <2>1, <2>r
         DEF PositionPart!MayClose, PositionPart!Open, PositionPart!Orders
    <2>3. PositionPart!Identities(c) \cap m.receipts = {}
      <3>1. PositionPart!Identities(c) = {<<"trade", None>>, <<"venue_trade", None>>}
        BY <1>2 DEF PositionPart!Identities
      <3> QED BY <1>1, <1>5, <3>1 DEF IsPosition
    <2> QED BY <1>2, <2>2, <2>3 DEF PositionPart!Allowed, PositionPart!MayTrade
  <1>8. /\ t.total = PositionPart!Booked(p.total, c)
        /\ t.books = PositionPart!With(p.books, w, b)
        /\ t.reservations = PositionPart!With(p.reservations, o, s)
        /\ t.scale = PositionPart!With(m.scale, w, PositionPart!ScaleAfter(m, c))
        /\ DOMAIN t = PositionFields
    <2>1. c.side # "BUY"
      BY <1>2
    <2> QED BY <1>2, <1>5, <1>6, <2>1, PositionTradeFields
  <1>9. n = [t EXCEPT !.receipts = @ \cup PositionPart!Identities(c)]
    BY <1>2 DEF PositionPart!Candidate, PositionPart!Transition, m
  <1>10. /\ p.total \in Holding /\ p.books[w] \in Holding
    BY <1>1, <1>3 DEF IsPosition
  <1>11. /\ b \in Holding /\ b.qty = p.books[w].qty - q /\ b.settled = p.books[w].settled - q
         /\ PositionPart!Booked(p.total, c).qty = p.total.qty - q
         /\ PositionPart!Booked(p.total, c).settled = p.total.settled - q
    <2>1. b \in Holding
      BY <1>1, <1>2, <1>10, BookedTyped
    <2>2. \A h : PositionPart!Booked(h, c) = [qty |-> h.qty - q, settled |-> h.settled - q]
      BY <1>2 DEF PositionPart!Booked
    <2>3. b = [qty |-> p.books[w].qty - q, settled |-> p.books[w].settled - q]
      BY ONLY <2>2
    <2>4. PositionPart!Booked(p.total, c) = [qty |-> p.total.qty - q, settled |-> p.total.settled - q]
      BY ONLY <2>2
    <2> HIDE DEF b
    <2> QED BY ONLY <2>1, <2>3, <2>4
  <1>12. s = [cluster |-> r.cluster, quantity |-> r.quantity, remaining |-> r.remaining - q,
              consumed |-> r.consumed + q, released |-> r.released,
              stage |-> r.stage, acknowledged |-> r.acknowledged]
    <2>1. ~(c.terminal /\ r.remaining - c.quantity # 0)
      BY <1>2, <1>3, <1>4
    <2>2. HoldSound(r) /\ r.stage # "RELEASED" /\ c.quantity \in Int /\ c.quantity = q
      BY <1>1, <1>2, <1>3
    <2> HIDE DEF r, w
    <2> QED BY ONLY <2>1, <2>2, ConsumedSound
  <1>13. /\ s.cluster = w /\ s.quantity = r.quantity /\ s.remaining = r.remaining - q
         /\ s.consumed = r.consumed + q /\ s.released = r.released
    BY <1>12
  <1> HIDE DEF t, n, s, b
  <1>13a. \A i \in Clusters \cup {Unallocated} : t.scale[i] <= MaxScale
    <2>1. PositionPart!Representable(m, c) /\ c.side = "SELL" /\ c.cluster = w
      BY <1>2, <1>5 DEF PositionPart!Representable, PositionPart!Divides
    <2>2. \A i \in Clusters \cup {Unallocated} : m.scale[i] <= MaxScale
      BY <1>1, <1>5 DEF PositionPart!Valid, PositionPart!Owners
    <2>3. c.places \in Int /\ c.cluster \in Clusters \cup {Unallocated}
      BY <1>2, <1>3, PositionAssumption DEF PositionAssumption
    <2> HIDE DEF w
    <2> QED BY <1>5, <1>8, <2>1, <2>2, <2>3, ScaleReplaced
  <1>14. /\ n.total = t.total /\ n.books = t.books /\ n.reservations = t.reservations
         /\ n.scale = t.scale
    BY <1>8, <1>9 DEF PositionFields
  <1>15. PositionPart!Valid(n)
    <2>1. /\ n.total.qty = p.total.qty - q /\ n.total.settled = p.total.settled - q
          /\ n.books = PositionPart!With(p.books, w, b)
          /\ n.reservations = PositionPart!With(p.reservations, o, s)
      BY <1>8, <1>11, <1>14
    <2>2. \A i \in Clusters \cup {Unallocated} : n.scale[i] <= MaxScale
      BY <1>13a, <1>14
    <2> QED BY <1>1, <1>3, <1>11, <1>13, <2>1, <2>2, SaleValidates
  <1> QED BY <1>7, <1>15 DEF PositionPart!Accepted, m, n, c

\* Whatever the venue still fills of a sell order that may be live there is held,
\* settled and not promised to another order, and is booked when it arrives, after
\* any cancellation, block, restriction, settlement, stale trade and trades of other
\* clusters (src/crates/position/src/manager.rs, trade; reservation.rs, consume).  The
\* exceptions are the code's own: shares that no cluster owns, and a part of the shares
\* whose cost is a quotient beyond the arithmetic bound (model.rs, release_cost, bounded).
THEOREM VenueFillsBook == KernelSpec => []VenueFillBooks
  <1>1. PositionInvariant => VenueFillBooks
    BY VenueFillAccepted DEF VenueFillBooks, PositionPart!VenueFillBooks
  <1> QED BY <1>1, PositionSound, PTL

-----------------------------------------------------------------------------
(* Risk: sums over a selection of the holds *)

Part(v, T) == [x \in T |-> v[x]]

LEMMA PartSummable ==
  ASSUME NEW v, Summable(v), NEW T, T \subseteq DOMAIN v
  PROVE  Summable(Part(v, T)) /\ DOMAIN Part(v, T) = T /\ SumOver(Part(v, T)) \in Int
  <1>1. DOMAIN Part(v, T) = T /\ \A x \in T : Part(v, T)[x] = v[x]
    BY DEF Part
  <1>2. Summable(Part(v, T))
    BY <1>1, FS_Subset DEF Summable
  <1> QED BY <1>1, <1>2, SumIsInteger

LEMMA PartTakesOut ==
  ASSUME NEW v, Summable(v), NEW T, T \subseteq DOMAIN v, NEW x \in T
  PROVE  SumOver(Part(v, T)) = v[x] + SumOver(Part(v, T \ {x}))
  <1>1. Summable(Part(v, T)) /\ DOMAIN Part(v, T) = T
    BY PartSummable
  <1>2. Less(Part(v, T), x) = Part(v, T \ {x}) /\ Part(v, T)[x] = v[x]
    BY <1>1 DEF Less, Part
  <1> QED BY <1>1, <1>2, SumTakesOut

LEMMA WholePart ==
  ASSUME NEW v, NEW D, v = [x \in D |-> v[x]]
  PROVE  Part(v, D) = v
  BY DEF Part

\* What is left out counts nothing.
LEMMA SumFiltered ==
  ASSUME NEW v, Summable(v), NEW S, S \subseteq DOMAIN v,
         NEW u, Summable(u), DOMAIN u = DOMAIN v,
         \A x \in DOMAIN v : u[x] = IF x \in S THEN v[x] ELSE 0
  PROVE  SumOver(Part(u, DOMAIN v)) = SumOver(Part(v, S))
  <1> DEFINE D == DOMAIN v
             B == {T \in SUBSET D : SumOver(Part(u, T)) # SumOver(Part(v, T \cap S))}
  <1>1. SUFFICES ASSUME B # {} PROVE FALSE
    <2>1. D \cap S = S
      OBVIOUS
    <2> QED BY <2>1
  <1>2. IsFiniteSet(D) /\ B \subseteq FiniteSubsetsOf(D)
    BY FS_Subset DEF FiniteSubsetsOf, Summable
  <1> HIDE DEF B
  <1>3. PICK U \in B : \A V \in B : ~(V \subseteq U /\ V # U)
    BY <1>1, <1>2, MinimalSet
  <1>4. U \subseteq D /\ SumOver(Part(u, U)) # SumOver(Part(v, U \cap S))
    BY DEF B
  <1>5. CASE U = {}
    <2>1. DOMAIN Part(u, U) = {} /\ DOMAIN Part(v, U \cap S) = {}
      BY <1>5 DEF Part
    <2> QED BY <1>4, <2>1, SumOfNothing
  <1>6. ASSUME NEW x \in U PROVE FALSE
    <2> DEFINE V == U \ {x}
    <2>1. V \in SUBSET D /\ V \subseteq U /\ V # U
      BY <1>4, <1>6
    <2>2. SumOver(Part(u, V)) = SumOver(Part(v, V \cap S))
      BY <1>3, <2>1 DEF B
    <2>3. SumOver(Part(u, U)) = u[x] + SumOver(Part(u, V))
      BY <1>4, <1>6, PartTakesOut
    <2>4. CASE x \in S
      <3>1. (U \cap S) \ {x} = V \cap S /\ x \in U \cap S /\ U \cap S \subseteq D
        BY <1>4, <1>6, <2>4
      <3>2. SumOver(Part(v, U \cap S)) = v[x] + SumOver(Part(v, V \cap S))
        BY <3>1, PartTakesOut
      <3>3. u[x] = v[x]
        BY <1>4, <1>6, <2>4
      <3> QED BY <1>4, <2>2, <2>3, <3>2, <3>3
    <2>5. CASE x \notin S
      <3>1. U \cap S = V \cap S
        BY <2>5
      <3>2. u[x] = 0
        BY <1>4, <1>6, <2>5
      <3>3. SumOver(Part(u, V)) \in Int
        BY <2>1, PartSummable
      <3> DEFINE k == SumOver(Part(u, V))
      <3>4. SumOver(Part(u, U)) = 0 + k /\ k \in Int /\ k = SumOver(Part(v, U \cap S))
        BY <2>2, <2>3, <3>1, <3>2, <3>3
      <3> HIDE DEF k
      <3>5. SumOver(Part(u, U)) = k
        BY ONLY <3>4
      <3> QED BY <1>4, <3>4, <3>5
    <2> QED BY <2>4, <2>5
  <1> QED BY <1>5, <1>6

-----------------------------------------------------------------------------
(* Risk: the inductive invariant *)

RiskFields == {"holds", "decisions", "aliases", "kills", "sequence", "epoch", "watermark"}

RiskHoldFields ==
  {"request", "quantity", "notional", "state", "sent", "unknown", "acknowledged",
   "cancelPending", "terminal"}

\* No more is filled than was asked for.
RiskHold(h) ==
  /\ DOMAIN h = RiskHoldFields
  /\ h.request \in Request
  /\ h.quantity \in Nat /\ h.quantity <= h.request.quantity
  /\ h.notional \in Nat /\ h.notional <= h.request.notional

RiskHolds(H) == IsFiniteSet(DOMAIN H) /\ \A o \in DOMAIN H : RiskHold(H[o])

IsRisk(r) ==
  /\ DOMAIN r = RiskFields
  /\ RiskHolds(r.holds)
  /\ r.sequence \in Nat /\ r.epoch \in Nat
  /\ r.watermark \in Nat /\ r.watermark <= r.sequence
  /\ \A d \in DOMAIN r.decisions : /\ r.decisions[d].epoch \in Nat
                                   /\ r.decisions[d].epoch <= r.epoch
                                   /\ r.decisions[d].view \in Views

\* An acceptance of this epoch would be given again, for the views it was given for.
DecisionsSound(r) ==
  \A q \in Request :
    q.id \in DOMAIN r.decisions /\ RiskPart!StillAccepted(r, q)
    => RiskPart!Accepts(r, q, r.decisions[q.id].view)

RiskInvariant == IsRisk(risk) /\ DecisionsSound(risk)

-----------------------------------------------------------------------------
(* Risk: the sums *)

SoldBy(h, S) ==
  IF h.state = "ACTIVE" /\ h.request.cluster \in S /\ ~h.request.open
  THEN RiskPart!RemainingQuantity(h) ELSE 0

CashBy(h, S) ==
  IF h.state = "ACTIVE" /\ h.request.cluster \in S THEN RiskPart!Cash(h) ELSE 0

Sold(H, S) == [o \in DOMAIN H |-> SoldBy(H[o], S)]
CashOf(H, S) == [o \in DOMAIN H |-> CashBy(H[o], S)]

LEMMA RiskSumOf == ASSUME NEW f PROVE RiskPart!SumOf(f) = SumOver(f)
  BY DEF RiskPart!SumOf, RiskPart!MapThenSumSet, RiskPart!MapThenFoldSet,
         SumOver, Totals, Folded, PickOf

LEMMA RiskAmounts ==
  ASSUME NEW h, RiskHold(h), NEW S
  PROVE  /\ RiskPart!Cash(h) \in Int /\ RiskPart!RemainingQuantity(h) \in Int
         /\ SoldBy(h, S) \in Int /\ CashBy(h, S) \in Int
  <1>1. /\ h.request.quantity \in Nat /\ h.request.cash \in Nat /\ h.request.fee \in Nat
        /\ h.quantity \in Nat
    BY RiskAssumption DEF RiskAssumption, RiskHold
  <1>2. RiskPart!Cash(h) \in Int /\ RiskPart!RemainingQuantity(h) \in Int
    BY <1>1 DEF RiskPart!Cash, RiskPart!Required, RiskPart!RemainingQuantity
  <1> QED BY <1>2 DEF SoldBy, CashBy

LEMMA RiskSums ==
  ASSUME NEW r, RiskHolds(r.holds), NEW S
  PROVE  /\ Summable(Sold(r.holds, S)) /\ RiskPart!SharesHeld(r, S) = SumOver(Sold(r.holds, S))
         /\ Summable(CashOf(r.holds, S)) /\ RiskPart!CashHeld(r, S) = SumOver(CashOf(r.holds, S))
         /\ RiskPart!SharesHeld(r, S) \in Int /\ RiskPart!CashHeld(r, S) \in Int
  <1> DEFINE H == r.holds
             D == DOMAIN H
             A == RiskPart!HoldsOf(r, S)
             AS == {i \in A : ~H[i].request.open}
             cash == [o \in D |-> RiskPart!Cash(H[o])]
             left == [o \in D |-> RiskPart!RemainingQuantity(H[o])]
  <1>1. /\ A \subseteq D /\ AS \subseteq D
        /\ \A o \in D : o \in A <=> H[o].state = "ACTIVE" /\ H[o].request.cluster \in S
    BY DEF RiskPart!HoldsOf, RiskPart!Active
  <1>2. /\ IsFiniteSet(D)
        /\ \A o \in D : /\ RiskPart!Cash(H[o]) \in Int /\ RiskPart!RemainingQuantity(H[o]) \in Int
                        /\ SoldBy(H[o], S) \in Int /\ CashBy(H[o], S) \in Int
    BY RiskAmounts DEF RiskHolds
  <1>3. Summable(cash) /\ Summable(left)
    BY <1>2 DEF Summable
  <1>4. /\ Summable(Sold(H, S)) /\ Summable(CashOf(H, S))
        /\ DOMAIN Sold(H, S) = D /\ DOMAIN CashOf(H, S) = D
    BY <1>2 DEF Summable, Sold, CashOf
  <1>5. /\ \A o \in D : Sold(H, S)[o] = IF o \in AS THEN left[o] ELSE 0
        /\ \A o \in D : CashOf(H, S)[o] = IF o \in A THEN cash[o] ELSE 0
    BY <1>1 DEF Sold, CashOf, SoldBy, CashBy
  <1>6. Part(Sold(H, S), D) = Sold(H, S) /\ Part(CashOf(H, S), D) = CashOf(H, S)
    BY DEF Part, Sold, CashOf
  <1>7. /\ RiskPart!SharesHeld(r, S) = RiskPart!SumOf(Part(left, AS))
        /\ RiskPart!CashHeld(r, S) = RiskPart!SumOf(Part(cash, A))
    <2>1. /\ Part(left, AS) = [o \in AS |-> RiskPart!RemainingQuantity(H[o])]
          /\ Part(cash, A) = [o \in A |-> RiskPart!Cash(H[o])]
      BY <1>1 DEF Part
    <2> QED BY <2>1 DEF RiskPart!SharesHeld, RiskPart!CashHeld
  <1>8. DOMAIN cash = D /\ DOMAIN left = D
    OBVIOUS
  <1> HIDE DEF cash, left, A, AS
  <1>9. RiskPart!SharesHeld(r, S) = SumOver(Sold(H, S))
    BY <1>1, <1>3, <1>4, <1>5, <1>6, <1>7, <1>8, SumFiltered, RiskSumOf
  <1>10. RiskPart!CashHeld(r, S) = SumOver(CashOf(H, S))
    BY <1>1, <1>3, <1>4, <1>5, <1>6, <1>7, <1>8, SumFiltered, RiskSumOf
  <1>11. SumOver(Sold(H, S)) \in Int /\ SumOver(CashOf(H, S)) \in Int
    BY <1>4, SumIsInteger
  <1> QED BY <1>4, <1>9, <1>10, <1>11

\* A new hold adds its own part.
LEMMA RiskHoldAdds ==
  ASSUME NEW r, RiskHolds(r.holds), NEW o, o \notin DOMAIN r.holds, NEW h, RiskHold(h),
         NEW n, n.holds = RiskPart!With(r.holds, o, h), NEW S
  PROVE  /\ RiskHolds(n.holds)
         /\ RiskPart!CashHeld(n, S) = CashBy(h, S) + RiskPart!CashHeld(r, S)
         /\ RiskPart!SharesHeld(n, S) = SoldBy(h, S) + RiskPart!SharesHeld(r, S)
  <1> DEFINE G == r.holds
             H == n.holds
  <1>1. /\ DOMAIN H = DOMAIN G \cup {o} /\ H[o] = h
        /\ \A i \in DOMAIN G : H[i] = G[i]
    BY DEF RiskPart!With
  <1>2. RiskHolds(H)
    BY <1>1, FS_AddElement DEF RiskHolds
  <1>3. /\ RiskPart!CashHeld(r, S) = SumOver(CashOf(G, S))
        /\ RiskPart!SharesHeld(r, S) = SumOver(Sold(G, S))
        /\ Summable(CashOf(H, S)) /\ RiskPart!CashHeld(n, S) = SumOver(CashOf(H, S))
        /\ Summable(Sold(H, S)) /\ RiskPart!SharesHeld(n, S) = SumOver(Sold(H, S))
    BY <1>2, RiskSums
  <1>4. DOMAIN H \ {o} = DOMAIN G /\ o \in DOMAIN H
    BY <1>1
  <1>5. /\ o \in DOMAIN CashOf(H, S) /\ CashOf(H, S)[o] = CashBy(h, S)
        /\ Less(CashOf(H, S), o) = CashOf(G, S)
    BY <1>1, <1>4 DEF CashOf, Less
  <1>6. /\ o \in DOMAIN Sold(H, S) /\ Sold(H, S)[o] = SoldBy(h, S)
        /\ Less(Sold(H, S), o) = Sold(G, S)
    BY <1>1, <1>4 DEF Sold, Less
  <1>7. SumOver(CashOf(H, S)) = CashBy(h, S) + SumOver(CashOf(G, S))
    BY <1>3, <1>5, SumTakesOut
  <1>8. SumOver(Sold(H, S)) = SoldBy(h, S) + SumOver(Sold(G, S))
    BY <1>3, <1>6, SumTakesOut
  <1> QED BY <1>2, <1>3, <1>7, <1>8

\* What the checks read of the risk state.
LEMMA RiskReads ==
  ASSUME NEW r, NEW n, n.holds = r.holds, n.kills = r.kills, n.watermark = r.watermark,
         NEW q, NEW v
  PROVE  RiskPart!Accepts(n, q, v) <=> RiskPart!Accepts(r, q, v)
  <1>1. RiskPart!Active(n) = RiskPart!Active(r)
    BY DEF RiskPart!Active
  <1>2. \A S : RiskPart!HoldsOf(n, S) = RiskPart!HoldsOf(r, S)
    BY <1>1 DEF RiskPart!HoldsOf
  <1>3. \A S : /\ RiskPart!SharesHeld(n, S) = RiskPart!SharesHeld(r, S)
               /\ RiskPart!CashHeld(n, S) = RiskPart!CashHeld(r, S)
    BY <1>2 DEF RiskPart!SharesHeld, RiskPart!CashHeld
  <1>4. \A rule : RiskPart!InScope(n, rule) = RiskPart!InScope(r, rule)
    BY <1>1 DEF RiskPart!InScope
  <1>5. \A rule : RiskPart!NotionalHeld(n, rule) = RiskPart!NotionalHeld(r, rule)
    BY <1>4 DEF RiskPart!NotionalHeld
  <1>6. \A rule : RiskPart!Amount(n, rule, q) = RiskPart!Amount(r, rule, q)
    BY <1>4, <1>5 DEF RiskPart!Amount
  <1>7. RiskPart!RulesPass(n, q) <=> RiskPart!RulesPass(r, q)
    BY <1>6 DEF RiskPart!RulesPass
  <1>8. RiskPart!Killed(n, q.cluster) <=> RiskPart!Killed(r, q.cluster)
    BY DEF RiskPart!Killed
  <1>9. /\ RiskPart!CashSuffices(n, q, v.cash) <=> RiskPart!CashSuffices(r, q, v.cash)
        /\ RiskPart!SharesSuffice(n, q, v.shares) <=> RiskPart!SharesSuffice(r, q, v.shares)
    BY <1>3 DEF RiskPart!CashSuffices, RiskPart!SharesSuffice
  <1>10. \A x : RiskPart!Available(n, x) <=> RiskPart!Available(r, x)
    BY DEF RiskPart!Available
  <1> QED BY <1>7, <1>8, <1>9, <1>10 DEF RiskPart!Accepts

\* The command is counted; the rest is what the handler left.
LEMMA RiskApplied ==
  ASSUME NEW r, DOMAIN r = RiskFields, NEW open, RiskPart!Applied(r, open)
  PROVE  /\ DOMAIN risk' = RiskFields /\ risk'.sequence = r.sequence + 1
         /\ risk'.holds = r.holds /\ risk'.decisions = r.decisions /\ risk'.kills = r.kills
         /\ risk'.epoch = r.epoch /\ risk'.watermark = r.watermark
  <1> DEFINE k == r.sequence + 1
  <1>1. risk' = [r EXCEPT !.sequence = k]
    BY DEF RiskPart!Applied
  <1> HIDE DEF k
  <1>2. /\ DOMAIN risk' = RiskFields /\ risk'.sequence = k
        /\ risk'.holds = r.holds /\ risk'.decisions = r.decisions /\ risk'.kills = r.kills
        /\ risk'.epoch = r.epoch /\ risk'.watermark = r.watermark
    <2>1. DOMAIN r = RiskFields
      OBVIOUS
    <2> QED BY ONLY <1>1, <2>1 DEF RiskFields
  <1> QED BY <1>2 DEF k

LEMMA RiskAgain ==
  ASSUME IsRisk(risk'), DecisionsSound(risk') PROVE RiskInvariant'
  BY DEF RiskInvariant

\* Every new epoch voids the acceptances.
LEMMA EpochVoids ==
  ASSUME NEW r, IsRisk(r), NEW n, n.decisions = r.decisions, n.epoch = r.epoch + 1
  PROVE  DecisionsSound(n)
  <1>1. \A d \in DOMAIN n.decisions : n.decisions[d].epoch # n.epoch
    BY DEF IsRisk
  <1> QED BY <1>1 DEF DecisionsSound, RiskPart!StillAccepted

\* The fields an evaluation moves.
LEMMA RiskEvaluateFields ==
  ASSUME DOMAIN risk = RiskFields, NEW q, NEW v, RiskPart!Evaluate(q, v),
         NEW d, d = [accept |-> RiskPart!Accepts(risk, q, v), epoch |-> risk.epoch, view |-> v]
  PROVE  /\ DOMAIN risk' = RiskFields /\ risk'.sequence = risk.sequence + 1
         /\ risk'.holds = risk.holds /\ risk'.kills = risk.kills
         /\ risk'.decisions = RiskPart!With(risk.decisions, q.id, d)
         /\ risk'.epoch = risk.epoch /\ risk'.watermark = risk.watermark
  <1> DEFINE n == RiskPart!AfterEvaluate(risk, q, v)
             G == RiskPart!With(risk.decisions, q.id, d)
  <1>1. n = [risk EXCEPT !.decisions = G] /\ RiskPart!Applied(n, q.open) /\ DOMAIN risk = RiskFields
    BY DEF RiskPart!AfterEvaluate, RiskPart!Evaluate
  <1> HIDE DEF n, G
  <1>2. /\ DOMAIN n = RiskFields /\ n.holds = risk.holds /\ n.kills = risk.kills
        /\ n.decisions = G /\ n.sequence = risk.sequence /\ n.epoch = risk.epoch
        /\ n.watermark = risk.watermark
    BY ONLY <1>1 DEF RiskFields
  <1> QED BY <1>1, <1>2, RiskApplied DEF G

LEMMA RiskEvaluates ==
  ASSUME RiskInvariant, NEW q \in Request, NEW v \in Views, RiskPart!Evaluate(q, v)
  PROVE  RiskInvariant'
  <1> DEFINE d == [accept |-> RiskPart!Accepts(risk, q, v), epoch |-> risk.epoch, view |-> v]
             G == RiskPart!With(risk.decisions, q.id, d)
  <1>1. IsRisk(risk) /\ DOMAIN risk = RiskFields
    BY DEF RiskInvariant, IsRisk
  <1>2. d.epoch = risk.epoch /\ d.view = v /\ (d.accept <=> RiskPart!Accepts(risk, q, v))
    OBVIOUS
  <1>3. /\ DOMAIN G = DOMAIN risk.decisions \cup {q.id} /\ G[q.id] = d
        /\ \A i \in DOMAIN risk.decisions : i # q.id => G[i] = risk.decisions[i]
    BY DEF RiskPart!With
  <1>4. /\ DOMAIN risk' = RiskFields /\ risk'.sequence = risk.sequence + 1
        /\ risk'.holds = risk.holds /\ risk'.decisions = G /\ risk'.kills = risk.kills
        /\ risk'.epoch = risk.epoch /\ risk'.watermark = risk.watermark
    <2>1. d = [accept |-> RiskPart!Accepts(risk, q, v), epoch |-> risk.epoch, view |-> v]
      OBVIOUS
    <2> HIDE DEF d
    <2> QED BY <1>1, <2>1, RiskEvaluateFields
  <1> HIDE DEF d, G
  <1>5. IsRisk(risk')
    BY <1>1, <1>2, <1>3, <1>4 DEF IsRisk
  <1>6. ASSUME NEW s \in Request, s.id \in DOMAIN risk'.decisions,
               RiskPart!StillAccepted(risk', s)
        PROVE  RiskPart!Accepts(risk', s, risk'.decisions[s.id].view)
    <2>1. SUFFICES RiskPart!Accepts(risk, s, G[s.id].view)
      BY <1>4, RiskReads
    <2>2. CASE s.id = q.id
      BY <1>2, <1>3, <1>4, <1>6, <2>2, RiskAssumption DEF RiskAssumption, RiskPart!StillAccepted
    <2>3. CASE s.id # q.id
      <3>1. s.id \in DOMAIN risk.decisions /\ G[s.id] = risk.decisions[s.id]
        BY <1>3, <1>4, <1>6, <2>3
      <3>2. RiskPart!StillAccepted(risk, s)
        BY <1>4, <1>6, <3>1 DEF RiskPart!StillAccepted
      <3> QED BY <3>1, <3>2 DEF RiskInvariant, DecisionsSound
    <2> QED BY <2>2, <2>3
  <1>7. DecisionsSound(risk')
    BY <1>6 DEF DecisionsSound
  <1> QED BY <1>5, <1>7, RiskAgain

\* What a new hold takes was checked against the views, with everything else that is held.
LEMMA ReserveCovered ==
  ASSUME NEW r, RiskHolds(r.holds), NEW q \in Request, NEW v \in Views, RiskPart!Accepts(r, q, v),
         NEW h, RiskHold(h), h.request = q, h.quantity = 0, h.state = "ACTIVE",
         NEW o, o \notin DOMAIN r.holds,
         NEW n, n.holds = RiskPart!With(r.holds, o, h), n.watermark = r.watermark
  PROVE  RiskPart!Covered(n, h, v)
  <1> DEFINE w == q.cluster
             k == RiskPart!Required(q)
  <1>1. w \in Clusters /\ q.open \in BOOLEAN /\ q.quantity \in Nat /\ k \in Nat
    BY RiskAssumption DEF RiskAssumption, RiskPart!Required
  <1>2. ASSUME NEW S, w \in S
        PROVE  /\ q.open => RiskPart!CashHeld(n, S) = k + RiskPart!CashHeld(r, S)
               /\ ~q.open => RiskPart!SharesHeld(n, S) = q.quantity + RiskPart!SharesHeld(r, S)
               /\ RiskPart!CashHeld(r, S) \in Int /\ RiskPart!SharesHeld(r, S) \in Int
    <2>1. /\ RiskPart!CashHeld(n, S) = CashBy(h, S) + RiskPart!CashHeld(r, S)
          /\ RiskPart!SharesHeld(n, S) = SoldBy(h, S) + RiskPart!SharesHeld(r, S)
      BY RiskHoldAdds
    <2>2. q.open => CashBy(h, S) = k
      BY <1>2 DEF CashBy, RiskPart!Cash
    <2>3. ~q.open => SoldBy(h, S) = q.quantity
      <3>1. RiskPart!RemainingQuantity(h) = q.quantity - 0 /\ q.quantity - 0 = q.quantity
        BY <1>1 DEF RiskPart!RemainingQuantity
      <3> QED BY <1>2, <3>1 DEF SoldBy
    <2> QED BY <2>1, <2>2, <2>3, RiskSums
  <1>3. /\ v.cash # None => v.cash.account \in Nat /\ v.cash.cluster \in Nat
        /\ v.shares # None => v.shares.account \in Nat /\ v.shares.cluster \in Nat
    BY RiskAssumption DEF RiskAssumption
  <1> HIDE DEF w, k
  <1>4. CASE q.open
    <2> DEFINE x == v.cash.account
               y == v.cash.cluster
               a == RiskPart!CashHeld(r, Clusters)
               b == RiskPart!CashHeld(r, {w})
    <2>1. /\ v.cash # None /\ v.cash.at >= r.watermark /\ x - a >= k /\ y - b >= k
      BY <1>4 DEF RiskPart!Accepts, RiskPart!Available, RiskPart!CashSuffices, k, w
    <2>2. /\ RiskPart!CashHeld(n, Clusters) = k + a /\ RiskPart!CashHeld(n, {w}) = k + b
          /\ a \in Int /\ b \in Int
      BY <1>1, <1>2, <1>4
    <2>3. x \in Nat /\ y \in Nat
      BY <1>3, <2>1
    <2> HIDE DEF x, y, a, b
    <2>4. k + a <= x /\ k + b <= y
      BY <1>1, <2>1, <2>2, <2>3
    <2> QED BY <1>4, <2>1, <2>2, <2>4 DEF RiskPart!Covered, x, y, w
  <1>5. CASE ~q.open
    <2> DEFINE x == v.shares.account
               y == v.shares.cluster
               a == RiskPart!SharesHeld(r, Clusters)
               b == RiskPart!SharesHeld(r, {w})
               m == q.quantity
    <2>1. /\ v.shares # None /\ v.shares.at >= r.watermark /\ x - a >= m /\ y - b >= m
      BY <1>5 DEF RiskPart!Accepts, RiskPart!Available, RiskPart!SharesSuffice, w
    <2>2. /\ RiskPart!SharesHeld(n, Clusters) = m + a /\ RiskPart!SharesHeld(n, {w}) = m + b
          /\ a \in Int /\ b \in Int /\ m \in Nat
      BY <1>1, <1>2, <1>5
    <2>3. x \in Nat /\ y \in Nat
      BY <1>3, <2>1
    <2> HIDE DEF x, y, a, b, m
    <2>4. m + a <= x /\ m + b <= y
      BY <2>1, <2>2, <2>3
    <2> QED BY <1>5, <2>1, <2>2, <2>4 DEF RiskPart!Covered, x, y, w
  <1> QED BY <1>4, <1>5

\* The fields a reservation moves.
LEMMA RiskReserveFields ==
  ASSUME RiskInvariant, NEW q \in Request, NEW o, RiskPart!Reserve(q, o),
         NEW h, h = [request |-> q, quantity |-> 0, notional |-> 0, state |-> "ACTIVE",
                     sent |-> FALSE, unknown |-> FALSE, acknowledged |-> FALSE,
                     cancelPending |-> FALSE, terminal |-> None]
  PROVE  /\ DOMAIN risk' = RiskFields /\ risk'.sequence = risk.sequence + 1
         /\ risk'.holds = RiskPart!With(risk.holds, o, h)
         /\ risk'.decisions = risk.decisions /\ risk'.kills = risk.kills
         /\ risk'.epoch = risk.epoch + 1 /\ risk'.watermark = risk.watermark
         /\ o \notin DOMAIN risk.holds /\ RiskHold(h)
         /\ q.id \in DOMAIN risk.decisions /\ risk.decisions[q.id].view \in Views
         /\ RiskPart!Accepts(risk, q, risk.decisions[q.id].view)
  <1> DEFINE n == RiskPart!AfterReserve(risk, q, o)
             H == RiskPart!With(risk.holds, o, h)
             e == risk.epoch + 1
  <1>1. DOMAIN risk = RiskFields
    BY DEF RiskInvariant, IsRisk
  <1>2. n = [risk EXCEPT !.epoch = e, !.holds = H] /\ RiskPart!Applied(n, q.open)
    BY DEF RiskPart!AfterReserve, RiskPart!Reserve
  <1> HIDE DEF n, H, e
  <1>3. /\ DOMAIN n = RiskFields /\ n.holds = H /\ n.kills = risk.kills
        /\ n.decisions = risk.decisions /\ n.sequence = risk.sequence /\ n.epoch = e
        /\ n.watermark = risk.watermark
    BY ONLY <1>1, <1>2 DEF RiskFields
  <1>4. /\ DOMAIN risk' = RiskFields /\ risk'.sequence = risk.sequence + 1
        /\ risk'.holds = H /\ risk'.decisions = risk.decisions /\ risk'.kills = risk.kills
        /\ risk'.epoch = e /\ risk'.watermark = risk.watermark
    BY <1>2, <1>3, RiskApplied
  <1>5. /\ o \notin DOMAIN risk.holds /\ q.id \in DOMAIN risk.decisions
        /\ RiskPart!StillAccepted(risk, q)
    BY DEF RiskPart!Reserve, RiskPart!MayReserve
  <1>6. RiskHold(h)
    BY RiskAssumption DEF RiskAssumption, RiskHold, RiskHoldFields
  <1>7. /\ risk.decisions[q.id].view \in Views
        /\ RiskPart!Accepts(risk, q, risk.decisions[q.id].view)
    BY <1>5 DEF RiskInvariant, IsRisk, DecisionsSound
  <1> QED BY <1>4, <1>5, <1>6, <1>7 DEF H, e

LEMMA RiskReserves ==
  ASSUME RiskInvariant, NEW q \in Request, NEW o, RiskPart!Reserve(q, o) PROVE RiskInvariant'
  <1> DEFINE h == [request |-> q, quantity |-> 0, notional |-> 0, state |-> "ACTIVE",
                   sent |-> FALSE, unknown |-> FALSE, acknowledged |-> FALSE,
                   cancelPending |-> FALSE, terminal |-> None]
  <1>1. /\ DOMAIN risk' = RiskFields /\ risk'.sequence = risk.sequence + 1
        /\ risk'.holds = RiskPart!With(risk.holds, o, h)
        /\ risk'.decisions = risk.decisions
        /\ risk'.epoch = risk.epoch + 1 /\ risk'.watermark = risk.watermark
        /\ o \notin DOMAIN risk.holds /\ RiskHold(h)
    <2>1. h = [request |-> q, quantity |-> 0, notional |-> 0, state |-> "ACTIVE",
               sent |-> FALSE, unknown |-> FALSE, acknowledged |-> FALSE,
               cancelPending |-> FALSE, terminal |-> None]
      OBVIOUS
    <2> HIDE DEF h
    <2> QED BY <2>1, RiskReserveFields
  <1> HIDE DEF h
  <1>2. IsRisk(risk)
    BY DEF RiskInvariant
  <1>3. RiskHolds(risk'.holds)
    BY <1>1, <1>2, RiskHoldAdds DEF IsRisk
  <1>4. IsRisk(risk')
    BY <1>1, <1>2, <1>3 DEF IsRisk
  <1>5. DecisionsSound(risk')
    BY <1>1, <1>2, EpochVoids
  <1> QED BY <1>4, <1>5, RiskAgain

\* What a report makes of a hold.
LEMMA ReportedHold ==
  ASSUME NEW h, RiskHold(h), NEW c \in Report,
         c.op = "FILL" => /\ c.quantity <= RiskPart!RemainingQuantity(h)
                          /\ c.notional <= RiskPart!RemainingNotional(h),
         NEW s, s = RiskPart!Reported(h, c)
  PROVE  RiskHold(s)
  <1>1. DOMAIN h = RiskHoldFields
    BY DEF RiskHold
  <1>2. /\ h.request \in Request /\ h.quantity \in Nat /\ h.notional \in Nat
        /\ h.quantity <= h.request.quantity /\ h.notional <= h.request.notional
        /\ h.request.quantity \in Nat /\ h.request.notional \in Nat
    BY RiskAssumption DEF RiskHold, RiskAssumption
  <1>3. CASE c.op = "FILL"
    <2> DEFINE k == h.quantity + c.quantity
               m == h.notional + c.notional
               f == [h EXCEPT !.sent = TRUE, !.quantity = k, !.notional = m]
    <2>0. f = RiskPart!Filled(h, c)
      BY DEF RiskPart!Filled
    <2>1. s = IF c.final THEN [f EXCEPT !.state = "CONSUMED", !.terminal = "FILLED"] ELSE f
      <3> HIDE DEF f
      <3> QED BY <1>3, <2>0 DEF RiskPart!Reported
    <2>2. c.quantity \in Nat /\ c.notional \in Nat
      BY <1>3, RiskAssumption DEF RiskAssumption
    <2>3. k \in Nat /\ m \in Nat /\ k <= h.request.quantity /\ m <= h.request.notional
      BY <1>2, <1>3, <2>2 DEF RiskPart!RemainingQuantity, RiskPart!RemainingNotional
    <2> HIDE DEF k, m
    <2>4. f = [h EXCEPT !.sent = TRUE, !.quantity = k, !.notional = m]
      OBVIOUS
    <2> HIDE DEF f
    <2>5. /\ DOMAIN f = RiskHoldFields /\ f.request = h.request /\ f.quantity = k
          /\ f.notional = m /\ f.state = h.state
      BY ONLY <1>1, <2>4 DEF RiskHoldFields
    <2>6. /\ DOMAIN s = RiskHoldFields /\ s.request = f.request /\ s.quantity = f.quantity
          /\ s.notional = f.notional /\ s.state = IF c.final THEN "CONSUMED" ELSE f.state
      BY ONLY <2>1, <2>5 DEF RiskHoldFields
    <2>7. RiskHold(s)
      BY <1>2, <2>3, <2>5, <2>6 DEF RiskHold
    <2> QED BY <2>7
  <1>4. CASE c.op = "TERMINAL"
    <2>1. s = [h EXCEPT !.state = "RELEASED", !.terminal = c.outcome]
      BY <1>4 DEF RiskPart!Reported
    <2>2. /\ DOMAIN s = RiskHoldFields /\ s.request = h.request /\ s.quantity = h.quantity
          /\ s.notional = h.notional /\ s.state = "RELEASED"
      BY ONLY <1>1, <2>1 DEF RiskHoldFields
    <2>3. RiskHold(s)
      BY <1>2, <2>2 DEF RiskHold
    <2> QED BY <2>3
  <1>5. CASE c.op = "STAGE"
    <2>1. \/ s = [h EXCEPT !.sent = TRUE]
          \/ s = [h EXCEPT !.sent = TRUE, !.unknown = TRUE]
          \/ s = [h EXCEPT !.sent = TRUE, !.acknowledged = TRUE, !.unknown = FALSE]
          \/ s = [h EXCEPT !.sent = TRUE, !.cancelPending = TRUE]
      BY <1>5, RiskAssumption DEF RiskPart!Reported, RiskPart!Staged, RiskAssumption
    <2>2. /\ DOMAIN s = RiskHoldFields /\ s.request = h.request /\ s.quantity = h.quantity
          /\ s.notional = h.notional /\ s.state = h.state
      BY ONLY <1>1, <2>1 DEF RiskHoldFields
    <2>3. RiskHold(s)
      BY <1>2, <2>2 DEF RiskHold
    <2> QED BY <2>3
  <1> QED BY <1>3, <1>4, <1>5, RiskAssumption DEF RiskAssumption

\* The fields a report moves.
LEMMA RiskReportFields ==
  ASSUME RiskInvariant, NEW c \in Report, RiskPart!Observe(c),
         NEW h, h = risk.holds[c.order], NEW s, s = RiskPart!Reported(h, c)
  PROVE  /\ DOMAIN risk' = RiskFields /\ risk'.sequence = risk.sequence + 1
         /\ risk'.holds = [risk.holds EXCEPT ![c.order] = s]
         /\ risk'.decisions = risk.decisions
         /\ risk'.epoch = risk.epoch + 1
         /\ risk'.watermark = IF c.op = "STAGE" THEN risk.watermark ELSE risk.sequence + 1
         /\ c.order \in DOMAIN risk.holds /\ RiskHold(h)
  <1> DEFINE m == risk.sequence + 1
             n == RiskPart!AfterReport(risk, c, m)
             o == c.order
             H == [risk.holds EXCEPT ![o] = s]
             e == risk.epoch + 1
             z == IF c.op = "STAGE" THEN risk.watermark ELSE m
             i == risk.aliases \cup RiskPart!Identities(c)
  <1>1. DOMAIN risk = RiskFields
    BY DEF RiskInvariant, IsRisk
  <1>2. n = [risk EXCEPT !.holds = H, !.watermark = z, !.aliases = i, !.epoch = e]
    BY <1>1 DEF RiskPart!AfterReport, RiskFields
  <1>3. RiskPart!Applied(n, FALSE)
    BY DEF RiskPart!Observe
  <1>4. o \in DOMAIN risk.holds
    BY DEF RiskPart!Observe, RiskPart!MayReport, RiskPart!Active
  <1>5. RiskHold(h)
    BY <1>4 DEF RiskInvariant, IsRisk, RiskHolds
  <1> HIDE DEF n, H, e, z, i
  <1>6. /\ DOMAIN n = RiskFields /\ n.holds = H /\ n.decisions = risk.decisions
        /\ n.sequence = risk.sequence /\ n.epoch = e /\ n.watermark = z
    BY ONLY <1>1, <1>2 DEF RiskFields
  <1>7. /\ DOMAIN risk' = RiskFields /\ risk'.sequence = risk.sequence + 1
        /\ risk'.holds = H /\ risk'.decisions = risk.decisions
        /\ risk'.epoch = e /\ risk'.watermark = z
    BY <1>3, <1>6, RiskApplied
  <1> QED BY <1>4, <1>5, <1>7 DEF H, e, z

LEMMA RiskObserves ==
  ASSUME RiskInvariant, NEW c \in Report, RiskPart!Observe(c) PROVE RiskInvariant'
  <1> DEFINE o == c.order
             h == risk.holds[o]
             s == RiskPart!Reported(h, c)
  <1>1. /\ DOMAIN risk' = RiskFields /\ risk'.sequence = risk.sequence + 1
        /\ risk'.holds = [risk.holds EXCEPT ![o] = s]
        /\ risk'.decisions = risk.decisions
        /\ risk'.epoch = risk.epoch + 1
        /\ risk'.watermark = IF c.op = "STAGE" THEN risk.watermark ELSE risk.sequence + 1
        /\ o \in DOMAIN risk.holds /\ RiskHold(h)
    BY RiskReportFields
  <1>2. c.op = "FILL" => /\ c.quantity <= RiskPart!RemainingQuantity(h)
                         /\ c.notional <= RiskPart!RemainingNotional(h)
    BY DEF RiskPart!Observe, RiskPart!MayReport
  <1> HIDE DEF h
  <1>3. RiskHold(s)
    BY <1>1, <1>2, ReportedHold
  <1> HIDE DEF s
  <1>4. IsRisk(risk) /\ RiskHolds(risk.holds)
    BY DEF RiskInvariant, IsRisk
  <1>5. /\ DOMAIN risk'.holds = DOMAIN risk.holds /\ risk'.holds[o] = s
        /\ \A i \in DOMAIN risk.holds : i # o => risk'.holds[i] = risk.holds[i]
    BY <1>1
  <1>6. RiskHolds(risk'.holds)
    BY <1>3, <1>4, <1>5 DEF RiskHolds
  <1>7. IsRisk(risk')
    BY <1>1, <1>4, <1>6 DEF IsRisk
  <1>8. DecisionsSound(risk')
    BY <1>1, <1>4, EpochVoids
  <1> QED BY <1>7, <1>8, RiskAgain

\* The fields a kill switch moves.
LEMMA RiskKillFields ==
  ASSUME RiskInvariant, NEW scope, NEW active \in BOOLEAN, RiskPart!Kill(scope, active)
  PROVE  /\ DOMAIN risk' = RiskFields /\ risk'.sequence = risk.sequence + 1
         /\ risk'.holds = risk.holds /\ risk'.decisions = risk.decisions
         /\ \/ risk'.epoch = risk.epoch /\ risk'.kills = risk.kills
            \/ risk'.epoch = risk.epoch + 1
         /\ risk'.watermark = risk.watermark
  <1> DEFINE K == IF active THEN risk.kills \cup {scope} ELSE risk.kills \ {scope}
             e == IF K = risk.kills THEN risk.epoch ELSE risk.epoch + 1
             n == RiskPart!AfterKill(risk, scope, active)
  <1>1. DOMAIN risk = RiskFields
    BY DEF RiskInvariant, IsRisk
  <1>2. n = [risk EXCEPT !.kills = K, !.epoch = e] /\ RiskPart!Applied(n, FALSE)
    <2>1. n = [risk EXCEPT !.kills = K, !.epoch = IF K = risk.kills THEN @ ELSE @ + 1]
      BY DEF RiskPart!AfterKill
    <2>2. RiskPart!Applied(n, FALSE)
      BY DEF RiskPart!Kill
    <2> HIDE DEF K, n
    <2>3. [risk EXCEPT !.kills = K, !.epoch = IF K = risk.kills THEN @ ELSE @ + 1]
            = [risk EXCEPT !.kills = K, !.epoch = e]
      OBVIOUS
    <2> QED BY <2>1, <2>2, <2>3
  <1>4. (e = risk.epoch /\ K = risk.kills) \/ e = risk.epoch + 1
    OBVIOUS
  <1> HIDE DEF n, K, e
  <1>5. /\ DOMAIN n = RiskFields /\ n.holds = risk.holds /\ n.decisions = risk.decisions
        /\ n.kills = K /\ n.sequence = risk.sequence /\ n.epoch = e /\ n.watermark = risk.watermark
    BY ONLY <1>1, <1>2 DEF RiskFields
  <1>6. /\ DOMAIN risk' = RiskFields /\ risk'.sequence = risk.sequence + 1
        /\ risk'.holds = risk.holds /\ risk'.decisions = risk.decisions /\ risk'.kills = K
        /\ risk'.epoch = e /\ risk'.watermark = risk.watermark
    BY <1>2, <1>5, RiskApplied
  <1> QED BY <1>4, <1>6

LEMMA RiskKills ==
  ASSUME RiskInvariant, NEW scope, NEW active \in BOOLEAN, RiskPart!Kill(scope, active)
  PROVE  RiskInvariant'
  <1>1. IsRisk(risk)
    BY DEF RiskInvariant
  <1>2. /\ DOMAIN risk' = RiskFields /\ risk'.sequence = risk.sequence + 1
        /\ risk'.holds = risk.holds /\ risk'.decisions = risk.decisions
        /\ \/ risk'.epoch = risk.epoch /\ risk'.kills = risk.kills
           \/ risk'.epoch = risk.epoch + 1
        /\ risk'.watermark = risk.watermark
    BY RiskKillFields
  <1>3. IsRisk(risk')
    BY <1>1, <1>2 DEF IsRisk
  <1>4. CASE risk'.epoch = risk.epoch + 1
    <2>1. DecisionsSound(risk')
      BY <1>1, <1>2, <1>4, EpochVoids
    <2> QED BY <1>3, <2>1, RiskAgain
  <1>5. CASE risk'.epoch = risk.epoch /\ risk'.kills = risk.kills
    <2>1. \A q, v : RiskPart!Accepts(risk', q, v) <=> RiskPart!Accepts(risk, q, v)
      BY <1>2, <1>5, RiskReads
    <2>2. \A q : RiskPart!StillAccepted(risk', q) <=> RiskPart!StillAccepted(risk, q)
      BY <1>2, <1>5 DEF RiskPart!StillAccepted
    <2>3. DecisionsSound(risk')
      BY <1>2, <2>1, <2>2 DEF RiskInvariant, DecisionsSound
    <2> QED BY <1>3, <2>3, RiskAgain
  <1> QED BY <1>2, <1>4, <1>5

LEMMA RiskInit == RiskPart!Init => RiskInvariant
  <1> SUFFICES ASSUME RiskPart!Init PROVE RiskInvariant
    OBVIOUS
  <1>1. risk = [holds |-> <<>>, decisions |-> <<>>, aliases |-> {}, kills |-> {},
                sequence |-> 0, epoch |-> 0, watermark |-> 0]
    BY DEF RiskPart!Init
  <1>2. /\ DOMAIN risk = RiskFields /\ risk.holds = <<>> /\ risk.decisions = <<>>
        /\ risk.sequence = 0 /\ risk.epoch = 0 /\ risk.watermark = 0
    BY <1>1 DEF RiskFields
  <1>3. DOMAIN risk.holds = {} /\ DOMAIN risk.decisions = {}
    BY <1>2
  <1>4. RiskHolds(risk.holds)
    BY <1>3, FS_EmptySet DEF RiskHolds
  <1>5. IsRisk(risk)
    BY <1>2, <1>3, <1>4 DEF IsRisk
  <1>6. DecisionsSound(risk)
    BY <1>3 DEF DecisionsSound
  <1> QED BY <1>5, <1>6 DEF RiskInvariant

LEMMA RiskNext == ASSUME RiskInvariant, [RiskPart!Next]_riskVars PROVE RiskInvariant'
  <1>1. ASSUME NEW q \in Request, NEW v \in Views, RiskPart!Evaluate(q, v) PROVE RiskInvariant'
    BY <1>1, RiskEvaluates
  <1>2. ASSUME NEW q \in Request, NEW o, RiskPart!Reserve(q, o) PROVE RiskInvariant'
    BY <1>2, RiskReserves
  <1>3. ASSUME NEW c \in Report, RiskPart!Observe(c) PROVE RiskInvariant'
    BY <1>3, RiskObserves
  <1>4. ASSUME NEW s, NEW active \in BOOLEAN, RiskPart!Kill(s, active) PROVE RiskInvariant'
    BY <1>4, RiskKills
  <1>5. CASE UNCHANGED riskVars
    BY <1>5, RiskAgain DEF riskVars, RiskInvariant
  <1> QED BY <1>1, <1>2, <1>3, <1>4, <1>5 DEF RiskPart!Next

LEMMA RiskCardinality == ASSUME NEW S PROVE RiskPart!Cardinality(S) = Cardinality(S)
  BY DEF RiskPart!Cardinality, Cardinality

\* With the new hold the enforced limits of its cluster are kept.
LEMMA LimitsKept ==
  ASSUME NEW r, RiskHolds(r.holds), NEW q \in Request, RiskPart!RulesPass(r, q),
         NEW o, o \notin DOMAIN r.holds, NEW h, RiskHold(h), h.request = q, h.notional = 0,
         h.state = "ACTIVE", NEW n, n.holds = RiskPart!With(r.holds, o, h),
         NEW rule \in Rule, rule.cluster = q.cluster, ~rule.observing
  PROVE  /\ rule.kind = "MAX_ACTIVE_ORDERS" =>
              RiskPart!Cardinality(RiskPart!InScope(n, rule)) <= rule.limit
         /\ rule.kind = "MAX_RESERVED_NOTIONAL" => RiskPart!NotionalHeld(n, rule) <= rule.limit
  <1> DEFINE A == RiskPart!InScope(r, rule)
             B == RiskPart!InScope(n, rule)
             u == [i \in A |-> RiskPart!RemainingNotional(r.holds[i])]
             v == [i \in B |-> RiskPart!RemainingNotional(n.holds[i])]
  <1>1. /\ DOMAIN n.holds = DOMAIN r.holds \cup {o} /\ n.holds[o] = h
        /\ \A i \in DOMAIN r.holds : n.holds[i] = r.holds[i]
    BY DEF RiskPart!With
  <1>2. B = A \cup {o} /\ o \notin A /\ A \subseteq DOMAIN r.holds
    BY <1>1 DEF RiskPart!InScope, RiskPart!Active
  <1>3. IsFiniteSet(A)
    BY <1>2, FS_Subset DEF RiskHolds
  <1>4. RiskPart!Amount(r, rule, q) <= rule.limit
    BY DEF RiskPart!RulesPass
  <1>5. ASSUME rule.kind = "MAX_ACTIVE_ORDERS"
        PROVE  RiskPart!Cardinality(B) <= rule.limit
    <2>1. Cardinality(B) = Cardinality(A) + 1
      BY <1>2, <1>3, FS_AddElement
    <2>2. RiskPart!Amount(r, rule, q) = Cardinality(A) + 1
      BY <1>5, RiskCardinality DEF RiskPart!Amount
    <2> QED BY <1>4, <2>1, <2>2, RiskCardinality
  <1>6. ASSUME rule.kind = "MAX_RESERVED_NOTIONAL"
        PROVE  RiskPart!NotionalHeld(n, rule) <= rule.limit
    <2>1. RiskPart!NotionalHeld(r, rule) = SumOver(u) /\ RiskPart!NotionalHeld(n, rule) = SumOver(v)
      BY RiskSumOf DEF RiskPart!NotionalHeld
    <2>2. RiskPart!Amount(r, rule, q) = SumOver(u) + q.notional
      BY <1>6, <2>1 DEF RiskPart!Amount
    <2>3. /\ DOMAIN v = B /\ DOMAIN u = A /\ o \in B /\ v[o] = RiskPart!RemainingNotional(h)
          /\ \A i \in A : v[i] = u[i]
      BY <1>1, <1>2
    <2>4. ASSUME NEW g, RiskHold(g) PROVE RiskPart!RemainingNotional(g) \in Int
      BY <2>4, RiskAssumption DEF RiskAssumption, RiskHold, RiskPart!RemainingNotional
    <2>5. \A i \in B : RiskHold(n.holds[i])
      BY <1>1, <1>2 DEF RiskHolds
    <2>6. IsFiniteSet(B) /\ \A i \in B : v[i] \in Int
      BY <1>2, <1>3, <2>4, <2>5, FS_AddElement
    <2>7. v[o] = q.notional /\ q.notional \in Int
      <3>1. q.notional \in Nat /\ RiskPart!RemainingNotional(h) = q.notional - 0
        BY RiskAssumption DEF RiskAssumption, RiskPart!RemainingNotional
      <3> QED BY <2>3, <3>1
    <2>8. Less(v, o) = u
      <3>1. B \ {o} = A
        BY <1>2
      <3>2. Less(v, o) = [i \in A |-> v[i]]
        BY <2>3, <3>1 DEF Less
      <3>3. u = [i \in A |-> u[i]]
        OBVIOUS
      <3> HIDE DEF u, v
      <3> QED BY <2>3, <3>2, <3>3
    <2> HIDE DEF u, v
    <2>9. Summable(v)
      BY <2>3, <2>6 DEF Summable
    <2>10. SumOver(v) = v[o] + SumOver(u) /\ Summable(u)
      BY <2>3, <2>8, <2>9, SumTakesOut
    <2>11. SumOver(u) \in Int
      BY <2>10, SumIsInteger
    <2>12. SumOver(v) = SumOver(u) + q.notional
      BY <2>7, <2>10, <2>11
    <2> QED BY <1>4, <2>1, <2>2, <2>12
  <1> QED BY <1>5, <1>6

LEMMA ReserveJustified ==
  ASSUME RiskInvariant, NEW q \in Request, NEW o, RiskPart!Reserve(q, o),
         NEW i \in DOMAIN risk'.holds \ DOMAIN risk.holds
  PROVE  RiskPart!Justified(risk', risk'.holds[i])
  <1> DEFINE h == [request |-> q, quantity |-> 0, notional |-> 0, state |-> "ACTIVE",
                   sent |-> FALSE, unknown |-> FALSE, acknowledged |-> FALSE,
                   cancelPending |-> FALSE, terminal |-> None]
             v == risk.decisions[q.id].view
  <1>1. /\ risk'.holds = RiskPart!With(risk.holds, o, h) /\ risk'.kills = risk.kills
        /\ risk'.decisions = risk.decisions /\ risk'.watermark = risk.watermark
        /\ o \notin DOMAIN risk.holds /\ RiskHold(h)
        /\ v \in Views /\ RiskPart!Accepts(risk, q, v)
    <2>1. h = [request |-> q, quantity |-> 0, notional |-> 0, state |-> "ACTIVE",
               sent |-> FALSE, unknown |-> FALSE, acknowledged |-> FALSE,
               cancelPending |-> FALSE, terminal |-> None]
      OBVIOUS
    <2> HIDE DEF h
    <2> QED BY <2>1, RiskReserveFields
  <1>2. h.request = q /\ h.quantity = 0 /\ h.notional = 0 /\ h.state = "ACTIVE"
    OBVIOUS
  <1> HIDE DEF h
  <1>3. i = o /\ risk'.holds[i] = h
    BY <1>1 DEF RiskPart!With
  <1>4. RiskHolds(risk.holds)
    BY DEF RiskInvariant, IsRisk
  <1>5. RiskPart!Covered(risk', h, v)
    BY <1>1, <1>2, <1>4, ReserveCovered
  <1>6. v = risk'.decisions[h.request.id].view
    BY <1>1, <1>2
  <1> HIDE DEF v
  <1>7. q.open => ~RiskPart!Killed(risk', q.cluster) /\ RiskPart!RulesPass(risk, q)
    BY <1>1 DEF RiskPart!Accepts, RiskPart!Killed
  <1>8. ASSUME q.open PROVE RiskPart!WithinLimits(risk', q.cluster)
    <2> SUFFICES ASSUME NEW rule \in Rule, rule.cluster = q.cluster, ~rule.observing
                 PROVE  /\ rule.kind = "MAX_ACTIVE_ORDERS" =>
                             RiskPart!Cardinality(RiskPart!InScope(risk', rule)) <= rule.limit
                        /\ rule.kind = "MAX_RESERVED_NOTIONAL" =>
                             RiskPart!NotionalHeld(risk', rule) <= rule.limit
      BY DEF RiskPart!WithinLimits
    <2> QED BY <1>1, <1>2, <1>4, <1>7, <1>8, LimitsKept
  <1> QED BY <1>2, <1>3, <1>5, <1>6, <1>7, <1>8 DEF RiskPart!Justified

\* No other command gives an order a hold.
LEMMA RiskJustifies ==
  ASSUME RiskInvariant, [RiskPart!Next]_riskVars,
         NEW i \in DOMAIN risk'.holds \ DOMAIN risk.holds
  PROVE  RiskPart!Justified(risk', risk'.holds[i])
  <1>0. DOMAIN risk = RiskFields
    BY DEF RiskInvariant, IsRisk
  <1>1. CASE UNCHANGED riskVars
    BY <1>1 DEF riskVars
  <1>2. ASSUME NEW q \in Request, NEW v \in Views, RiskPart!Evaluate(q, v) PROVE FALSE
    BY <1>0, <1>2, RiskEvaluateFields
  <1>3. ASSUME NEW q \in Request, NEW o, RiskPart!Reserve(q, o)
        PROVE  RiskPart!Justified(risk', risk'.holds[i])
    BY <1>3, ReserveJustified
  <1>4. ASSUME NEW c \in Report, RiskPart!Observe(c) PROVE FALSE
    <2>1. risk'.holds = [risk.holds EXCEPT ![c.order]
                           = RiskPart!Reported(risk.holds[c.order], c)]
      BY <1>4, RiskReportFields
    <2> QED BY <2>1
  <1>5. ASSUME NEW s, NEW active \in BOOLEAN, RiskPart!Kill(s, active) PROVE FALSE
    BY <1>5, RiskKillFields
  <1> QED BY <1>1, <1>2, <1>3, <1>4, <1>5 DEF RiskPart!Next

\* A step of the Runtime's parts is a step of the risk authority or leaves it alone.
LEMMA RiskMoves == [KernelNext]_kernelVars => [RiskPart!Next]_riskVars
  BY DEF KernelNext, kernelVars, Others

\* In every state no hold has filled more than was asked for, a decision keeps the views
\* it was made with, and every acceptance of the current epoch would be given again for
\* those views: the same kill switches, limits and holds, and no fill or terminal report
\* that overtook them (src/crates/risk/src/manager.rs, envelope and advance_epoch;
\* pipeline.rs, evaluate; reservation.rs, reserve and transition).
THEOREM RiskSound == KernelSpec => []RiskInvariant
  <1>1. KernelInit => RiskInvariant
    BY RiskInit DEF KernelInit
  <1>2. RiskInvariant /\ [KernelNext]_kernelVars => RiskInvariant'
    BY RiskMoves, RiskNext
  <1> QED BY <1>1, <1>2, PTL DEF KernelSpec

\* Whenever an order gets its hold, no kill switch forbids it, the enforced limits of
\* its cluster are kept with it, and the views its request was judged by, which no fill
\* or terminal report has overtaken, have enough for it and for all other holds, whatever
\* came between the evaluation and the reservation
\* (src/crates/risk/src/pipeline.rs, evaluate; reservation.rs, reserve).
THEOREM AdmissionsSound == KernelSpec => AdmissionSound
  <1>1. RiskInvariant /\ [KernelNext]_kernelVars
          => [\A o \in DOMAIN risk'.holds \ DOMAIN risk.holds :
                RiskPart!Justified(risk', risk'.holds[o])]_RiskPart!vars
    BY RiskMoves, RiskJustifies
  <1> QED BY <1>1, RiskSound, PTL DEF KernelSpec, AdmissionSound, RiskPart!AdmissionSound
=============================================================================
