------------------------- MODULE OrderManagerProofs -------------------------
(* Theorems about OrderManager, for any requests, commands and capacities. *)
EXTENDS OrderManager, SequenceTheorems, FiniteSetTheorems, WellFoundedInduction, TLAPS

\* What every order of the manager satisfies.
EntityInv(o) ==
  /\ o \in Entity
  /\ o.filled \in 0..o.request.quantity
  /\ SoundlyDispatched(o)
  /\ ValidSnapshot(o)

\* What a step makes of an order.
EntityStep(o, n) == EntityInv(n) /\ Advances(o, n) /\ StaysSubmitted(o, n)

\* What the stamp at the end of apply changes in an entity and what it keeps.
LEMMA StampedFields ==
  ASSUME NEW e \in Entity, NEW c \in Command
  PROVE  LET n == Stamped(e, c) IN
         /\ n \in Entity
         /\ n.request = e.request /\ n.status = e.status /\ n.filled = e.filled
         /\ n.fill_count = e.fill_count /\ n.last_trade = e.last_trade /\ n.fee = e.fee
         /\ n.submitted = e.submitted /\ n.reason = e.reason
         /\ n.outcome = IF c.op \in External THEN "RESOLVED" ELSE e.outcome
         /\ n.venue = IF ReportVenue(c) = None THEN e.venue ELSE c.venue
         /\ n.last_external_sequence =
              IF c.op \in External /\ c.sequence # None THEN c.sequence ELSE e.last_external_sequence
  <1> DEFINE v == IF ReportVenue(c) = None THEN e.venue ELSE c.venue
             s == IF c.op \in External /\ c.sequence # None THEN c.sequence ELSE e.last_external_sequence
             r == IF c.op \in External THEN "RESOLVED" ELSE e.outcome
             u == Later(e.updated_at, c.at)
  <1>1. v \in {d.venue : d \in {x \in Command : x.op \in {"ACCEPT", "FILL"}}} \cup {None}
    BY DEF Entity, ReportVenue
  <1>2. s \in Nat \cup {None}
    BY CommandAssumption DEF Entity
  <1>3. r \in Outcome
    BY DEF Entity, Outcome
  <1>4. u \in Nat /\ e.version + 1 \in Nat
    BY CommandAssumption DEF Entity, Later
  <1>5. Stamped(e, c) = [e EXCEPT !.venue = v, !.last_external_sequence = s, !.outcome = r,
                                  !.updated_at = u, !.version = e.version + 1]
    BY DEF Stamped
  <1> HIDE DEF v, s, r, u
  <1>6. Stamped(e, c) \in Entity
    BY <1>1, <1>2, <1>3, <1>4, <1>5 DEF Entity
  <1>7. LET n == Stamped(e, c) IN
         /\ n.request = e.request /\ n.status = e.status /\ n.filled = e.filled
         /\ n.fill_count = e.fill_count /\ n.last_trade = e.last_trade /\ n.fee = e.fee
         /\ n.submitted = e.submitted /\ n.reason = e.reason
         /\ n.outcome = r /\ n.venue = v /\ n.last_external_sequence = s
    BY <1>5 DEF Entity
  <1> QED BY <1>6, <1>7 DEF r, v, s

\* The stamp of a local command keeps everything an EntityStep is about.
LEMMA LocalStamp ==
  ASSUME NEW o, NEW e, NEW c \in Command, EntityStep(o, e), c.op \in LocalOp
  PROVE  EntityStep(o, Stamped(e, c))
  <1> DEFINE n == Stamped(e, c)
  <1>1. e \in Entity /\ c.op \notin External /\ ReportVenue(c) = None
    BY DEF EntityStep, EntityInv, LocalOp, External, ReportVenue
  <1>2. /\ n \in Entity
        /\ n.request = e.request /\ n.status = e.status /\ n.filled = e.filled
        /\ n.fill_count = e.fill_count /\ n.last_trade = e.last_trade /\ n.fee = e.fee
        /\ n.submitted = e.submitted /\ n.reason = e.reason
        /\ n.outcome = e.outcome /\ n.venue = e.venue
        /\ n.last_external_sequence = e.last_external_sequence
    BY <1>1, StampedFields
  <1> HIDE DEF n
  <1>3. EntityInv(n)
    BY <1>2 DEF EntityStep, EntityInv, SoundlyDispatched, ValidSnapshot, NeverDispatched
  <1>4. Advances(o, n) /\ StaysSubmitted(o, n)
    BY <1>2 DEF EntityStep, Advances, StaysSubmitted, NeverDispatched
  <1> QED BY <1>3, <1>4 DEF EntityStep, n

\* The stamp of a venue report resolves the outcome of an order that was
\* submitted, and moves its report sequence forward.
LEMMA ReportStamp ==
  ASSUME NEW c \in Command, c.op \in External, Screen(c) = "Applied", EntityInv(Order(c)),
         NEW e \in Entity,
         e.request = Order(c).request, e.filled \in 0..e.request.quantity, ValidSnapshot(e),
         e.submitted = Order(c).submitted, e.fee = Order(c).fee, e.status # "Created",
         e.last_external_sequence = Order(c).last_external_sequence,
         Rank(Order(c).status) <= Rank(e.status),
         Rank(Order(c).status) = Rank(e.status) => Order(c).status = e.status,
         Order(c).filled <= e.filled,
         Order(c).status \in Closed => Order(c).filled = e.filled /\ Order(c).reason = e.reason
  PROVE  EntityStep(Order(c), Stamped(e, c))
  <1> DEFINE n == Stamped(e, c)
             o == Order(c)
  <1>1. /\ n \in Entity
        /\ n.request = e.request /\ n.status = e.status /\ n.filled = e.filled
        /\ n.fill_count = e.fill_count /\ n.last_trade = e.last_trade /\ n.fee = e.fee
        /\ n.submitted = e.submitted /\ n.reason = e.reason
        /\ n.outcome = "RESOLVED"
        /\ n.last_external_sequence = IF c.sequence # None THEN c.sequence ELSE o.last_external_sequence
    BY StampedFields
  <1>2. ~NeverDispatched(o)
    BY DEF Screen
  <1>3. o.submitted /\ o.fee # None
    BY <1>2 DEF EntityInv, SoundlyDispatched
  <1>4. None \notin {o.last_external_sequence, c.sequence} => o.last_external_sequence <= c.sequence
    <2>1. o.last_external_sequence \in Nat \cup {None} /\ c.sequence \in Nat \cup {None}
      BY CommandAssumption DEF EntityInv, Entity
    <2>2. None \notin {o.last_external_sequence, c.sequence} => ~ (c.sequence < o.last_external_sequence)
      BY DEF Screen
    <2> QED BY <2>1, <2>2
  <1>5. o.last_external_sequence # None =>
          /\ n.last_external_sequence # None
          /\ o.last_external_sequence <= n.last_external_sequence
    <2>1. o.last_external_sequence \in Nat \cup {None}
      BY DEF EntityInv, Entity
    <2> QED BY <1>1, <1>4, <2>1
  <1> HIDE DEF n, o
  <1>6. EntityInv(n)
    BY <1>1, <1>3 DEF EntityInv, SoundlyDispatched, ValidSnapshot, NeverDispatched, o
  <1>7. Advances(o, n) /\ StaysSubmitted(o, n)
    BY <1>1, <1>3, <1>5 DEF Advances, StaysSubmitted, NeverDispatched, o
  <1> QED BY <1>6, <1>7 DEF EntityStep, n, o

\* An order that a step leaves alone.
LEMMA EntityStutter ==
  ASSUME NEW o, EntityInv(o)
  PROVE  EntityStep(o, o)
  <1>1. o.filled \in Nat /\ o.last_external_sequence \in Nat \cup {None} /\ Rank(o.status) \in Nat
    BY DEF EntityInv, Entity, Rank
  <1>2. Advances(o, o)
    BY <1>1 DEF Advances
  <1>3. StaysSubmitted(o, o)
    BY DEF StaysSubmitted, EntityInv, SoundlyDispatched
  <1> QED BY <1>2, <1>3 DEF EntityStep

-----------------------------------------------------------------------------
(* One lemma per kind of command *)

\* Local commands: what the verdict demands is enough for the change made.
LEMMA LocalCommandStep ==
  ASSUME NEW c \in Command, EntityInv(Order(c)), Verdict(c) = "Applied",
         NEW e,
         \/ c.op = "FEE" /\ e = [Order(c) EXCEPT !.fee = c.body]
         \/ /\ c.op = "BEGIN_SUBMIT"
            /\ e = [Order(c) EXCEPT !.status = "Submitted", !.submitted = TRUE, !.outcome = "DISPATCHING"]
         \/ /\ c.op = "SUBMIT_RESULT"
            /\ e = IF c.body = "SUPPRESSED"
                   THEN [Order(c) EXCEPT !.outcome = c.body, !.status = "Failed", !.reason = c.body]
                   ELSE [Order(c) EXCEPT !.outcome = c.body]
         \/ c.op = "RECONCILE" /\ e = [Order(c) EXCEPT !.outcome = "RECONCILING"]
         \/ c.op = "CANCEL" /\ e = [Order(c) EXCEPT !.status = "PendingCancel"]
         \/ /\ c.op = "FAIL"
            /\ e = [Order(c) EXCEPT !.status = "Failed", !.reason = c.body, !.outcome = "SUPPRESSED"]
  PROVE  EntityStep(Order(c), Stamped(e, c))
  <1> DEFINE o == Order(c)
  <1>0. o \in Entity /\ SoundlyDispatched(o) /\ ValidSnapshot(o) /\ o.filled \in 0..o.request.quantity
    BY DEF EntityInv
  <1>1. o.request.quantity \in Nat \ {0} /\ o.filled \in Nat /\ o.last_external_sequence \in Nat \cup {None}
    BY <1>0, CommandAssumption DEF Entity
  <1>2. c.op \in LocalOp
    BY DEF LocalOp
  <1>3. c.op \notin External /\ OpVerdict(o, c) = "Applied"
    BY <1>2 DEF Verdict, LocalOp, External
  <1> HIDE DEF o
  <1> USE DEF EntityStep, EntityInv
  <1>4. EntityStep(o, e)
    <2>1. CASE c.op = "FEE"
      <3>1. FeeVerdict(o, c) = "Applied" /\ e = [o EXCEPT !.fee = c.body]
        BY <1>3, <2>1 DEF OpVerdict, o
      <3>2. Undispatched(o) /\ c.body # None
        BY <3>1, <2>1, CommandAssumption DEF FeeVerdict
      <3>3. /\ e \in Entity /\ e.request = o.request /\ e.status = o.status /\ e.outcome = o.outcome
            /\ e.filled = o.filled /\ e.fill_count = o.fill_count /\ e.last_trade = o.last_trade
            /\ e.venue = o.venue /\ e.submitted = o.submitted /\ e.fee = c.body /\ e.reason = o.reason
            /\ e.last_external_sequence = o.last_external_sequence
        BY <1>0, <2>1, <3>1 DEF Entity
      <3>4. SoundlyDispatched(e) /\ ValidSnapshot(e) /\ e.filled \in 0..e.request.quantity
        BY <1>0, <3>2, <3>3 DEF SoundlyDispatched, ValidSnapshot, NeverDispatched, Undispatched
      <3>5. Advances(o, e) /\ StaysSubmitted(o, e)
        BY <1>0, <1>1, <3>2, <3>3 DEF Advances, StaysSubmitted, SoundlyDispatched, NeverDispatched, Undispatched, Rank
      <3> QED BY <3>3, <3>4, <3>5
    <2>2. CASE c.op = "BEGIN_SUBMIT"
      <3>1. /\ BeginSubmitVerdict(o, c) = "Applied"
            /\ e = [o EXCEPT !.status = "Submitted", !.submitted = TRUE, !.outcome = "DISPATCHING"]
        BY <1>3, <2>2 DEF OpVerdict, o
      <3>2. Undispatched(o) /\ o.fee # None
        BY <3>1 DEF BeginSubmitVerdict
      <3>3. /\ e \in Entity /\ e.request = o.request /\ e.status = "Submitted" /\ e.outcome = "DISPATCHING"
            /\ e.filled = o.filled /\ e.fill_count = o.fill_count /\ e.last_trade = o.last_trade
            /\ e.venue = o.venue /\ e.submitted = TRUE /\ e.fee = o.fee /\ e.reason = o.reason
            /\ e.last_external_sequence = o.last_external_sequence
        BY <1>0, <3>1 DEF Entity, Status, IsOpen, Working, Outcome
      <3>4. SoundlyDispatched(e) /\ ValidSnapshot(e) /\ e.filled \in 0..e.request.quantity
        BY <1>0, <1>1, <3>2, <3>3 DEF SoundlyDispatched, ValidSnapshot, NeverDispatched, Undispatched, Closed
      <3>5. Advances(o, e) /\ StaysSubmitted(o, e)
        BY <1>0, <1>1, <3>2, <3>3 DEF Advances, StaysSubmitted, SoundlyDispatched, NeverDispatched, Undispatched, Rank, Closed
      <3> QED BY <3>3, <3>4, <3>5
    <2>3. CASE c.op = "SUBMIT_RESULT" /\ c.body = "SUPPRESSED"
      <3>1. /\ SubmitResultVerdict(o, c) = "Applied"
            /\ e = [o EXCEPT !.outcome = c.body, !.status = "Failed", !.reason = c.body]
        BY <1>3, <2>3 DEF OpVerdict, o
      <3>2. o.outcome = "NOT_DISPATCHED"
        BY <2>3, <3>1 DEF SubmitResultVerdict
      <3>3. /\ e \in Entity /\ e.request = o.request /\ e.status = "Failed" /\ e.outcome = "SUPPRESSED"
            /\ e.filled = o.filled /\ e.fill_count = o.fill_count /\ e.last_trade = o.last_trade
            /\ e.venue = o.venue /\ e.submitted = o.submitted /\ e.fee = o.fee
            /\ e.last_external_sequence = o.last_external_sequence
        BY <1>0, <2>3, <3>1 DEF Entity, Status, Closed, Outcome
      <3>4. SoundlyDispatched(e) /\ ValidSnapshot(e) /\ e.filled \in 0..e.request.quantity
        BY <1>0, <1>1, <3>2, <3>3 DEF SoundlyDispatched, ValidSnapshot, NeverDispatched, Closed
      <3>5. Advances(o, e) /\ StaysSubmitted(o, e)
        BY <1>0, <1>1, <3>2, <3>3 DEF Advances, StaysSubmitted, SoundlyDispatched, NeverDispatched, Rank, Closed
      <3> QED BY <3>3, <3>4, <3>5
    <2>4. CASE c.op = "SUBMIT_RESULT" /\ c.body # "SUPPRESSED"
      <3>1. SubmitResultVerdict(o, c) = "Applied" /\ e = [o EXCEPT !.outcome = c.body]
        BY <1>3, <2>4 DEF OpVerdict, o
      <3>2. o.outcome = "DISPATCHING" /\ c.body \in {"KNOWN_RESULT", "UNKNOWN"}
        BY <2>4, <3>1 DEF SubmitResultVerdict
      <3>3. /\ e \in Entity /\ e.request = o.request /\ e.status = o.status /\ e.outcome = c.body
            /\ e.filled = o.filled /\ e.fill_count = o.fill_count /\ e.last_trade = o.last_trade
            /\ e.venue = o.venue /\ e.submitted = o.submitted /\ e.fee = o.fee /\ e.reason = o.reason
            /\ e.last_external_sequence = o.last_external_sequence
        BY <1>0, <3>1, <3>2 DEF Entity, Outcome
      <3>4. SoundlyDispatched(e) /\ ValidSnapshot(e) /\ e.filled \in 0..e.request.quantity
        BY <1>0, <1>1, <3>2, <3>3 DEF SoundlyDispatched, ValidSnapshot, NeverDispatched, Closed
      <3>5. Advances(o, e) /\ StaysSubmitted(o, e)
        BY <1>0, <1>1, <3>2, <3>3 DEF Advances, StaysSubmitted, SoundlyDispatched, NeverDispatched, Rank, Closed
      <3> QED BY <3>3, <3>4, <3>5
    <2>5. CASE c.op = "RECONCILE"
      <3>1. ReconcileVerdict(o, c) = "Applied" /\ e = [o EXCEPT !.outcome = "RECONCILING"]
        BY <1>3, <2>5 DEF OpVerdict, o
      <3>2. o.outcome = "UNKNOWN"
        BY <3>1 DEF ReconcileVerdict
      <3>3. /\ e \in Entity /\ e.request = o.request /\ e.status = o.status /\ e.outcome = "RECONCILING"
            /\ e.filled = o.filled /\ e.fill_count = o.fill_count /\ e.last_trade = o.last_trade
            /\ e.venue = o.venue /\ e.submitted = o.submitted /\ e.fee = o.fee /\ e.reason = o.reason
            /\ e.last_external_sequence = o.last_external_sequence
        BY <1>0, <3>1 DEF Entity, Outcome
      <3>4. SoundlyDispatched(e) /\ ValidSnapshot(e) /\ e.filled \in 0..e.request.quantity
        BY <1>0, <1>1, <3>2, <3>3 DEF SoundlyDispatched, ValidSnapshot, NeverDispatched, Closed
      <3>5. Advances(o, e) /\ StaysSubmitted(o, e)
        BY <1>0, <1>1, <3>2, <3>3 DEF Advances, StaysSubmitted, SoundlyDispatched, NeverDispatched, Rank, Closed
      <3> QED BY <3>3, <3>4, <3>5
    <2>6. CASE c.op = "CANCEL"
      <3>1. CancelVerdict(o, c) = "Applied" /\ e = [o EXCEPT !.status = "PendingCancel"]
        BY <1>3, <2>6 DEF OpVerdict, o
      <3>2. o.status \in {"Submitted", "Accepted", "PartiallyFilled"}
        BY <3>1 DEF CancelVerdict
      <3>3. /\ e \in Entity /\ e.request = o.request /\ e.status = "PendingCancel" /\ e.outcome = o.outcome
            /\ e.filled = o.filled /\ e.fill_count = o.fill_count /\ e.last_trade = o.last_trade
            /\ e.venue = o.venue /\ e.submitted = o.submitted /\ e.fee = o.fee /\ e.reason = o.reason
            /\ e.last_external_sequence = o.last_external_sequence
        BY <1>0, <3>1 DEF Entity, Status, IsOpen, Working
      <3>4. SoundlyDispatched(e) /\ ValidSnapshot(e) /\ e.filled \in 0..e.request.quantity
        BY <1>0, <1>1, <3>2, <3>3 DEF SoundlyDispatched, ValidSnapshot, NeverDispatched, Closed
      <3>5. Advances(o, e) /\ StaysSubmitted(o, e)
        BY <1>0, <1>1, <3>2, <3>3 DEF Advances, StaysSubmitted, SoundlyDispatched, NeverDispatched, Rank, Closed
      <3> QED BY <3>3, <3>4, <3>5
    <2>7. CASE c.op = "FAIL"
      <3>1. /\ FailVerdict(o, c) = "Applied"
            /\ e = [o EXCEPT !.status = "Failed", !.reason = c.body, !.outcome = "SUPPRESSED"]
        BY <1>3, <2>7 DEF OpVerdict, o
      <3>2. Undispatched(o)
        BY <3>1 DEF FailVerdict
      <3>3. /\ e \in Entity /\ e.request = o.request /\ e.status = "Failed" /\ e.outcome = "SUPPRESSED"
            /\ e.filled = o.filled /\ e.fill_count = o.fill_count /\ e.last_trade = o.last_trade
            /\ e.venue = o.venue /\ e.submitted = o.submitted /\ e.fee = o.fee
            /\ e.last_external_sequence = o.last_external_sequence
        BY <1>0, <2>7, <3>1 DEF Entity, Status, Closed, Outcome
      <3>4. SoundlyDispatched(e) /\ ValidSnapshot(e) /\ e.filled \in 0..e.request.quantity
        BY <1>0, <1>1, <3>2, <3>3 DEF SoundlyDispatched, ValidSnapshot, NeverDispatched, Undispatched, Closed
      <3>5. Advances(o, e) /\ StaysSubmitted(o, e)
        BY <1>0, <1>1, <3>2, <3>3 DEF Advances, StaysSubmitted, SoundlyDispatched, NeverDispatched, Undispatched, Rank, Closed
      <3> QED BY <3>3, <3>4, <3>5
    <2> QED BY <2>1, <2>2, <2>3, <2>4, <2>5, <2>6, <2>7
  <1> QED BY <1>2, <1>4, LocalStamp DEF o

\* Venue reports.
LEMMA ReportStep ==
  ASSUME NEW c \in Command, EntityInv(Order(c)), Verdict(c) = "Applied",
         NEW e,
         \/ c.op = "ACCEPT" /\ e = [Order(c) EXCEPT !.status = IF @ = "Submitted" THEN "Accepted" ELSE @]
         \/ c.op = "FILL" /\ e = Filled(Order(c), c)
         \/ /\ c.op \in {"CANCELLED", "REJECTED", "EXPIRED", "FAILED"}
            /\ e = [Order(c) EXCEPT !.status = Target(c),
                                    !.reason = IF c.op \in {"REJECTED", "FAILED"} THEN c.body ELSE @]
  PROVE  EntityStep(Order(c), Stamped(e, c))
  <1> DEFINE o == Order(c)
  <1>0. o \in Entity /\ SoundlyDispatched(o) /\ ValidSnapshot(o) /\ o.filled \in 0..o.request.quantity
    BY DEF EntityInv
  <1>1. /\ o.request.quantity \in Nat \ {0} /\ o.filled \in Nat /\ o.fill_count \in Nat
        /\ o.last_external_sequence \in Nat \cup {None} /\ o.status \in Status
    BY <1>0, CommandAssumption DEF Entity
  <1>2. c.op \in External
    BY DEF External
  <1>3. Screen(c) = "Applied" /\ OpVerdict(o, c) = "Applied"
    BY <1>2 DEF Verdict
  <1>4. ~NeverDispatched(o) /\ o.status # "Created"
    BY <1>0, <1>3 DEF Screen, SoundlyDispatched, NeverDispatched
  <1> HIDE DEF o
  <1>5. /\ e \in Entity /\ e.request = o.request /\ e.filled \in 0..e.request.quantity
        /\ ValidSnapshot(e) /\ e.submitted = o.submitted /\ e.fee = o.fee /\ e.status # "Created"
        /\ e.last_external_sequence = o.last_external_sequence
        /\ Rank(o.status) <= Rank(e.status)
        /\ Rank(o.status) = Rank(e.status) => o.status = e.status
        /\ o.filled <= e.filled
        /\ o.status \in Closed => o.filled = e.filled /\ o.reason = e.reason
    <2>1. CASE c.op = "ACCEPT"
      <3>1. e = [o EXCEPT !.status = IF o.status = "Submitted" THEN "Accepted" ELSE o.status]
        BY <2>1 DEF o
      <3>2. /\ e \in Entity /\ e.request = o.request
            /\ e.status = IF o.status = "Submitted" THEN "Accepted" ELSE o.status
            /\ e.filled = o.filled /\ e.fill_count = o.fill_count /\ e.last_trade = o.last_trade
            /\ e.submitted = o.submitted /\ e.fee = o.fee /\ e.reason = o.reason
            /\ e.last_external_sequence = o.last_external_sequence
        BY <1>0, <1>1, <3>1 DEF Entity, Status, IsOpen, Working
      <3> QED BY <1>0, <1>1, <1>4, <3>2 DEF ValidSnapshot, Rank
    <2>2. CASE c.op = "FILL"
      <3>1. FillVerdict(o, c) = "Applied" /\ e = Filled(o, c) /\ c.quantity \in Nat \ {0}
        BY <1>3, <2>2, CommandAssumption DEF OpVerdict, o
      <3>2. o.status \in Working /\ o.filled + c.quantity <= o.request.quantity
        BY <3>1 DEF FillVerdict
      <3> DEFINE st == IF o.filled + c.quantity = o.request.quantity THEN "Filled"
                       ELSE IF o.status = "PendingCancel" THEN o.status ELSE "PartiallyFilled"
      <3>3. e = [o EXCEPT !.filled = o.filled + c.quantity, !.fill_count = o.fill_count + 1,
                          !.last_trade = c.trade, !.status = st]
        BY <3>1 DEF Filled
      <3>4. st \in Status /\ o.filled + c.quantity \in Nat /\ o.fill_count + 1 \in Nat
        BY <1>1, <3>1 DEF Status, IsOpen, Working, Closed
      <3>5. c.trade \in {d.trade : d \in {x \in Command : x.op = "FILL"}} \cup {None}
        BY <2>2
      <3> HIDE DEF st
      <3>6. /\ e \in Entity /\ e.request = o.request /\ e.status = st
            /\ e.filled = o.filled + c.quantity /\ e.fill_count = o.fill_count + 1 /\ e.last_trade = c.trade
            /\ e.submitted = o.submitted /\ e.fee = o.fee /\ e.reason = o.reason
            /\ e.last_external_sequence = o.last_external_sequence
        BY <1>0, <3>3, <3>4, <3>5 DEF Entity
      <3>7. c.trade # None
        BY <2>2, CommandAssumption
      <3>8. ValidSnapshot(e)
        BY <1>1, <3>1, <3>2, <3>6, <3>7 DEF ValidSnapshot, st, Working
      <3>9. /\ Rank(o.status) <= Rank(e.status)
            /\ Rank(o.status) = Rank(e.status) => o.status = e.status
            /\ e.status # "Created" /\ o.status \notin Closed
        BY <3>2, <3>6 DEF Rank, st, Working, Closed
      <3> QED BY <1>1, <3>1, <3>2, <3>6, <3>8, <3>9
    <2>3. CASE c.op \in {"CANCELLED", "REJECTED", "EXPIRED", "FAILED"}
      <3>1. TerminalVerdict(o, c) = "Applied"
        BY <1>3, <2>3 DEF OpVerdict
      <3>2. o.status \in Working /\ o.status # "Filled"
        BY <3>1 DEF TerminalVerdict, Working
      <3>3. Target(c) \in {"Cancelled", "Rejected", "Expired", "Failed"}
        BY <2>3 DEF Target
      <3> DEFINE re == IF c.op \in {"REJECTED", "FAILED"} THEN c.body ELSE o.reason
      <3>4. e = [o EXCEPT !.status = Target(c), !.reason = re]
        BY <2>3 DEF o
      <3>5. re \in {d.body : d \in {x \in Command : x.op \in {"SUBMIT_RESULT", "FAIL", "REJECTED", "FAILED"}}} \cup {None}
        BY <1>0 DEF Entity
      <3> HIDE DEF re
      <3>6. /\ e \in Entity /\ e.request = o.request /\ e.status = Target(c)
            /\ e.filled = o.filled /\ e.fill_count = o.fill_count /\ e.last_trade = o.last_trade
            /\ e.submitted = o.submitted /\ e.fee = o.fee
            /\ e.last_external_sequence = o.last_external_sequence
        BY <1>0, <3>3, <3>4, <3>5 DEF Entity, Status, Closed
      <3>7. ValidSnapshot(e)
        BY <1>0, <3>2, <3>3, <3>6 DEF ValidSnapshot
      <3> QED BY <1>0, <1>1, <3>2, <3>3, <3>6, <3>7 DEF Rank, Working, Closed
    <2> QED BY <2>1, <2>2, <2>3
  <1> QED BY <1>2, <1>3, <1>5, ReportStamp DEF o

-----------------------------------------------------------------------------
(* The theorems *)

OrdersInv == orders \in Seq(Entity) /\ sequence \in Nat /\ \A i \in Positions : EntityInv(orders[i])

\* A command changes one order, by an EntityStep.
LEMMA ApplyStep ==
  ASSUME OrdersInv, NEW c \in Command, Apply(c)
  PROVE  /\ c.order \in Positions
         /\ \E n : EntityStep(Order(c), n) /\ orders' = [orders EXCEPT ![c.order] = n]
         /\ sequence' = sequence + 1
  <1>1. c.order \in Positions /\ Verdict(c) = "Applied" /\ EntityInv(Order(c))
    BY DEF Apply, WellScoped, Positions, OrdersInv, Order
  <1>2. ASSUME NEW e, Commit(c, e), EntityStep(Order(c), Stamped(e, c))
        PROVE  /\ \E n : EntityStep(Order(c), n) /\ orders' = [orders EXCEPT ![c.order] = n]
               /\ sequence' = sequence + 1
    BY <1>2 DEF Commit
  <1>3. CASE Fee(c) \/ BeginSubmit(c) \/ SubmitResult(c) \/ Reconcile(c) \/ Cancel(c) \/ Fail(c)
    BY <1>1, <1>2, <1>3, LocalCommandStep DEF Fee, BeginSubmit, SubmitResult, Reconcile, Cancel, Fail
  <1>4. CASE Accept(c) \/ Fill(c) \/ Terminate(c)
    BY <1>1, <1>2, <1>4, ReportStep DEF Accept, Fill, Terminate
  <1> QED BY <1>1, <1>3, <1>4 DEF Apply

\* A new order is sound.
LEMMA CreateStep ==
  ASSUME OrdersInv, NEW r \in Request, NEW at \in Time, Create(r, at)
  PROVE  \E n : EntityInv(n) /\ orders' = Append(orders, n)
  <1> DEFINE n == [request |-> r, status |-> "Created", outcome |-> "NOT_DISPATCHED",
        filled |-> 0, fill_count |-> 0, last_trade |-> None,
        venue |-> None, last_external_sequence |-> None, fee |-> None, submitted |-> FALSE,
        reason |-> None, created_at |-> at, updated_at |-> at, version |-> 1]
  <1>1. orders' = Append(orders, n) /\ at \in Nat /\ r.quantity \in Nat \ {0}
    BY CommandAssumption DEF Create
  <1>2. n \in Entity
    BY <1>1 DEF Entity, Status, IsOpen, Outcome
  <1>3. SoundlyDispatched(n) /\ ValidSnapshot(n) /\ n.filled \in 0..n.request.quantity
    BY <1>1 DEF SoundlyDispatched, ValidSnapshot, NeverDispatched, Closed
  <1> HIDE DEF n
  <1> QED BY <1>1, <1>2, <1>3 DEF EntityInv

\* Every order that existed before a step took an EntityStep.
LEMMA OrdersStep ==
  ASSUME OrdersInv, [Next]_vars
  PROVE  /\ OrdersInv'
         /\ \A i \in Positions : Advances(orders[i], orders'[i]) /\ StaysSubmitted(orders[i], orders'[i])
  <1>0. orders \in Seq(Entity) /\ sequence \in Nat /\ Len(orders) \in Nat
    BY DEF OrdersInv
  <1>1. \A i \in Positions : EntityInv(orders[i]) /\ EntityStep(orders[i], orders[i])
    BY EntityStutter DEF OrdersInv
  <1>2. ASSUME NEW c \in Command, Apply(c)
        PROVE  /\ OrdersInv'
               /\ \A i \in Positions : Advances(orders[i], orders'[i]) /\ StaysSubmitted(orders[i], orders'[i])
    <2>1. PICK n : EntityStep(Order(c), n) /\ orders' = [orders EXCEPT ![c.order] = n]
      BY <1>2, ApplyStep
    <2>2. n \in Entity /\ c.order \in 1..Len(orders)
      BY <1>2, <2>1, ApplyStep DEF EntityStep, EntityInv, Positions
    <2>3. /\ orders' \in Seq(Entity) /\ Len(orders') = Len(orders)
          /\ \A i \in 1..Len(orders) : orders'[i] = IF i = c.order THEN n ELSE orders[i]
      BY ONLY <1>0, <2>1, <2>2, ExceptSeq
    <2>4. \A i \in Positions : EntityStep(orders[i], orders'[i])
      BY <1>1, <2>1, <2>3 DEF Positions, Order
    <2>5. sequence' \in Nat
      BY <1>0, <1>2, ApplyStep
    <2>6. \A i \in 1..Len(orders) : EntityInv(orders'[i])
      BY <2>4 DEF EntityStep, Positions
    <2>7. OrdersInv'
      BY <2>3, <2>5, <2>6 DEF OrdersInv, Positions, EntityInv, SoundlyDispatched, ValidSnapshot, NeverDispatched
    <2> QED BY <2>4, <2>7 DEF EntityStep
  <1>3. ASSUME NEW r \in Request, NEW at \in Time, Create(r, at)
        PROVE  /\ OrdersInv'
               /\ \A i \in Positions : Advances(orders[i], orders'[i]) /\ StaysSubmitted(orders[i], orders'[i])
    <2>1. PICK n : EntityInv(n) /\ orders' = Append(orders, n)
      BY <1>3, CreateStep
    <2>2. n \in Entity
      BY <2>1 DEF EntityInv
    <2>3. /\ orders' \in Seq(Entity) /\ Len(orders') = Len(orders) + 1
          /\ \A i \in 1..Len(orders) : orders'[i] = orders[i]
          /\ orders'[Len(orders) + 1] = n
      BY ONLY <1>0, <2>1, <2>2, AppendProperties
    <2>4. \A i \in 1..Len(orders') : EntityInv(orders'[i])
      BY <1>0, <1>1, <2>1, <2>3 DEF Positions
    <2>5. sequence' \in Nat
      BY <1>0, <1>3 DEF Create
    <2>6. OrdersInv'
      BY <2>3, <2>4, <2>5 DEF OrdersInv, Positions, EntityInv, SoundlyDispatched, ValidSnapshot, NeverDispatched
    <2>7. \A i \in Positions : EntityStep(orders[i], orders'[i])
      BY <1>1, <2>3 DEF Positions
    <2> QED BY <2>6, <2>7 DEF EntityStep
  <1>4. CASE UNCHANGED vars
    <2>1. orders' = orders /\ sequence' = sequence
      BY <1>4 DEF vars
    <2>2. OrdersInv'
      BY <2>1 DEF OrdersInv, Positions, EntityInv, SoundlyDispatched, ValidSnapshot, NeverDispatched
    <2> QED BY <1>1, <2>1, <2>2 DEF EntityStep
  <1> QED BY <1>2, <1>3, <1>4 DEF Next

\* The conjunction of the three order invariants is inductive.
THEOREM OrdersCorrect == Spec => []OrdersInv
  <1>1. Init => OrdersInv
    BY DEF Init, OrdersInv, Positions
  <1>2. OrdersInv /\ [Next]_vars => OrdersInv'
    BY OrdersStep
  <1> QED BY <1>1, <1>2, PTL DEF Spec

\* Types, and no order is ever filled beyond its quantity.
THEOREM OrderTypes == Spec => []TypeOK
  <1>1. OrdersInv => TypeOK
    BY DEF OrdersInv, TypeOK, EntityInv, Positions
  <1> QED BY <1>1, OrdersCorrect, PTL

\* An order is provably unsent or was submitted once, with its fee contract.
THEOREM OrderDispatch == Spec => []DispatchSound
  <1>1. OrdersInv => DispatchSound
    BY DEF OrdersInv, DispatchSound, EntityInv
  <1> QED BY <1>1, OrdersCorrect, PTL

\* The snapshot constructor never refuses what a transition produced.
THEOREM OrderSnapshots == Spec => []SnapshotValid
  <1>1. OrdersInv => SnapshotValid
    BY DEF OrdersInv, SnapshotValid, EntityInv
  <1> QED BY <1>1, OrdersCorrect, PTL

\* Orders only move forward: a started submission is never started again.
THEOREM OrdersForward == Spec => LifecycleForward
  <1>1. OrdersInv /\ [Next]_vars =>
          [\A i \in Positions : /\ Advances(orders[i], orders'[i])
                              /\ StaysSubmitted(orders[i], orders'[i])]_vars
    BY OrdersStep
  <1> QED BY <1>1, OrdersCorrect, PTL DEF Spec, LifecycleForward

-----------------------------------------------------------------------------
(* What an applied command leaves in its order and in the indexes *)

Terminal == {"CANCELLED", "REJECTED", "EXPIRED", "FAILED"}

\* The entity e an operation hands to Commit.
Handed(c, e) ==
  /\ e.request = Order(c).request /\ e.venue = Order(c).venue
  /\ e.filled = IF c.op = "FILL" THEN Order(c).filled + c.quantity ELSE Order(c).filled
  /\ e.fill_count = IF c.op = "FILL" THEN Order(c).fill_count + 1 ELSE Order(c).fill_count
  /\ c.op = "ACCEPT" => e.status = IF Order(c).status = "Submitted" THEN "Accepted" ELSE Order(c).status
  /\ c.op = "CANCEL" => e.status = "PendingCancel"
  /\ c.op \in Terminal => e.status = Target(c)
  /\ DOMAIN e = DOMAIN Order(c)

LEMMA AppliedHands ==
  ASSUME NEW c \in Command, Order(c) \in Entity, Apply(c)
  PROVE  \E e : Commit(c, e) /\ Handed(c, e)
  <1> DEFINE o == Order(c)
  <1>1. o \in Entity
    OBVIOUS
  <1>2. CASE Fee(c)
    <2> DEFINE e == [o EXCEPT !.fee = c.body]
    <2>1. c.op = "FEE" /\ Commit(c, e)
      BY <1>2 DEF Fee
    <2>2. Handed(c, e)
      BY <1>1, <2>1 DEF Handed, Entity, Terminal
    <2> HIDE DEF e
    <2> QED BY <2>1, <2>2
  <1>3. CASE BeginSubmit(c)
    <2> DEFINE e == [o EXCEPT !.status = "Submitted", !.submitted = TRUE, !.outcome = "DISPATCHING"]
    <2>1. c.op = "BEGIN_SUBMIT" /\ Commit(c, e)
      BY <1>3 DEF BeginSubmit
    <2>2. Handed(c, e)
      BY <1>1, <2>1 DEF Handed, Entity, Terminal
    <2> HIDE DEF e
    <2> QED BY <2>1, <2>2
  <1>4. CASE SubmitResult(c)
    <2> DEFINE e == IF c.body = "SUPPRESSED"
                    THEN [o EXCEPT !.outcome = c.body, !.status = "Failed", !.reason = c.body]
                    ELSE [o EXCEPT !.outcome = c.body]
    <2>1. c.op = "SUBMIT_RESULT" /\ Commit(c, e)
      BY <1>4 DEF SubmitResult
    <2>2. Handed(c, e)
      BY <1>1, <2>1 DEF Handed, Entity, Terminal
    <2> HIDE DEF e
    <2> QED BY <2>1, <2>2
  <1>5. CASE Reconcile(c)
    <2> DEFINE e == [o EXCEPT !.outcome = "RECONCILING"]
    <2>1. c.op = "RECONCILE" /\ Commit(c, e)
      BY <1>5 DEF Reconcile
    <2>2. Handed(c, e)
      BY <1>1, <2>1 DEF Handed, Entity, Terminal
    <2> HIDE DEF e
    <2> QED BY <2>1, <2>2
  <1>6. CASE Cancel(c)
    <2> DEFINE e == [o EXCEPT !.status = "PendingCancel"]
    <2>1. c.op = "CANCEL" /\ Commit(c, e)
      BY <1>6 DEF Cancel
    <2>2. Handed(c, e)
      BY <1>1, <2>1 DEF Handed, Entity, Terminal
    <2> HIDE DEF e
    <2> QED BY <2>1, <2>2
  <1>7. CASE Fail(c)
    <2> DEFINE e == [o EXCEPT !.status = "Failed", !.reason = c.body, !.outcome = "SUPPRESSED"]
    <2>1. c.op = "FAIL" /\ Commit(c, e)
      BY <1>7 DEF Fail
    <2>2. Handed(c, e)
      BY <1>1, <2>1 DEF Handed, Entity, Terminal
    <2> HIDE DEF e
    <2> QED BY <2>1, <2>2
  <1>8. CASE Accept(c)
    <2> DEFINE e == [o EXCEPT !.status = IF @ = "Submitted" THEN "Accepted" ELSE @]
    <2>1. c.op = "ACCEPT" /\ Commit(c, e)
      BY <1>8 DEF Accept
    <2>2. Handed(c, e)
      BY <1>1, <2>1 DEF Handed, Entity, Terminal
    <2> HIDE DEF e
    <2> QED BY <2>1, <2>2
  <1>9. CASE Fill(c)
    <2> DEFINE e == Filled(o, c)
    <2>1. c.op = "FILL" /\ Commit(c, e)
      BY <1>9 DEF Fill
    <2>2. Handed(c, e)
      BY <1>1, <2>1 DEF Handed, Entity, Terminal, Filled
    <2> HIDE DEF e
    <2> QED BY <2>1, <2>2
  <1>10. CASE Terminate(c)
    <2> DEFINE e == [o EXCEPT !.status = Target(c),
                              !.reason = IF c.op \in {"REJECTED", "FAILED"} THEN c.body ELSE @]
    <2>1. c.op \in Terminal /\ Commit(c, e)
      BY <1>10 DEF Terminate, Terminal
    <2>2. Handed(c, e)
      BY <1>1, <2>1 DEF Handed, Entity, Terminal
    <2> HIDE DEF e
    <2> QED BY <2>1, <2>2
  <1> QED BY <1>2, <1>3, <1>4, <1>5, <1>6, <1>7, <1>8, <1>9, <1>10 DEF Apply

\* The order and the indexes after an applied command.
LEMMA AppliedEffect ==
  ASSUME OrdersInv, NEW c \in Command, Apply(c)
  PROVE  /\ c.order \in Positions /\ Positions' = Positions /\ Verdict(c) = "Applied"
         /\ c.op \in External => c.account = Order(c).request.account
         /\ \A i \in Positions : i # c.order => orders'[i] = orders[i]
         /\ orders'[c.order].request = Order(c).request
         /\ orders'[c.order].venue = IF ReportVenue(c) = None THEN Order(c).venue ELSE c.venue
         /\ orders'[c.order].filled = IF c.op = "FILL" THEN Order(c).filled + c.quantity ELSE Order(c).filled
         /\ orders'[c.order].fill_count = IF c.op = "FILL" THEN Order(c).fill_count + 1 ELSE Order(c).fill_count
         /\ c.op = "ACCEPT" =>
              orders'[c.order].status = IF Order(c).status = "Submitted" THEN "Accepted" ELSE Order(c).status
         /\ c.op = "CANCEL" => orders'[c.order].status = "PendingCancel"
         /\ c.op \in Terminal => orders'[c.order].status = Target(c)
         /\ receipts' = IF c.op \in External
                        THEN receipts \cup {[account |-> c.account, key |-> k, command |-> c] : k \in Keys(c)}
                        ELSE receipts
         /\ venues' = IF ReportVenue(c) = None
                      THEN venues
                      ELSE venues \cup {[account |-> c.account, venue |-> c.venue, order |-> c.order]}
         /\ cancels' = IF c.op = "CANCEL" THEN cancels \cup {CancelIdentity(c)} ELSE cancels
  <1>1. /\ c.order \in Positions /\ Verdict(c) = "Applied"
        /\ c.op \in External => c.account = Order(c).request.account
    BY DEF Apply, WellScoped, Positions
  <1>2. orders \in Seq(Entity) /\ Order(c) \in Entity
    BY <1>1 DEF OrdersInv, Positions, Order
  <1>3. PICK e : Commit(c, e) /\ Handed(c, e)
    BY <1>2, AppliedHands
  <1>4. orders' = [orders EXCEPT ![c.order] = Stamped(e, c)]
    BY <1>3 DEF Commit
  <1>5. /\ Stamped(e, c).request = e.request /\ Stamped(e, c).status = e.status
        /\ Stamped(e, c).filled = e.filled /\ Stamped(e, c).fill_count = e.fill_count
        /\ Stamped(e, c).venue = IF ReportVenue(c) = None THEN e.venue ELSE c.venue
    <2>1. DOMAIN e = DOMAIN Order(c)
      BY <1>3 DEF Handed
    <2>2. {"request", "status", "filled", "fill_count", "venue"} \subseteq DOMAIN e
      BY <1>2, <2>1 DEF Entity
    <2> QED BY <2>2 DEF Stamped
  <1>6. /\ DOMAIN orders = 1..Len(orders)
        /\ orders'[c.order] = Stamped(e, c)
        /\ \A i \in Positions : i # c.order => orders'[i] = orders[i]
        /\ DOMAIN orders' = DOMAIN orders
    BY <1>1, <1>2, <1>4 DEF Positions
  <1>7. Positions' = Positions
    <2>1. PICK n : EntityStep(Order(c), n) /\ orders' = [orders EXCEPT ![c.order] = n]
      BY ApplyStep
    <2>2. n \in Entity
      BY <2>1 DEF EntityStep, EntityInv
    <2>3. Len(orders') = Len(orders)
      BY <1>1, <1>2, <2>1, <2>2, ExceptSeq DEF Positions
    <2> QED BY <2>3 DEF Positions
  <1> QED BY <1>1, <1>3, <1>5, <1>6, <1>7 DEF Handed, Commit

\* The orders after a CREATE.
LEMMA CreatedEffect ==
  ASSUME OrdersInv, NEW r \in Request, NEW at \in Time, Create(r, at)
  PROVE  /\ Positions' = Positions \cup {Len(orders) + 1} /\ Len(orders) + 1 \notin Positions
         /\ \A i \in Positions : orders'[i] = orders[i]
         /\ orders'[Len(orders) + 1].venue = None
         /\ orders'[Len(orders) + 1].filled = 0 /\ orders'[Len(orders) + 1].fill_count = 0
         /\ UNCHANGED <<receipts, venues, cancels>>
  <1> DEFINE n == [request |-> r, status |-> "Created", outcome |-> "NOT_DISPATCHED",
        filled |-> 0, fill_count |-> 0, last_trade |-> None,
        venue |-> None, last_external_sequence |-> None, fee |-> None, submitted |-> FALSE,
        reason |-> None, created_at |-> at, updated_at |-> at, version |-> 1]
  <1>1. orders' = Append(orders, n) /\ UNCHANGED <<receipts, venues, cancels>>
    BY DEF Create
  <1>2. PICK m : EntityInv(m) /\ orders' = Append(orders, m)
    BY CreateStep
  <1>3. orders \in Seq(Entity) /\ m \in Entity /\ Len(orders) \in Nat
    BY <1>2 DEF OrdersInv, EntityInv
  <1>4. /\ Len(orders') = Len(orders) + 1
        /\ \A i \in 1..Len(orders) : orders'[i] = orders[i]
    BY ONLY <1>2, <1>3, AppendProperties
  <1>5. orders'[Len(orders) + 1] = n
    <2> HIDE DEF n
    <2> QED BY <1>1, <1>3
  <1>6. Positions' = Positions \cup {Len(orders) + 1} /\ Len(orders) + 1 \notin Positions
    BY <1>3, <1>4 DEF Positions
  <1> QED BY <1>1, <1>4, <1>5, <1>6 DEF Positions

-----------------------------------------------------------------------------
(* Venue order ids *)

\* The index entry of order i.
Entry(i) == [account |-> orders[i].request.account, venue |-> orders[i].venue, order |-> i]

\* The index and the orders agree, entry by entry.
VenueIndexed ==
  /\ \A i \in Positions : orders[i].venue # None => Entry(i) \in venues
  /\ \A x \in venues : x.order \in Positions /\ orders[x.order].venue # None /\ x = Entry(x.order)

VenuesUnique ==
  \A i, j \in Positions :
    /\ orders[i].request.account = orders[j].request.account
    /\ orders[i].venue = orders[j].venue
    /\ orders[i].venue # None
    => i = j

LEMMA VenuesDecompose == VenueIndexed /\ VenuesUnique => VenueOwnership
  <1> SUFFICES ASSUME VenueIndexed, VenuesUnique PROVE VenueOwnership
    OBVIOUS
  <1> DEFINE held == {j \in Positions : orders[j].venue # None}
  <1>1. ASSUME NEW x \in venues PROVE x \in {Entry(i) : i \in held}
    BY DEF VenueIndexed
  <1>2. ASSUME NEW i \in held PROVE Entry(i) \in venues
    BY DEF VenueIndexed
  <1>3. venues = {Entry(i) : i \in held}
    BY <1>1, <1>2
  <1> QED BY <1>3 DEF VenueOwnership, VenuesUnique, Entry

\* A report is only applied when its venue id is this order's or nobody's.
LEMMA VenueScreened ==
  ASSUME NEW c \in Command, Verdict(c) = "Applied", ReportVenue(c) # None
  PROVE  /\ c.op \in External /\ ReportVenue(c) = c.venue
         /\ Order(c).venue \in {None, c.venue}
         /\ \A x \in venues : x.account = c.account /\ x.venue = c.venue => x.order = c.order
  <1>1. c.op \in External /\ ReportVenue(c) = c.venue
    BY DEF ReportVenue, External
  <1>2. Screen(c) = "Applied"
    BY <1>1 DEF Verdict
  <1>3. ~VenueTaken(c)
    BY <1>2 DEF Screen
  <1> QED BY <1>1, <1>3 DEF VenueTaken

LEMMA VenuesStep ==
  ASSUME OrdersInv, VenueIndexed, VenuesUnique, [Next]_vars
  PROVE  VenueIndexed' /\ VenuesUnique'
  <1>1. ASSUME NEW c \in Command, Apply(c)
        PROVE  VenueIndexed' /\ VenuesUnique'
    <2> DEFINE k == c.order
    <2>1. /\ k \in Positions /\ Positions' = Positions /\ Verdict(c) = "Applied"
          /\ c.op \in External => c.account = orders[k].request.account
          /\ \A i \in Positions : i # k => orders'[i] = orders[i]
          /\ orders'[k].request = orders[k].request
          /\ orders'[k].venue = IF ReportVenue(c) = None THEN orders[k].venue ELSE c.venue
          /\ venues' = IF ReportVenue(c) = None
                       THEN venues
                       ELSE venues \cup {[account |-> c.account, venue |-> c.venue, order |-> k]}
      BY <1>1, AppliedEffect DEF Order
    <2>2. CASE ReportVenue(c) = None
      <3>1. \A i \in Positions : orders'[i].venue = orders[i].venue /\ orders'[i].request = orders[i].request
        BY <2>1, <2>2
      <3>2. \A i \in Positions : Entry(i)' = Entry(i)
        BY <3>1 DEF Entry
      <3> QED BY <2>1, <2>2, <3>1, <3>2 DEF VenueIndexed, VenuesUnique
    <2>3. CASE ReportVenue(c) # None
      <3>1. /\ c.op \in External /\ c.venue # None
            /\ orders[k].venue \in {None, c.venue}
            /\ \A x \in venues : x.account = c.account /\ x.venue = c.venue => x.order = k
        BY <2>1, <2>3, VenueScreened DEF Order
      <3>2. /\ orders'[k].venue = c.venue /\ orders[k].request.account = c.account
            /\ venues' = venues \cup {[account |-> c.account, venue |-> c.venue, order |-> k]}
        BY <2>1, <2>3, <3>1
      <3> HIDE DEF k
      <3>3. \A i \in Positions : i # k => Entry(i)' = Entry(i)
        BY <2>1 DEF Entry
      <3>4. Entry(k)' = [account |-> c.account, venue |-> c.venue, order |-> k]
        BY <2>1, <3>2 DEF Entry
      <3>5. orders[k].venue # None => Entry(k) = Entry(k)'
        BY <3>1, <3>2, <3>4 DEF Entry
      <3>6. ASSUME NEW i \in Positions', orders'[i].venue # None PROVE Entry(i)' \in venues'
        BY <2>1, <3>2, <3>3, <3>4, <3>6 DEF VenueIndexed
      <3>7. ASSUME NEW x \in venues'
            PROVE  x.order \in Positions' /\ orders'[x.order].venue # None /\ x = Entry(x.order)'
        <4>1. CASE x = Entry(k)'
          BY <2>1, <3>1, <3>2, <3>4, <4>1
        <4>2. CASE x # Entry(k)'
          <5>1. x \in venues
            BY <3>2, <3>4, <4>2
          <5>2. x.order \in Positions /\ orders[x.order].venue # None /\ x = Entry(x.order)
            BY <5>1 DEF VenueIndexed
          <5>3. x.order # k
            BY <3>5, <4>2, <5>2
          <5> QED BY <2>1, <3>3, <5>2, <5>3
        <4> QED BY <4>1, <4>2
      <3>8. ASSUME NEW i \in Positions, i # k, orders[i].request.account = c.account
            PROVE  orders[i].venue # c.venue
        <4> SUFFICES ASSUME orders[i].venue = c.venue PROVE FALSE
          OBVIOUS
        <4>1. Entry(i) \in venues /\ Entry(i).account = c.account /\ Entry(i).venue = c.venue /\ Entry(i).order = i
          BY <3>1, <3>8 DEF VenueIndexed, Entry
        <4> QED BY <3>1, <3>8, <4>1
      <3>9. VenuesUnique'
        <4> SUFFICES ASSUME NEW i \in Positions', NEW j \in Positions',
                            orders'[i].request.account = orders'[j].request.account,
                            orders'[i].venue = orders'[j].venue, orders'[i].venue # None
                     PROVE  i = j
          BY DEF VenuesUnique
        <4>1. CASE i # k /\ j # k
          BY <2>1, <4>1 DEF VenuesUnique
        <4>2. CASE i = k /\ j # k
          BY <2>1, <3>2, <3>8, <4>2
        <4>3. CASE i # k /\ j = k
          BY <2>1, <3>2, <3>8, <4>3
        <4> QED BY <4>1, <4>2, <4>3
      <3> QED BY <3>6, <3>7, <3>9 DEF VenueIndexed
    <2> QED BY <2>2, <2>3
  <1>2. ASSUME NEW r \in Request, NEW at \in Time, Create(r, at)
        PROVE  VenueIndexed' /\ VenuesUnique'
    <2> DEFINE new == Len(orders) + 1
    <2>1. /\ Positions' = Positions \cup {new} /\ new \notin Positions
          /\ \A i \in Positions : orders'[i] = orders[i]
          /\ orders'[new].venue = None /\ venues' = venues
      BY <1>2, CreatedEffect
    <2> HIDE DEF new
    <2>2. \A i \in Positions : Entry(i)' = Entry(i)
      BY <2>1 DEF Entry
    <2> QED BY <2>1, <2>2 DEF VenueIndexed, VenuesUnique
  <1>3. CASE UNCHANGED vars
    <2>1. orders' = orders /\ venues' = venues /\ Positions' = Positions /\ \A i \in Positions : Entry(i)' = Entry(i)
      BY <1>3 DEF vars, Positions, Entry
    <2> QED BY <2>1 DEF VenueIndexed, VenuesUnique
  <1> QED BY <1>1, <1>2, <1>3 DEF Next

\* A venue order id belongs to one order of its account, and the manager's
\* venue index names exactly that one.
THEOREM VenueIdsOwned == Spec => []VenueOwnership
  <1>1. Init => VenueIndexed /\ VenuesUnique
    BY DEF Init, VenueIndexed, VenuesUnique, Positions
  <1> QED BY <1>1, VenuesStep, VenuesDecompose, OrdersCorrect, PTL DEF Spec

-----------------------------------------------------------------------------
(* Receipts and cancellations *)

\* What the receipt of an applied report stands for.
Honoured(c) ==
  /\ c \in Command /\ c.op \in External /\ c.order \in Positions
  /\ c.op = "ACCEPT" => Order(c).venue = c.venue /\ Order(c).status \notin {"Created", "Submitted"}
  /\ c.op = "FILL" => Order(c).filled >= c.quantity
  /\ c.op \in Terminal => Order(c).status = Target(c)

ReceiptsHonoured ==
  /\ \A x \in receipts : /\ x.account = x.command.account
                         /\ x.key \in Keys(x.command)
                         /\ Honoured(x.command)
  /\ \A x \in cancels : /\ x.order \in Positions
                        /\ orders[x.order].status \in {"PendingCancel"} \cup Closed

\* A pending cancellation leads to a closed order and nowhere else, and what a
\* report established stays.
LEMMA ForwardStatus ==
  ASSUME NEW o, NEW n, o.status \in Status, n.status \in Status, Advances(o, n)
  PROVE  /\ o.status \in {"PendingCancel"} \cup Closed => n.status \in {"PendingCancel"} \cup Closed
         /\ o.status \notin {"Created", "Submitted"} => n.status \notin {"Created", "Submitted"}
         /\ o.status \in Closed => n.status = o.status
  BY DEF Advances, Rank, Status, IsOpen, Working, Closed

\* The venue id an order has stays.
LEMMA VenueKept ==
  ASSUME OrdersInv, [Next]_vars, NEW i \in Positions, orders[i].venue # None
  PROVE  orders'[i].venue = orders[i].venue
  <1>1. ASSUME NEW c \in Command, Apply(c) PROVE orders'[i].venue = orders[i].venue
    <2>1. CASE i # c.order
      BY <1>1, <2>1, AppliedEffect
    <2>2. CASE i = c.order /\ ReportVenue(c) = None
      BY <1>1, <2>2, AppliedEffect DEF Order
    <2>3. CASE i = c.order /\ ReportVenue(c) # None
      <3>1. orders'[i].venue = c.venue /\ Verdict(c) = "Applied"
        BY <1>1, <2>3, AppliedEffect
      <3> QED BY <2>3, <3>1, VenueScreened DEF Order
    <2> QED BY <2>1, <2>2, <2>3
  <1>2. ASSUME NEW r \in Request, NEW at \in Time, Create(r, at) PROVE orders'[i].venue = orders[i].venue
    BY <1>2, CreatedEffect
  <1>3. CASE UNCHANGED vars
    BY <1>3 DEF vars
  <1> QED BY <1>1, <1>2, <1>3 DEF Next

\* What was honoured stays honoured.
LEMMA HonouredKept ==
  ASSUME OrdersInv, [Next]_vars, Positions \subseteq Positions', NEW c, Honoured(c)
  PROVE  /\ c \in Command /\ c.op \in External /\ c.order \in Positions'
         /\ c.op = "ACCEPT" => orders'[c.order].venue = c.venue /\ orders'[c.order].status \notin {"Created", "Submitted"}
         /\ c.op = "FILL" => orders'[c.order].filled >= c.quantity
         /\ c.op \in Terminal => orders'[c.order].status = Target(c)
  <1> DEFINE o == orders[c.order]
             n == orders'[c.order]
  <1>0. c \in Command /\ c.op \in External /\ c.order \in Positions /\ c.order \in Positions'
    BY DEF Honoured
  <1>1. Advances(o, n) /\ OrdersInv'
    BY <1>0, OrdersStep
  <1>2. EntityInv(o) /\ EntityInv(n)
    BY <1>0, <1>1 DEF OrdersInv, EntityInv, SoundlyDispatched, ValidSnapshot, NeverDispatched
  <1>3. o.status \in Status /\ n.status \in Status /\ o.filled \in Nat /\ n.filled \in Nat
    BY <1>2 DEF EntityInv, Entity
  <1> HIDE DEF o, n
  <1>4. /\ o.status \notin {"Created", "Submitted"} => n.status \notin {"Created", "Submitted"}
        /\ o.status \in Closed => n.status = o.status
    BY <1>1, <1>3, ForwardStatus
  <1>5. ASSUME c.op = "ACCEPT" PROVE n.venue = c.venue /\ n.status \notin {"Created", "Submitted"}
    <2>1. o.venue = c.venue /\ o.status \notin {"Created", "Submitted"} /\ c.venue # None
      BY <1>0, <1>5, CommandAssumption DEF Honoured, Order, o
    <2> QED BY <1>0, <1>4, <2>1, VenueKept DEF o, n
  <1>6. ASSUME c.op = "FILL" PROVE n.filled >= c.quantity
    <2>1. o.filled >= c.quantity /\ c.quantity \in Nat
      BY <1>0, <1>6, CommandAssumption DEF Honoured, Order, o
    <2>2. o.filled <= n.filled
      BY <1>1 DEF Advances
    <2> QED BY <1>3, <2>1, <2>2
  <1>7. ASSUME c.op \in Terminal PROVE n.status = Target(c)
    <2>1. o.status = Target(c)
      BY <1>7 DEF Honoured, Order, o
    <2>2. Target(c) \in Closed
      BY <1>7 DEF Target, Terminal, Closed
    <2> QED BY <1>4, <2>1, <2>2
  <1> QED BY <1>0, <1>5, <1>6, <1>7 DEF n

\* The report that is being applied is honoured by what it does.
LEMMA AppliedHonoured ==
  ASSUME OrdersInv, NEW c \in Command, Apply(c), c.op \in External
  PROVE  /\ c.order \in Positions'
         /\ c.op = "ACCEPT" => orders'[c.order].venue = c.venue /\ orders'[c.order].status \notin {"Created", "Submitted"}
         /\ c.op = "FILL" => orders'[c.order].filled >= c.quantity
         /\ c.op \in Terminal => orders'[c.order].status = Target(c)
  <1>1. /\ c.order \in Positions' /\ Verdict(c) = "Applied" /\ c.order \in Positions
        /\ c.op \in Terminal => orders'[c.order].status = Target(c)
    BY AppliedEffect
  <1>2. OpVerdict(Order(c), c) = "Applied" /\ Order(c).filled \in Nat
    BY <1>1 DEF Verdict, OrdersInv, EntityInv, Entity, Order
  <1>3. ASSUME c.op = "ACCEPT"
        PROVE  orders'[c.order].venue = c.venue /\ orders'[c.order].status \notin {"Created", "Submitted"}
    <2>1. AcceptVerdict(Order(c), c) = "Applied" /\ c.venue # None /\ ReportVenue(c) = c.venue
      BY <1>2, <1>3, CommandAssumption DEF OpVerdict, ReportVenue
    <2>2. Order(c).status \in Working \cup {"Filled", "Cancelled"}
      BY <2>1 DEF AcceptVerdict
    <2>3. /\ orders'[c.order].venue = c.venue
          /\ orders'[c.order].status = IF Order(c).status = "Submitted" THEN "Accepted" ELSE Order(c).status
      BY <1>3, <2>1, AppliedEffect
    <2> QED BY <2>2, <2>3 DEF Working
  <1>4. ASSUME c.op = "FILL" PROVE orders'[c.order].filled >= c.quantity
    <2>1. orders'[c.order].filled = Order(c).filled + c.quantity /\ c.quantity \in Nat
      BY <1>4, AppliedEffect, CommandAssumption
    <2> QED BY <1>2, <2>1
  <1> QED BY <1>1, <1>3, <1>4

LEMMA PositionsGrow ==
  ASSUME OrdersInv, [Next]_vars
  PROVE  Positions \subseteq Positions'
  BY AppliedEffect, CreatedEffect DEF Next, vars, Positions

LEMMA ReceiptsStep ==
  ASSUME OrdersInv, ReceiptsHonoured, [Next]_vars
  PROVE  ReceiptsHonoured'
  <1>0. Positions \subseteq Positions' /\ OrdersInv'
    BY PositionsGrow, OrdersStep
  <1>1. ASSUME NEW c, \/ Honoured(c)
                      \/ c \in Command /\ Apply(c) /\ c.op \in External
        PROVE  Honoured(c)'
    BY <1>0, <1>1, HonouredKept, AppliedHonoured DEF Honoured, Order
  <1>2. ASSUME NEW i \in Positions, orders[i].status \in {"PendingCancel"} \cup Closed
        PROVE  orders'[i].status \in {"PendingCancel"} \cup Closed
    <2>1. Advances(orders[i], orders'[i]) /\ i \in Positions'
      BY <1>0, OrdersStep
    <2>2. EntityInv(orders[i]) /\ EntityInv(orders'[i])
      BY <1>0, <2>1 DEF OrdersInv, EntityInv, SoundlyDispatched, ValidSnapshot, NeverDispatched
    <2>3. orders[i].status \in Status /\ orders'[i].status \in Status
      BY <2>2 DEF EntityInv, Entity
    <2> QED BY <1>2, <2>1, <2>3, ForwardStatus
  <1>3. ASSUME NEW x \in receipts'
        PROVE  x.account = x.command.account /\ x.key \in Keys(x.command) /\ Honoured(x.command)'
    <2>1. CASE x \in receipts
      BY <1>1, <2>1 DEF ReceiptsHonoured
    <2>2. CASE x \notin receipts
      <3>1. PICK c \in Command : Apply(c)
        BY <2>2, CreatedEffect DEF Next, vars
      <3>2. c.op \in External /\ \E k \in Keys(c) : x = [account |-> c.account, key |-> k, command |-> c]
        BY <2>2, <3>1, AppliedEffect
      <3>3. x.account = c.account /\ x.command = c /\ x.key \in Keys(c)
        BY <3>2
      <3> QED BY <1>1, <3>1, <3>2, <3>3
    <2> QED BY <2>1, <2>2
  <1>4. ASSUME NEW x \in cancels'
        PROVE  x.order \in Positions' /\ orders'[x.order].status \in {"PendingCancel"} \cup Closed
    <2>1. CASE x \in cancels
      BY <1>0, <1>2, <2>1 DEF ReceiptsHonoured
    <2>2. CASE x \notin cancels
      <3>1. PICK c \in Command : Apply(c)
        BY <2>2, CreatedEffect DEF Next, vars
      <3>2. c.op = "CANCEL" /\ x = CancelIdentity(c) /\ c.order \in Positions /\ orders'[c.order].status = "PendingCancel"
        BY <2>2, <3>1, AppliedEffect
      <3>3. x.order = c.order
        BY <3>2 DEF CancelIdentity
      <3> QED BY <1>0, <3>2, <3>3
    <2> QED BY <2>1, <2>2
  <1>5. \A c : Keys(c)' = Keys(c)
    BY DEF Keys
  <1> QED BY <1>3, <1>4, <1>5 DEF ReceiptsHonoured, Keys

\* A report the screen calls a duplicate is the very command of its receipt.
LEMMA ScreenedDuplicate ==
  ASSUME ReceiptsHonoured, NEW c \in Command, WellScoped(c), c.op \in External, Screen(c) = "Duplicate"
  PROVE  Effective(c)
  <1>1. PICK x \in receipts : x.command = c /\ x \in Known(c)
    BY DEF Screen, Known
  <1>2. Honoured(c)
    BY <1>1 DEF ReceiptsHonoured
  <1>3. CASE c.op = "ACCEPT"
    BY <1>2, <1>3 DEF Honoured, Effective
  <1>4. CASE c.op = "FILL"
    <2>1. c \in FillsOf(c.order)
      BY <1>1, <1>4 DEF FillsOf
    <2> QED BY <1>2, <1>4, <2>1 DEF Honoured, Effective
  <1>5. CASE c.op \in Terminal
    BY <1>2, <1>5 DEF Honoured, Effective, Terminal
  <1> QED BY <1>3, <1>4, <1>5 DEF External, Terminal

LEMMA DuplicatesProved ==
  OrdersInv /\ ReceiptsHonoured => DuplicateIsProof
  <1> SUFFICES ASSUME OrdersInv, ReceiptsHonoured, NEW c \in Command, WellScoped(c), Verdict(c) = "Duplicate"
               PROVE  Effective(c)
    BY DEF DuplicateIsProof
  <1> DEFINE o == Order(c)
  <1>1. c.order \in Positions /\ EntityInv(o)
    BY DEF WellScoped, Positions, OrdersInv, Order
  <1>2. CASE c.op \in External /\ Screen(c) = "Duplicate"
    BY <1>2, ScreenedDuplicate
  <1>3. CASE ~(c.op \in External /\ Screen(c) = "Duplicate")
    <2>1. OpVerdict(o, c) = "Duplicate" /\ c.op \in External \cup LocalOp
      BY <1>3, CommandAssumption DEF Verdict
    <2> HIDE DEF o
    <2>2. CASE c.op = "FEE"
      BY <2>1, <2>2 DEF OpVerdict, FeeVerdict, Effective, o
    <2>3. CASE c.op = "BEGIN_SUBMIT"
      BY <2>1, <2>3 DEF OpVerdict, BeginSubmitVerdict
    <2>4. CASE c.op = "SUBMIT_RESULT"
      <3>1. o.outcome = c.body
        BY <2>1, <2>4 DEF OpVerdict, SubmitResultVerdict
      <3>2. c.body = "SUPPRESSED" => o.status = "Failed" /\ ~o.submitted
        BY <1>1, <3>1 DEF EntityInv, SoundlyDispatched, NeverDispatched
      <3> QED BY <2>4, <3>1, <3>2 DEF Effective, o
    <2>5. CASE c.op = "RECONCILE"
      BY <2>1, <2>5 DEF OpVerdict, ReconcileVerdict, Effective, o
    <2>6. CASE c.op = "CANCEL"
      <3>1. CancelIdentity(c) \in cancels
        BY <2>1, <2>6 DEF OpVerdict, CancelVerdict
      <3>2. CancelIdentity(c).order = c.order
        BY DEF CancelIdentity
      <3>3. o.status \in {"PendingCancel"} \cup Closed
        BY <3>1, <3>2 DEF ReceiptsHonoured, Order, o
      <3> QED BY <2>6, <3>1, <3>3 DEF Effective, o
    <2>7. CASE c.op = "FAIL"
      BY <2>1, <2>7 DEF OpVerdict, FailVerdict
    <2>8. CASE c.op = "ACCEPT"
      <3>1. AcceptVerdict(o, c) = "Duplicate"
        BY <2>1, <2>8 DEF OpVerdict
      <3>2. o.venue = c.venue /\ o.status \notin {"Created", "Submitted"}
        BY <3>1 DEF AcceptVerdict, Working
      <3> QED BY <2>8, <3>2 DEF Effective, o
    <2>9. CASE c.op = "FILL"
      BY <2>1, <2>9 DEF OpVerdict, FillVerdict
    <2>10. CASE c.op \in Terminal
      <3>1. TerminalVerdict(o, c) = "Duplicate"
        BY <2>1, <2>10 DEF OpVerdict, Terminal
      <3>2. o.status = Target(c)
        BY <3>1 DEF TerminalVerdict
      <3> QED BY <2>10, <3>2 DEF Effective, Terminal, o
    <2> QED BY <2>1, <2>2, <2>3, <2>4, <2>5, <2>6, <2>7, <2>8, <2>9, <2>10 DEF External, LocalOp, Terminal
  <1> QED BY <1>2, <1>3

\* Whatever was repeated, reordered or reported late: a Duplicate answer means
\* that the effect of exactly this command is in the manager's state.
THEOREM DuplicatesAreProof == Spec => []DuplicateIsProof
  <1>1. Init => ReceiptsHonoured
    BY DEF Init, ReceiptsHonoured
  <1> QED BY <1>1, ReceiptsStep, DuplicatesProved, OrdersCorrect, PTL DEF Spec

-----------------------------------------------------------------------------
(* Sums over finite sets of fills                                          *)
(*                                                                         *)
(* MapThenSumSet picks the elements in an order of its own.  The lemmas    *)
(* show that it is defined on every finite set and does not depend on that *)
(* order.  Induction goes over the strict inclusion of finite sets: a      *)
(* nonempty collection of finite sets has a minimal member.                *)

Total(S) == MapThenSumSet(LAMBDA f : f.quantity, S)

PickOf(s) == CHOOSE x \in s : TRUE

\* One step of the fold, given the totals g of the smaller sets.
Folded(g, s) == IF s = {} THEN 0 ELSE PickOf(s).quantity + g[s \ {PickOf(s)}]

Totals(g, D) == g = [s \in D |-> Folded(g, s)]

LEMMA TotalIsFold ==
  ASSUME NEW S
  PROVE  Total(S) = (CHOOSE g : Totals(g, SUBSET S))[S]
  BY DEF Total, MapThenSumSet, MapThenFoldSet, Totals, Folded, PickOf

LEMMA PickIn == ASSUME NEW s, s # {} PROVE PickOf(s) \in s
  BY DEF PickOf

LEMMA MinimalSet ==
  ASSUME NEW S, NEW B, B \subseteq FiniteSubsetsOf(S), B # {}
  PROVE  \E U \in B : \A V \in B : ~(V \subseteq U /\ V # U)
  <1>1. IsWellFoundedOn(StrictSubsetOrdering(S), FiniteSubsetsOf(S))
    BY FS_StrictSubsetOrderingWellFounded
  <1>2. PICK U \in B : \A V \in B : ~(<<V, U>> \in StrictSubsetOrdering(S))
    BY <1>1, WFMin
  <1>3. ASSUME NEW V \in B, V \subseteq U, V # U PROVE FALSE
    <2>1. V \in SUBSET S /\ U \in SUBSET S
      BY DEF FiniteSubsetsOf
    <2> QED BY <1>2, <1>3, <2>1 DEF StrictSubsetOrdering
  <1> QED BY <1>3

\* Every member of S carries a quantity.
Quantified(S) == \A x \in S : x.quantity \in Nat

\* The subsets of S with at most n elements.
Small(S, n) == {s \in SUBSET S : Cardinality(s) <= n}

\* Totals on the small sets extend to the sets with one more element.
LEMMA TotalsExtend ==
  ASSUME NEW S, IsFiniteSet(S), NEW n \in Nat, NEW g, Totals(g, Small(S, n))
  PROVE  \E h : Totals(h, Small(S, n + 1))
  <1> DEFINE h == [s \in Small(S, n + 1) |-> Folded(g, s)]
  <1>1. ASSUME NEW s \in Small(S, n + 1), s # {}
        PROVE  s \ {PickOf(s)} \in Small(S, n)
    <2>1. s \in SUBSET S /\ IsFiniteSet(s) /\ Cardinality(s) \in Nat /\ Cardinality(s) <= n + 1
      BY FS_Subset, FS_CardinalityType DEF Small
    <2>2. Cardinality(s \ {PickOf(s)}) = Cardinality(s) - 1
      BY <1>1, <2>1, FS_RemoveElement, PickIn
    <2> QED BY <2>1, <2>2 DEF Small
  <1>2. Small(S, n) \subseteq Small(S, n + 1)
    <2>1. \A s \in SUBSET S : Cardinality(s) \in Nat
      BY FS_Subset, FS_CardinalityType
    <2> QED BY <2>1 DEF Small
  <1>3. ASSUME NEW s \in Small(S, n) PROVE h[s] = g[s]
    <2>1. h[s] = Folded(g, s)
      BY <1>2
    <2>2. g[s] = Folded(g, s)
      BY DEF Totals
    <2> QED BY <2>1, <2>2
  <1>4. ASSUME NEW s \in Small(S, n + 1) PROVE Folded(g, s) = Folded(h, s)
    <2> HIDE DEF h
    <2> QED BY <1>1, <1>3 DEF Folded
  <1>5. Totals(h, Small(S, n + 1))
    <2>1. h = [s \in Small(S, n + 1) |-> Folded(g, s)]
      OBVIOUS
    <2> HIDE DEF h
    <2> QED BY <1>4, <2>1 DEF Totals
  <1> QED BY <1>5

\* The fold is defined on every finite set.
LEMMA TotalsExist ==
  ASSUME NEW S, IsFiniteSet(S)
  PROVE  \E g : Totals(g, SUBSET S)
  <1> DEFINE Bad == {U \in FiniteSubsetsOf(S) : ~ \E g : Totals(g, Small(S, Cardinality(U)))}
  <1>1. Bad = {}
    <2> SUFFICES ASSUME Bad # {} PROVE FALSE
      OBVIOUS
    <2>1. PICK U \in Bad : \A V \in Bad : ~(V \subseteq U /\ V # U)
      <3>1. Bad \subseteq FiniteSubsetsOf(S)
        OBVIOUS
      <3> HIDE DEF Bad
      <3> QED BY <3>1, MinimalSet
    <2>2. U \in SUBSET S /\ IsFiniteSet(U) /\ ~ \E g : Totals(g, Small(S, Cardinality(U)))
      BY DEF FiniteSubsetsOf
    <2>3. CASE U = {}
      <3>1. Small(S, Cardinality(U)) = {{}}
        <4>1. \A s \in SUBSET S : Cardinality(s) \in Nat /\ (Cardinality(s) = 0 <=> s = {})
          BY FS_Subset, FS_CardinalityType, FS_EmptySet
        <4>2. Cardinality(U) = 0 /\ {} \in SUBSET S
          BY <2>3, FS_EmptySet
        <4> QED BY <4>1, <4>2 DEF Small
      <3> DEFINE g == [s \in {{}} |-> 0]
      <3>2. Totals(g, {{}})
        BY DEF Totals, Folded
      <3> QED BY <2>2, <3>1, <3>2
    <2>4. CASE U # {}
      <3> DEFINE V == U \ {PickOf(U)}
      <3>1. IsFiniteSet(V) /\ Cardinality(V) = Cardinality(U) - 1 /\ Cardinality(U) \in Nat
            /\ Cardinality(V) \in Nat /\ PickOf(U) \in U
        BY <2>2, <2>4, PickIn, FS_RemoveElement, FS_CardinalityType
      <3>2. V \in FiniteSubsetsOf(S) /\ V \subseteq U /\ V # U
        BY <2>2, <3>1 DEF FiniteSubsetsOf
      <3> HIDE DEF V
      <3>3. V \notin Bad
        BY <2>1, <3>2
      <3>4. PICK g : Totals(g, Small(S, Cardinality(V)))
        BY <3>2, <3>3
      <3>5. \E h : Totals(h, Small(S, Cardinality(V) + 1))
        BY <3>1, <3>4, TotalsExtend
      <3>6. Cardinality(V) + 1 = Cardinality(U)
        BY <3>1
      <3> QED BY <2>2, <3>5, <3>6
    <2> QED BY <2>3, <2>4
  <1>2. S \in FiniteSubsetsOf(S)
    BY DEF FiniteSubsetsOf
  <1>3. \E g : Totals(g, Small(S, Cardinality(S)))
    BY <1>1, <1>2
  <1>4. Small(S, Cardinality(S)) = SUBSET S
    BY FS_Subset DEF Small
  <1> QED BY <1>3, <1>4

\* The total may be taken off in any order, and is a natural number.
OrderFree(g, S) == \A s \in SUBSET S : g[s] \in Nat /\ \A y \in s : g[s] = y.quantity + g[s \ {y}]

LEMMA AnyOrder ==
  ASSUME NEW S, IsFiniteSet(S), Quantified(S), NEW g, Totals(g, SUBSET S)
  PROVE  OrderFree(g, S)
  <1> DEFINE Good(s) == g[s] \in Nat /\ \A y \in s : g[s] = y.quantity + g[s \ {y}]
             Bad == {s \in FiniteSubsetsOf(S) : ~Good(s)}
  <1>0. \A s \in SUBSET S : s \in FiniteSubsetsOf(S)
    BY FS_Subset DEF FiniteSubsetsOf
  <1>1. \A s \in SUBSET S : g[s] = Folded(g, s)
    BY DEF Totals
  <1>2. ASSUME NEW s \in SUBSET S, \A t \in SUBSET S : t \subseteq s /\ t # s => Good(t)
        PROVE  Good(s)
    <2>1. CASE s = {}
      BY <1>1, <2>1 DEF Folded
    <2>2. CASE s # {}
      <3> DEFINE x == PickOf(s)
      <3>1. x \in s /\ g[s] = x.quantity + g[s \ {x}]
        BY <1>1, <2>2, PickIn DEF Folded
      <3> HIDE DEF x
      <3>2. s \ {x} \in SUBSET S /\ Good(s \ {x})
        BY <1>2, <3>1
      <3>3. x.quantity \in Nat /\ g[s \ {x}] \in Nat
        BY <3>1, <3>2 DEF Quantified
      <3>4. ASSUME NEW y \in s PROVE g[s] = y.quantity + g[s \ {y}]
        <4>1. CASE y = x
          BY <3>1, <4>1
        <4>2. CASE y # x
          <5> DEFINE rest == g[(s \ {x}) \ {y}]
          <5>1. (s \ {y}) \ {x} = (s \ {x}) \ {y}
            OBVIOUS
          <5>2. g[s \ {x}] = y.quantity + rest
            BY <3>2, <4>2
          <5>3. s \ {y} \in SUBSET S /\ Good(s \ {y}) /\ x \in s \ {y}
            BY <1>2, <3>1, <4>2
          <5>4. g[s \ {y}] = x.quantity + rest
            BY <5>1, <5>3
          <5>5. (s \ {x}) \ {y} \in SUBSET S /\ Good((s \ {x}) \ {y})
            BY <1>2, <3>1
          <5>6. rest \in Nat
            BY <5>5
          <5>7. y.quantity \in Nat
            <6>1. y \in S
              OBVIOUS
            <6> QED BY ONLY <6>1, Quantified(S) DEF Quantified
          <5> HIDE DEF rest, Good, Bad
          <5> QED BY <3>1, <3>3, <5>2, <5>4, <5>6, <5>7
        <4> QED BY <4>1, <4>2
      <3>5. g[s] \in Nat
        BY ONLY <3>1, <3>3
      <3> QED BY <3>4, <3>5
    <2> QED BY <2>1, <2>2
  <1>3. Bad = {}
    <2> SUFFICES ASSUME Bad # {} PROVE FALSE
      OBVIOUS
    <2>1. PICK U \in Bad : \A V \in Bad : ~(V \subseteq U /\ V # U)
      <3>1. Bad \subseteq FiniteSubsetsOf(S)
        OBVIOUS
      <3> HIDE DEF Bad
      <3> QED BY <3>1, MinimalSet
    <2>2. U \in SUBSET S /\ ~Good(U)
      BY DEF FiniteSubsetsOf
    <2> HIDE DEF Good
    <2>3. \A t \in SUBSET S : t \subseteq U /\ t # U => Good(t)
      BY <1>0, <2>1
    <2> QED BY <1>2, <2>2, <2>3
  <1> QED BY <1>0, <1>3 DEF OrderFree

\* Totals over a set and over a part of it agree on the part.
LEMMA TotalsAgree ==
  ASSUME NEW S, IsFiniteSet(S), NEW T \in SUBSET S,
         NEW g, Totals(g, SUBSET S), NEW h, Totals(h, SUBSET T)
  PROVE  g[T] = h[T]
  <1> DEFINE Bad == {s \in FiniteSubsetsOf(T) : g[s] # h[s]}
  <1>0. \A s \in SUBSET T : s \in SUBSET S /\ s \in FiniteSubsetsOf(T)
    BY FS_Subset DEF FiniteSubsetsOf
  <1>1. \A s \in SUBSET T : g[s] = Folded(g, s) /\ h[s] = Folded(h, s)
    BY <1>0 DEF Totals
  <1>2. Bad = {}
    <2> SUFFICES ASSUME Bad # {} PROVE FALSE
      OBVIOUS
    <2>1. PICK U \in Bad : \A V \in Bad : ~(V \subseteq U /\ V # U)
      <3>1. Bad \subseteq FiniteSubsetsOf(T)
        OBVIOUS
      <3> HIDE DEF Bad
      <3> QED BY <3>1, MinimalSet
    <2>2. U \in SUBSET T /\ g[U] # h[U]
      BY DEF FiniteSubsetsOf
    <2>3. CASE U = {}
      BY <1>1, <2>2, <2>3 DEF Folded
    <2>4. CASE U # {}
      <3> DEFINE V == U \ {PickOf(U)}
      <3>1. V \subseteq U /\ V # U /\ V \in FiniteSubsetsOf(T)
        BY <1>0, <2>2, <2>4, PickIn
      <3>2. g[V] = h[V]
        BY <2>1, <3>1
      <3> QED BY <1>1, <2>2, <2>4, <3>2 DEF Folded
    <2> QED BY <2>3, <2>4
  <1> QED BY <1>0, <1>2

\* Adding a fill to a finite set of fills adds its quantity to the total.
LEMMA TotalAdds ==
  ASSUME NEW S, IsFiniteSet(S), Quantified(S), NEW x, x \notin S, x.quantity \in Nat
  PROVE  Total(S \cup {x}) = Total(S) + x.quantity /\ Total(S) \in Nat
  <1> DEFINE S1 == S \cup {x}
             g == CHOOSE g : Totals(g, SUBSET S1)
             h == CHOOSE h : Totals(h, SUBSET S)
  <1>1. IsFiniteSet(S1) /\ S \in SUBSET S1 /\ S1 \in SUBSET S1 /\ x \in S1 /\ S1 \ {x} = S
    BY FS_AddElement
  <1>2. Quantified(S1)
    BY DEF Quantified
  <1> HIDE DEF S1
  <1>3. Totals(g, SUBSET S1) /\ Totals(h, SUBSET S)
    BY <1>1, TotalsExist
  <1>4. Total(S1) = g[S1] /\ Total(S) = h[S]
    BY TotalIsFold
  <1> HIDE DEF g, h
  <1>5. g[S1] = x.quantity + g[S] /\ g[S] \in Nat
    <2>1. OrderFree(g, S1)
      BY ONLY <1>1, <1>2, <1>3, AnyOrder
    <2> QED BY ONLY <1>1, <2>1 DEF OrderFree
  <1>6. g[S] = h[S]
    BY <1>1, <1>3, TotalsAgree
  <1> QED BY <1>4, <1>5, <1>6 DEF S1

LEMMA TotalEmpty == Total({}) = 0
  <1> DEFINE h == CHOOSE h : Totals(h, SUBSET {})
  <1>1. Totals(h, SUBSET {}) /\ Total({}) = h[{}]
    BY TotalsExist, FS_EmptySet, TotalIsFold
  <1> HIDE DEF h
  <1>2. h[{}] = Folded(h, {})
    BY <1>1 DEF Totals
  <1> QED BY <1>1, <1>2 DEF Folded

-----------------------------------------------------------------------------
(* Every trade counts once *)

\* An applied report is found under each of its keys.
ReceiptsComplete ==
  \A x \in receipts : \A k \in Keys(x.command) :
    [account |-> x.command.account, key |-> k, command |-> x.command] \in receipts

TradesUnique ==
  \A x, y \in receipts : LET f == x.command
                             g == y.command IN
    f.op = "FILL" /\ g.op = "FILL" /\ f.account = g.account /\ f # g =>
      /\ f.trade # g.trade
      /\ f.venue_trade # None => f.venue_trade # g.venue_trade

\* The fills recorded for an order add up to what it shows.
FillsTotalled ==
  /\ \A i \in Positions : /\ IsFiniteSet(FillsOf(i))
                          /\ orders[i].filled = Total(FillsOf(i))
                          /\ orders[i].fill_count = Cardinality(FillsOf(i))
  /\ \A i \in Nat \ Positions : FillsOf(i) = {}

LEMMA TradesDecompose == TradesUnique /\ FillsTotalled => TradesCountOnce
  BY DEF TradesUnique, FillsTotalled, TradesCountOnce, Total

\* An applied report is new under every key, in particular as a command.
LEMMA AppliedIsNew ==
  ASSUME OrdersInv, ReceiptsHonoured, NEW c \in Command, Apply(c), c.op \in External
  PROVE  /\ \A x \in receipts : x.account = c.account => x.key \notin Keys(c)
         /\ \A x \in receipts : x.command # c
  <1>1. Screen(c) = "Applied"
    BY DEF Apply, Verdict
  <1>2. Known(c) = {}
    BY <1>1 DEF Screen
  <1>3. \A x \in receipts : x.account = c.account => x.key \notin Keys(c)
    BY <1>2 DEF Known
  <1> QED BY <1>3 DEF ReceiptsHonoured

\* The fills of one order after a step.
LEMMA FillsMove ==
  ASSUME OrdersInv, NEW c \in Command, Apply(c), NEW i
  PROVE  FillsOf(i)' = IF c.op = "FILL" /\ i = c.order THEN FillsOf(i) \cup {c} ELSE FillsOf(i)
  <1>1. receipts' = IF c.op \in External
                    THEN receipts \cup {[account |-> c.account, key |-> k, command |-> c] : k \in Keys(c)}
                    ELSE receipts
    BY AppliedEffect
  <1>2. CASE c.op \notin External
    BY <1>1, <1>2 DEF FillsOf, External
  <1>3. CASE c.op \in External
    <2>1. <<"EVENT", c.event_id>> \in Keys(c)
      BY DEF Keys
    <2>2. \A f : (\E x \in receipts' : x.command = f) <=> (f = c \/ \E x \in receipts : x.command = f)
      <3>1. ASSUME NEW x \in receipts' PROVE x.command = c \/ x \in receipts
        BY <1>1, <1>3
      <3>2. receipts \subseteq receipts' /\ \E x \in receipts' : x.command = c
        <4> DEFINE e == [account |-> c.account, key |-> <<"EVENT", c.event_id>>, command |-> c]
        <4>1. e \in receipts' /\ e.command = c
          BY <1>1, <1>3, <2>1
        <4>2. receipts \subseteq receipts'
          BY <1>1, <1>3
        <4> HIDE DEF e
        <4> QED BY <4>1, <4>2
      <3> QED BY <3>1, <3>2
    <2>3. \A f : f \in FillsOf(i)' <=> (f.op = "FILL" /\ f.order = i /\ \E x \in receipts' : x.command = f)
      BY DEF FillsOf
    <2>4. \A f : f \in FillsOf(i) <=> (f.op = "FILL" /\ f.order = i /\ \E x \in receipts : x.command = f)
      BY DEF FillsOf
    <2>5. \A f : f \in FillsOf(i)' <=> (f \in FillsOf(i) \/ (f = c /\ c.op = "FILL" /\ c.order = i))
      BY <2>2, <2>3, <2>4
    <2> DEFINE F == FillsOf(i)
               G == FillsOf(i)'
    <2> HIDE DEF F, G
    <2>6. \A f : f \in G <=> (f \in F \/ (f = c /\ c.op = "FILL" /\ c.order = i))
      BY <2>5 DEF F, G
    <2>7. CASE c.op = "FILL" /\ i = c.order
      <3>1. G = F \cup {c}
        BY <2>6, <2>7
      <3> QED BY <2>7, <3>1 DEF F, G
    <2>8. CASE ~(c.op = "FILL" /\ i = c.order)
      <3>1. G = F
        BY <2>6, <2>8
      <3> QED BY <2>8, <3>1 DEF F, G
    <2> QED BY <2>7, <2>8
  <1> QED BY <1>2, <1>3

LEMMA TotalledStep ==
  ASSUME OrdersInv, ReceiptsHonoured, FillsTotalled, [Next]_vars
  PROVE  FillsTotalled'
  <1>1. ASSUME NEW c \in Command, Apply(c) PROVE FillsTotalled'
    <2>0. c.order \in Positions /\ Positions' = Positions
      BY <1>1, AppliedEffect
    <2>1. CASE c.op # "FILL"
      <3>1. \A i : FillsOf(i)' = FillsOf(i)
        BY <1>1, <2>1, FillsMove
      <3>2. \A i \in Positions : orders'[i].filled = orders[i].filled /\ orders'[i].fill_count = orders[i].fill_count
        BY <1>1, <2>1, AppliedEffect DEF Order
      <3> QED BY <2>0, <3>1, <3>2 DEF FillsTotalled
    <2>2. CASE c.op = "FILL"
      <3> DEFINE k == c.order
                 F == FillsOf(k)
      <3>1. \A i : i # k => FillsOf(i)' = FillsOf(i)
        BY <1>1, <2>2, FillsMove
      <3>2. FillsOf(k)' = F \cup {c}
        BY <1>1, <2>2, FillsMove
      <3>3. \A i \in Positions : i # k => orders'[i] = orders[i]
        BY <1>1, AppliedEffect
      <3>4. /\ orders'[k].filled = orders[k].filled + c.quantity
            /\ orders'[k].fill_count = orders[k].fill_count + 1
        BY <1>1, <2>2, AppliedEffect DEF Order
      <3>5. c \notin F
        BY <1>1, <2>2, AppliedIsNew DEF FillsOf, External
      <3>6. Quantified(F) /\ c.quantity \in Nat
        <4>1. \A f \in F : f \in Command /\ f.op = "FILL"
          BY DEF FillsOf, ReceiptsHonoured, Honoured
        <4> QED BY <2>2, <4>1, CommandAssumption DEF Quantified
      <3>7. IsFiniteSet(F) /\ orders[k].filled = Total(F) /\ orders[k].fill_count = Cardinality(F)
        BY <2>0 DEF FillsTotalled
      <3> HIDE DEF k, F
      <3>8. Total(F \cup {c}) = Total(F) + c.quantity
        BY ONLY <3>5, <3>6, <3>7, TotalAdds
      <3>9. IsFiniteSet(F \cup {c}) /\ Cardinality(F \cup {c}) = Cardinality(F) + 1
        BY ONLY <3>5, <3>7, FS_AddElement
      <3>10. \A i \in Positions : /\ IsFiniteSet(FillsOf(i)')
                                  /\ orders'[i].filled = Total(FillsOf(i)')
                                  /\ orders'[i].fill_count = Cardinality(FillsOf(i)')
        <4> TAKE i \in Positions
        <4>1. CASE i = k
          BY <3>2, <3>4, <3>7, <3>8, <3>9, <4>1
        <4>2. CASE i # k
          BY <3>1, <3>3, <4>2 DEF FillsTotalled
        <4> QED BY <4>1, <4>2
      <3>11. \A i : Total(FillsOf(i))' = Total(FillsOf(i)')
        OBVIOUS
      <3>12. \A i \in Nat \ Positions : FillsOf(i)' = {}
        BY <2>0, <3>1 DEF FillsTotalled, k
      <3> QED BY <2>0, <3>10, <3>11, <3>12 DEF FillsTotalled
    <2> QED BY <2>1, <2>2
  <1>2. ASSUME NEW r \in Request, NEW at \in Time, Create(r, at) PROVE FillsTotalled'
    <2> DEFINE new == Len(orders) + 1
    <2>1. /\ Positions' = Positions \cup {new} /\ new \notin Positions
          /\ \A i \in Positions : orders'[i] = orders[i]
          /\ orders'[new].filled = 0 /\ orders'[new].fill_count = 0 /\ receipts' = receipts
      BY <1>2, CreatedEffect
    <2>2. \A i : FillsOf(i)' = FillsOf(i)
      BY <2>1 DEF FillsOf
    <2>3. new \in Nat
      BY DEF OrdersInv
    <2> HIDE DEF new
    <2>4. FillsOf(new) = {}
      BY <2>1, <2>3 DEF FillsTotalled
    <2> QED BY <2>1, <2>2, <2>4, TotalEmpty, FS_EmptySet DEF FillsTotalled
  <1>3. CASE UNCHANGED vars
    <2>1. orders' = orders /\ Positions' = Positions /\ \A i : FillsOf(i)' = FillsOf(i)
      BY <1>3 DEF vars, Positions, FillsOf
    <2> QED BY <2>1 DEF FillsTotalled
  <1> QED BY <1>1, <1>2, <1>3 DEF Next

LEMMA UniqueStep ==
  ASSUME OrdersInv, ReceiptsHonoured, ReceiptsComplete, TradesUnique, [Next]_vars
  PROVE  ReceiptsComplete' /\ TradesUnique'
  <1>1. CASE UNCHANGED receipts
    BY <1>1 DEF ReceiptsComplete, TradesUnique, Keys
  <1>2. CASE ~UNCHANGED receipts
    <2>1. PICK c \in Command : Apply(c)
      BY <1>2, CreatedEffect DEF Next, vars
    <2> DEFINE new == {[account |-> c.account, key |-> k, command |-> c] : k \in Keys(c)}
    <2>2. c.op \in External /\ receipts' = receipts \cup new
      BY <1>2, <2>1, AppliedEffect
    <2>3. \A x \in new : x.command = c
      OBVIOUS
    <2>4. \A x : Keys(x)' = Keys(x)
      BY DEF Keys
    <2>5. ReceiptsComplete'
      <3> SUFFICES ASSUME NEW x \in receipts', NEW k \in Keys(x.command)
                   PROVE  [account |-> x.command.account, key |-> k, command |-> x.command] \in receipts'
        BY <2>4 DEF ReceiptsComplete, Keys
      <3>1. CASE x \in receipts
        BY <2>2, <3>1 DEF ReceiptsComplete
      <3>2. CASE x \in new
        BY <2>2, <2>3, <3>2
      <3> QED BY <2>2, <3>1, <3>2
    <2>6. ASSUME NEW x \in receipts, x.command.op = "FILL", c.op = "FILL", x.command.account = c.account
          PROVE  /\ x.command.trade # c.trade
                 /\ x.command.venue_trade # None => x.command.venue_trade # c.venue_trade
      <3> DEFINE f == x.command
      <3>1. /\ <<"TRADE", f.trade>> \in Keys(f) /\ <<"TRADE", c.trade>> \in Keys(c)
            /\ f.venue_trade # None => <<"VENUE_TRADE", f.venue_trade>> \in Keys(f)
            /\ c.venue_trade # None => <<"VENUE_TRADE", c.venue_trade>> \in Keys(c)
        BY <2>6 DEF Keys
      <3>2. ASSUME NEW k \in Keys(f) PROVE k \notin Keys(c)
        <4>1. [account |-> f.account, key |-> k, command |-> f] \in receipts
          BY <3>2 DEF ReceiptsComplete
        <4>2. \A y \in receipts : y.account = c.account => y.key \notin Keys(c)
          BY <2>1, <2>2, AppliedIsNew
        <4> QED BY <2>6, <4>1, <4>2
      <3> HIDE DEF f
      <3> QED BY <3>1, <3>2 DEF f
    <2>7. TradesUnique'
      <3> SUFFICES ASSUME NEW x \in receipts', NEW y \in receipts',
                          x.command.op = "FILL", y.command.op = "FILL",
                          x.command.account = y.command.account, x.command # y.command
                   PROVE  /\ x.command.trade # y.command.trade
                          /\ x.command.venue_trade # None => x.command.venue_trade # y.command.venue_trade
        BY DEF TradesUnique
      <3> HIDE DEF new
      <3>1. CASE x \in receipts /\ y \in receipts
        BY <3>1 DEF TradesUnique
      <3>2. CASE x \in receipts /\ y \in new
        <4>1. y.command = c
          BY <2>3, <3>2
        <4> QED BY <2>6, <3>2, <4>1
      <3>3. CASE x \in new /\ y \in receipts
        <4>1. x.command = c
          BY <2>3, <3>3
        <4> QED BY <2>6, <3>3, <4>1
      <3>4. CASE x \in new /\ y \in new
        BY <2>3, <3>4
      <3> QED BY <2>2, <3>1, <3>2, <3>3, <3>4
    <2> QED BY <2>5, <2>7
  <1> QED BY <1>1, <1>2

\* However often, under whatever event id and for whatever order a trade is
\* reported, it is counted once: filled and fill_count of every order are the
\* sum and the number of its distinct recorded trades.
THEOREM TradesCounted == Spec => []TradesCountOnce
  <1>1. Init => ReceiptsHonoured /\ ReceiptsComplete /\ TradesUnique /\ FillsTotalled
    BY DEF Init, ReceiptsHonoured, ReceiptsComplete, TradesUnique, FillsTotalled, FillsOf, Positions
  <1> QED BY <1>1, ReceiptsStep, UniqueStep, TotalledStep, TradesDecompose, OrdersCorrect, PTL DEF Spec
=============================================================================
